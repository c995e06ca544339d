CONSTANTS
  r1 = r1  r2 = r2  c1 = c1  c2 = c2  c3 = c3
  NoConn = NoConn
  Riders <- MCRiders
  Conns <- MCConns
  RiderOf <- MCRiderOf
SPECIFICATION Spec
INVARIANT ConnectedIsRegistered
