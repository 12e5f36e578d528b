\* Three uploads and two instants: a token is shared, expires, and is fetched
\* anew while others wait.  Three requests to the demo: a generation, one that
\* overlaps with it, and a page between.
CONSTANTS
  u1 = u1
  u2 = u2
  u3 = u3
  NoUpload = NoUpload
  Uploads = {u1, u2, u3}
  MaxTime = 2
  h1 = h1
  h2 = h2
  h3 = h3
  Nobody = Nobody
  Handlers = {h1, h2, h3}
SPECIFICATION CachesSpec
INVARIANTS
  TypeOK
  OneLiveToken
  PageShowsItsCharge
PROPERTY
  TokenReturns
