SPECIFICATION AccountsSpec
CONSTANTS
  Customers = {c1}
  Staff = {s1}
  Requests = {r1, r2}
  MaxTokens = 2
  MaxPassword = 1
  NoAccount = NoAccount
  Members = {m1, m2}
  Emails = {x, y}
  Invitations = {i1, i2}
  Desks = {d1, d2}
  NoEmail = NoEmail
  NoMember = NoMember
  NoInvitation = NoInvitation
  Shoppers = {u1, u2}
  AddressIds = {a1, a2, a3}
  Calls = {q1, q2}
  MaxAddresses = 1
  NoShopper = NoShopper
  NoAddress = NoAddress
SYMMETRY Symmetry
INVARIANTS AccountsTypeOK RotatedNotLive SessionsCurrent AcceptedHasAccount SuperAdminUnlessRaced BooksInOrder
PROPERTY RevokedStays
