\* One order paid twice, two notification handlers and a verification, one failure.
SPECIFICATION Spec
CONSTANTS
  o1 = o1  x1 = x1  x2 = x2
  Orders = {o1}
  Payments = {x1, x2}
  PayOrder <- TwoPayments
  Webhooks = {w1, w2}
  Verifiers = {v1}
  MaxFailures = 1
  NoPayment = NoPayment
INVARIANTS TypeOK PaidIsBacked RecordedIsSettled
PROPERTIES ImplementsLifeCycle ApprovedIsRecorded
