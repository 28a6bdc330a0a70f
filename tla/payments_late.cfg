\* A verification that races the cancellation of its order.
SPECIFICATION Spec
CONSTANTS
  o1 = o1  x1 = x1  x2 = x2
  Orders = {o1}
  Payments = {x1}
  PayOrder <- OnePayment
  Webhooks = {w1}
  Verifiers = {v1}
  MaxFailures = 0
  NoPayment = NoPayment
INVARIANT LatePaymentFlagged
