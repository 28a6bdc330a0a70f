------------------------------ MODULE Addresses ------------------------------
(***************************************************************************)
(* The address book of each customer.                                      *)
(*                                                                         *)
(* A request reads the address it is about, or counts the book, and writes *)
(* in a later statement.  Marking the default is one UPDATE of the whole   *)
(* book; an edited address is saved whole, its mark as it was read, and is *)
(* inserted again if it was deleted meanwhile.                             *)
(***************************************************************************)
EXTENDS Integers, FiniteSets

CONSTANTS
  Shoppers, AddressIds,
  Calls,         \* requests in flight at once, one each
  MaxAddresses,  \* the addresses a customer may have
  NoShopper, NoAddress

ASSUME AddressAssumption ==
  /\ MaxAddresses \in Nat \ {0} /\ IsFiniteSet(Calls)
  /\ NoShopper \notin Shoppers /\ NoAddress \notin AddressIds

VARIABLES
  address,   \* addresses
  call,      \* the requests in flight
  disputed   \* auxiliary: books in which an overlapping request saved an
             \* address since the default was last marked

addressVars == <<address, call, disputed>>

\* Street, label and the rest are only ever copied.
Address == [owner : Shoppers \cup {NoShopper}, default : BOOLEAN]

Call ==
  [step : {"idle", "creating", "saving", "marking", "deleting"},
   shopper : Shoppers \cup {NoShopper}, address : AddressIds \cup {NoAddress},
   new : Address, alone : BOOLEAN]

NoRecord == [owner |-> NoShopper, default |-> FALSE]
NoCall == [step |-> "idle", shopper |-> NoShopper, address |-> NoAddress,
           new |-> NoRecord, alone |-> FALSE]

AddressesTypeOK ==
  /\ address \in [AddressIds -> Address]
  /\ call \in [Calls -> Call]
  /\ disputed \subseteq Shoppers

AddressesInit ==
  /\ address = [a \in AddressIds |-> NoRecord]
  /\ call = [q \in Calls |-> NoCall]
  /\ disputed = {}

Book(u) == {a \in AddressIds : address[a].owner = u}
Defaults(u) == {a \in Book(u) : address[a].default}

-----------------------------------------------------------------------------
\* A request starts; one that overlaps with another of its customer is not alone.
Send(q, step, u, a, new) ==
  /\ call[q].step = "idle"
  /\ call' = [x \in Calls |->
       IF x = q THEN [step |-> step, shopper |-> u, address |-> a, new |-> new,
                      alone |-> \A y \in Calls : call[y].shopper # u]
       ELSE [call[x] EXCEPT !.alone = @ /\ call[x].shopper # u]]
  /\ UNCHANGED <<address, disputed>>

\* Mutant: the count is compared after the insert, that is, never.
CreateUncounted(q, u) ==
  Send(q, "creating", u, NoAddress, [owner |-> u, default |-> FALSE])

CreateAddress(q, u) ==
  /\ Cardinality(Book(u)) < MaxAddresses
  /\ Send(q, "creating", u, NoAddress, [owner |-> u, default |-> FALSE])

\* ADDRESS_NOT_OWNED
Owned(u, a) == address[a].owner = u

UpdateAddress(q, u, a) == Owned(u, a) /\ Send(q, "saving", u, a, address[a])
SetDefaultAddress(q, u, a) == Owned(u, a) /\ Send(q, "marking", u, a, NoRecord)
DeleteAddress(q, u, a) == Owned(u, a) /\ Send(q, "deleting", u, a, NoRecord)

-----------------------------------------------------------------------------
Answered(q) == [call EXCEPT ![q] = NoCall]

InsertAddress(q, a) ==
  /\ call[q].step = "creating"
  /\ address[a] = NoRecord /\ \A x \in Calls : call[x].address # a
  /\ address' = [address EXCEPT ![a] = call[q].new]
  /\ call' = Answered(q)
  /\ UNCHANGED disputed

SaveAddress(q) ==
  /\ call[q].step = "saving"
  /\ address' = [address EXCEPT ![call[q].address] = call[q].new]
  /\ disputed' = IF call[q].alone THEN disputed ELSE disputed \cup {call[q].shopper}
  /\ call' = Answered(q)

\* UPDATE addresses SET is_default = (id = :addressId) WHERE user_id = :userId
MarkDefault(q) ==
  LET u == call[q].shopper IN
  /\ call[q].step = "marking"
  /\ address' = [a \in AddressIds |->
       IF a \in Book(u) THEN [address[a] EXCEPT !.default = (a = call[q].address)]
       ELSE address[a]]
  /\ disputed' = disputed \ {u}
  /\ call' = Answered(q)

RemoveAddress(q) ==
  /\ call[q].step = "deleting"
  /\ address' = [address EXCEPT ![call[q].address] = NoRecord]
  /\ call' = Answered(q)
  /\ UNCHANGED disputed

\* The process dies before the second statement.
CallDies(q) ==
  /\ call[q].step # "idle"
  /\ call' = Answered(q)
  /\ UNCHANGED <<address, disputed>>

CallStarts(q) ==
  \E u \in Shoppers :
    \/ CreateAddress(q, u)
    \/ \E a \in AddressIds :
         UpdateAddress(q, u, a) \/ SetDefaultAddress(q, u, a) \/ DeleteAddress(q, u, a)

AddressesNext ==
  \E q \in Calls :
    \/ CallStarts(q)
    \/ \E a \in AddressIds : InsertAddress(q, a)
    \/ SaveAddress(q) \/ MarkDefault(q) \/ RemoveAddress(q) \/ CallDies(q)

AddressesSpec == AddressesInit /\ [][AddressesNext]_addressVars

-----------------------------------------------------------------------------
\* The limit of a book is passed by no more than the requests that run at once,
\* counting together or inserting again what was deleted (create-address 25).
LimitHolds ==
  \A u \in Shoppers : Cardinality(Book(u)) <= MaxAddresses + Cardinality(Calls) - 1

\* A book has one default at most, until an overlapping save brings back the
\* mark it read; marking a default again puts it right (update-address).
OneDefault == \A u \in Shoppers \ disputed : Cardinality(Defaults(u)) <= 1

\* The address book as the use cases leave it, whatever requests overlap or die.
BooksInOrder == LimitHolds /\ OneDefault
=============================================================================
