----------------------------- MODULE MCAccounts -----------------------------
\* The sessions of customers, those of staff, the staff itself, or the address
\* books: one at a time, for none of them writes the rows of another.
EXTENDS Sessions, StaffAccounts, Addresses, TLC

VARIABLE part

accountsVars == <<vars, staffVars, addressVars, part>>

AccountsInit ==
  /\ Init /\ StaffInit /\ AddressesInit
  /\ part \in {"customers", "staff", "members", "addresses"}

Serving(S) == \A r \in Requests : request'[r].account \in S \cup {NoAccount}

AccountsNext ==
  /\ UNCHANGED part
  /\ \/ part = "customers" /\ Next /\ Serving(Customers) /\ UNCHANGED <<staffVars, addressVars>>
     \/ part = "staff" /\ Next /\ Serving(Staff) /\ UNCHANGED <<staffVars, addressVars>>
     \/ part = "members" /\ StaffNext /\ UNCHANGED <<vars, addressVars>>
     \/ part = "addresses" /\ AddressesNext /\ UNCHANGED <<vars, staffVars>>

AccountsSpec == AccountsInit /\ [][AccountsNext]_accountsVars

\* Every row is of its table's type.
AccountsTypeOK == TypeOK /\ StaffTypeOK /\ AddressesTypeOK

\* Nothing tells the members of these sets apart.
Symmetry ==
  Permutations(Requests) \cup Permutations(Members) \cup Permutations(Emails) \cup
  Permutations(Invitations) \cup Permutations(Desks)
=============================================================================
