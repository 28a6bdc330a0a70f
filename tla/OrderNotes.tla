----------------------------- MODULE OrderNotes -----------------------------
(***************************************************************************)
(* The notes that administrators put on an order.  The use case reads the  *)
(* order, sets its notes and saves the row whole, outside any transaction: *)
(* a status that another request gave the order in between is replaced by  *)
(* the one that was read.  Module Orders is every other writer of an       *)
(* online order but the shipments; what it shows of an order holds for as  *)
(* long as no note is saved over a change.                                 *)
(***************************************************************************)
EXTENDS Orders

CONSTANT Writers   \* administrators who write a note, one each at a time

VARIABLE note      \* the order each of them has read, and its status then

noteVars == <<vars, note>>

NoNote == [order |-> NoOrder, status |-> "none"]

NotesInit == Init /\ note = [w \in Writers |-> NoNote]

-----------------------------------------------------------------------------
ReadForNotes(w, o) ==
  /\ note[w] = NoNote
  /\ status[o] # "none"
  /\ note' = [note EXCEPT ![w] = [order |-> o, status |-> status[o]]]
  /\ UNCHANGED vars

\* TypeORM writes the columns in which the entity differs from the row it finds
\* as it saves.  A change of status after that look is not undone.
SaveNotes(w) ==
  LET o == note[w].order IN
  /\ note[w] # NoNote
  /\ status' \in {status, [status EXCEPT ![o] = note[w].status]}
  /\ note' = [note EXCEPT ![w] = NoNote]
  /\ UNCHANGED <<cart, stock, uses, request, events, change>>

NotesNext ==
  \/ Next /\ UNCHANGED note
  \/ \E w \in Writers : SaveNotes(w) \/ \E o \in Orders : ReadForNotes(w, o)

NotesSpec == NotesInit /\ [][NotesNext]_noteVars

-----------------------------------------------------------------------------
\* An order's status changes along the table of transitions only
\* (docs/modules/orders.md 137-146, VALID_TRANSITIONS of order.entity.ts).  A
\* note that is saved late takes a payment or a cancellation back, and what the
\* order held is then given back, or paid for, a second time.
StatusFollowsTable ==
  [][\A o \in Orders :
       status'[o] # status[o] =>
         status[o] = "none" \/ status'[o] \in ValidTransitions[status[o]]]_vars
=============================================================================
