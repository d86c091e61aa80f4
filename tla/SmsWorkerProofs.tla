--------------------------- MODULE SmsWorkerProofs ---------------------------
(****************************************************************************)
(* Proofs about SmsWorker for every set of messages, every storage and      *)
(* every batch size, with or without failures and restarts: no wake-up is   *)
(* lost, the interrupt always finds its task, no message is handled a       *)
(* second time, no index is used that an earlier listing left behind, and   *)
(* SmsWorker implements SmsService.                                         *)
(****************************************************************************)
EXTENDS SmsWorker, TLAPS

\* A worker that sleeps or is about to, with nothing to wake it, has left
\* nothing stored unless it missed it.  The pause is what makes this
\* inductive: the storage was found empty before the delay, not after it.
WakeInv ==
    pc \in {"wait", "pause"} /\ ~notified /\ ~ri /\ Occupied # {} => missed

LEMMA NextWakeInv == WakeInv /\ [Next]_vars => WakeInv'
  <1> SUFFICES ASSUME WakeInv, [Next]_vars PROVE WakeInv'
    OBVIOUS
  <1>1. ASSUME NEW m \in Msgs, NEW s \in Slots, Arrive(m, s) PROVE WakeInv'
    BY <1>1 DEF Arrive, WakeInv
  <1>2. CASE Isr
    BY <1>2 DEF Isr, WakeInv
  <1>3. CASE OtherCommand
    BY <1>3 DEF OtherCommand, WakeInv, Occupied
  <1>4. CASE Wake
    BY <1>4 DEF Wake, WakeInv
  <1>5. CASE List
    BY <1>5 DEF List, WakeInv
  <1>6. CASE ListEnds
    BY <1>6 DEF ListEnds, WakeInv, Occupied
  <1>7. CASE Pause
    BY <1>7 DEF Pause, WakeInv, Occupied
  <1>8. CASE ScanEnds
    BY <1>8 DEF ScanEnds, WakeInv
  <1>9. CASE SkipEntry
    BY <1>9 DEF SkipEntry, WakeInv
  <1>10. ASSUME NEW s \in Slots, Take(s) \/ TakeLost(s) PROVE WakeInv'
    BY <1>10 DEF Take, TakeLost, NextEntry, WakeInv
  <1>11. CASE TakeRefused
    BY <1>11 DEF TakeRefused, NextEntry, WakeInv
  <1>12. CASE Accept
    BY <1>12 DEF Accept, WakeInv
  <1>13. CASE Refuse
    BY <1>13 DEF Refuse, NextEntry, WakeInv
  <1>14. CASE Prompt
    BY <1>14 DEF Prompt, WakeInv
  <1>15. CASE Text
    BY <1>15 DEF Text, NextEntry, WakeInv
  <1>16. CASE CreateWorker \/ SetHandle \/ Arm
    BY <1>16 DEF CreateWorker, SetHandle, Arm, working, WakeInv, Occupied
  <1>17. CASE Restart
    BY <1>17 DEF Restart, WakeInv, Occupied
  <1>18. CASE UNCHANGED vars
    BY <1>18 DEF vars, working, WakeInv, Occupied
  <1> QED
    BY <1>1, <1>2, <1>3, <1>4, <1>5, <1>6, <1>7, <1>8, <1>9, <1>10, <1>11,
       <1>12, <1>13, <1>14, <1>15, <1>16, <1>17, <1>18 DEF Next, Worker

\* No SMS waits for ever unnoticed: the notification, the pending interrupt or
\* a failure the worker met accounts for every message stored while it sleeps.
THEOREM WakeupNotLost == Spec => []NoLostWakeup
  <1>1. Init => WakeInv
    <2> SUFFICES ASSUME Init, Occupied # {} PROVE missed
      BY DEF WakeInv
    <2>1. PICK s \in Slots : store[s] # NoMsg
      BY DEF Occupied
    <2>2. Waiting # {}
      BY <2>1 DEF Init
    <2> QED
      BY <2>2 DEF Init
  <1>2. WakeInv => NoLostWakeup
    BY DEF WakeInv, NoLostWakeup
  <1> QED
    BY <1>1, <1>2, NextWakeInv, PTL DEF Spec

-----------------------------------------------------------------------------
\* The storage and the worker's hand hold different messages, none of which
\* has been dealt with.
FateInv ==
    /\ store \in [Slots -> Msgs \cup {NoMsg}]
    /\ fate \in [Msgs -> Fates]
    /\ \A s \in Slots : store[s] # NoMsg => fate[store[s]] = "stored"
    /\ \A r, s \in Slots : store[r] # NoMsg /\ store[r] = store[s] => r = s
    /\ pc \in {"command", "prompt", "text"} => hand \in Msgs /\ fate[hand] = "taken"
    /\ \A m \in Msgs : fate[m] = "taken" =>
         pc \in {"command", "prompt", "text"} /\ m = hand
    /\ pc \in {"prompt", "text"} => hand \in Valid
    /\ hand # NoMsg => pc \in {"command", "prompt", "text"}

LEMMA InitFateInv == Init => FateInv
  <1> SUFFICES ASSUME Init PROVE FateInv
    OBVIOUS
  <1>1. PICK f \in [Waiting -> Slots] :
            /\ \A m, n \in Waiting : f[m] = f[n] => m = n
            /\ store = [s \in Slots |-> IF \E m \in Waiting : f[m] = s
                                        THEN CHOOSE m \in Waiting : f[m] = s
                                        ELSE NoMsg]
    BY DEF Init
  <1>2. \A s \in Slots : store[s] # NoMsg => store[s] \in Waiting /\ f[store[s]] = s
    BY <1>1
  <1>3. store \in [Slots -> Msgs \cup {NoMsg}]
    BY <1>1, <1>2, MsgAssumption
  <1>4. fate \in [Msgs -> Fates]
    BY DEF Init, Fates
  <1>5. \A s \in Slots : store[s] # NoMsg => fate[store[s]] = "stored"
    BY <1>2, MsgAssumption DEF Init
  <1>6. \A r, s \in Slots : store[r] # NoMsg /\ store[r] = store[s] => r = s
    BY <1>2
  <1> QED
    BY <1>3, <1>4, <1>5, <1>6 DEF Init, FateInv

LEMMA NextFateInv == FateInv /\ [Next]_vars => FateInv'
  <1> SUFFICES ASSUME FateInv, [Next]_vars PROVE FateInv'
    OBVIOUS
  <1> USE MsgAssumption
  <1>1. ASSUME NEW m \in Msgs, NEW s \in Slots, Arrive(m, s) PROVE FateInv'
    BY <1>1 DEF Arrive, working, FateInv, Fates
  <1>2. ASSUME NEW s \in Slots, Take(s) PROVE FateInv'
    BY <1>2 DEF Take, Deleted, FateInv, Fates
  <1>3. ASSUME NEW s \in Slots, TakeLost(s) PROVE FateInv'
    BY <1>3 DEF TakeLost, Deleted, NextEntry, FateInv, Fates
  <1>4. CASE Refuse
    BY <1>4 DEF Refuse, NextEntry, FateInv, Fates
  <1>5. CASE Text
    BY <1>5 DEF Text, NextEntry, FateInv, Fates
  <1>6. CASE Accept \/ Prompt
    BY <1>6 DEF Accept, Prompt, FateInv
  <1>7. CASE Isr \/ OtherCommand \/ CreateWorker \/ SetHandle \/ Arm \/ UNCHANGED vars
    BY <1>7 DEF Isr, OtherCommand, CreateWorker, SetHandle, Arm, working, vars, FateInv
  <1>8. CASE Wake \/ List \/ ListEnds \/ Pause \/ ScanEnds \/ SkipEntry \/ TakeRefused
    BY <1>8 DEF Wake, List, ListEnds, Pause, ScanEnds, SkipEntry, TakeRefused,
                NextEntry, FateInv
  <1>9. CASE Restart
    <2>1. \A s \in Slots : store[s] # NoMsg => store[s] # hand
      BY DEF FateInv
    <2> QED
      BY <1>9, <2>1 DEF Restart, FateInv, Fates
  <1> QED
    BY <1>1, <1>2, <1>3, <1>4, <1>5, <1>6, <1>7, <1>8, <1>9 DEF Next, Worker

\* A message that was answered, ignored or lost stays so, whatever fails: it is
\* out of the storage before the worker acts on it, and no slot or batch entry
\* leads to it again.
THEOREM NeverHandledTwice == Spec => HandledOnce
  <1>1. ASSUME FateInv, [Next]_vars, NEW m \in Msgs, fate[m] \in Final
        PROVE  fate'[m] = fate[m]
    <2>1. ASSUME NEW n \in Msgs, NEW s \in Slots, Arrive(n, s)
          PROVE  fate'[m] = fate[m]
      BY <1>1, <2>1 DEF Arrive, FateInv, Final
    <2>2. ASSUME NEW s \in Slots, Take(s) \/ TakeLost(s) PROVE fate'[m] = fate[m]
      <3>1. fate[store[s]] = "stored"
        BY <1>1, <2>2 DEF Take, TakeLost, FateInv
      <3> QED
        BY <1>1, <2>2, <3>1 DEF Take, TakeLost, FateInv, Final
    <2>3. CASE Refuse \/ Text
      BY <1>1, <2>3 DEF Refuse, Text, FateInv, Final
    <2>4. CASE Restart
      <3>1. m # hand
        BY <1>1, MsgAssumption DEF FateInv, Final
      <3> QED
        BY <1>1, <2>4, <3>1 DEF Restart
    <2>5. CASE UNCHANGED fate
      BY <2>5
    <2> QED
      BY <1>1, <2>1, <2>2, <2>3, <2>4, <2>5 DEF Next, Worker, vars, Isr, OtherCommand,
         CreateWorker, SetHandle, Arm,
         Wake, List, ListEnds, Pause, ScanEnds, SkipEntry, TakeRefused, Accept, Prompt
  <1>2. FateInv /\ [Next]_vars
          => [\A m \in Msgs : fate[m] \in Final => fate'[m] = fate[m]]_vars
    BY <1>1
  <1> QED
    BY <1>2, InitFateInv, NextFateInv, PTL DEF Spec, HandledOnce

-----------------------------------------------------------------------------
\* The handle is given before the interrupt is set up, and both go together
\* when the program restarts.
THEOREM InterruptHasTask == Spec => []NotifyHasTarget
  <1> DEFINE HInv == (boot \in {"arm", "up"} => handle) /\ (ri => boot = "up")
  <1>1. Init => HInv
    BY DEF Init
  <1>2. HInv /\ [Next]_vars => HInv'
    <2> SUFFICES ASSUME HInv, [Next]_vars PROVE HInv'
      OBVIOUS
    <2>1. CASE CreateWorker \/ SetHandle \/ Arm \/ Restart
      BY <2>1 DEF CreateWorker, SetHandle, Arm, Restart
    <2>2. ASSUME NEW m \in Msgs, NEW s \in Slots, Arrive(m, s) PROVE HInv'
      BY <2>2 DEF Arrive, bootVars
    <2>3. CASE Isr
      BY <2>3 DEF Isr, bootVars
    <2>4. CASE UNCHANGED <<boot, handle, ri>>
      BY <2>4
    <2> QED
      BY <2>1, <2>2, <2>3, <2>4 DEF Next, Worker, vars, bootVars, OtherCommand, Wake,
         List, ListEnds, Pause, ScanEnds, SkipEntry, Take, TakeLost, TakeRefused,
         Accept, Refuse, Prompt, Text
  <1>3. HInv => NotifyHasTarget
    BY DEF NotifyHasTarget
  <1> QED
    BY <1>1, <1>2, <1>3, PTL DEF Spec

-----------------------------------------------------------------------------
(* The array of indexes *)

Busy == {"command", "prompt", "text"}

\* The first entry the worker has still to look at.
Ahead == IF pc \in Busy THEN at + 1 ELSE at

\* The entries already looked at are cleared, so that a listing finds the whole
\* array cleared; those ahead name different slots that hold a message.
BatchInv ==
    /\ batch \in [1..BatchSize -> Nat]
    /\ at \in 1..(BatchSize + 1)
    /\ pc \in Busy => at <= BatchSize
    /\ pc = "list" => \A i \in 1..BatchSize : batch[i] = 0
    /\ pc \in Busy \cup {"scan"} =>
         /\ \A i \in 1..BatchSize : i < at => batch[i] = 0
         /\ \A i \in Ahead..BatchSize : batch[i] # 0 => batch[i] \in Occupied
         /\ \A i, j \in Ahead..BatchSize : batch[i] # 0 /\ batch[i] = batch[j] => i = j

\* Every entry is a number, and where the array was cleared an entry that is
\* not 0 names a slot that holds a message, and no other entry names it.
LEMMA EntriesListed ==
    ASSUME \A s \in Slots : Index(s) \in {0, s},
           \A i \in 1..BatchSize : batch[i] = 0
    PROVE  /\ \A i \in 1..BatchSize : Entry(i) \in Nat
           /\ \A i \in 1..BatchSize : Entry(i) # 0 => Entry(i) \in Occupied
           /\ \A i, j \in 1..BatchSize : Entry(i) # 0 /\ Entry(i) = Entry(j) => i = j
  <1> DEFINE Slot(i) == CHOOSE s \in Listed(i) : TRUE
  <1>1. \A i : Listed(i) # {} => Slot(i) \in Listed(i)
    OBVIOUS
  <1>2. \A i \in 1..BatchSize : Entry(i) # 0 => Listed(i) # {} /\ Entry(i) = Index(Slot(i))
    BY DEF Entry
  <1>3. \A i : \A s \in Listed(i) : s \in Occupied /\ s \in Slots
    BY DEF Listed, Occupied
  <1>4. \A i : \A s \in Listed(i) : Cardinality({r \in Occupied : r < s}) = i - 1
    BY DEF Listed
  <1> HIDE DEF Slot
  <1>5. \A i \in 1..BatchSize : Entry(i) # 0 => Entry(i) = Slot(i) /\ Slot(i) \in Listed(i)
    BY <1>1, <1>2, <1>3
  <1>6. ASSUME NEW i \in 1..BatchSize PROVE Entry(i) \in Nat
    <2>1. CASE Entry(i) # 0
      <3>1. Entry(i) \in Slots
        BY <1>3, <1>5, <2>1
      <3> QED
        BY <3>1, StorageAssumption
    <2> QED
      BY <2>1
  <1>7. ASSUME NEW i \in 1..BatchSize, NEW j \in 1..BatchSize, Entry(i) # 0, Entry(i) = Entry(j)
        PROVE  i = j
    <2>1. Slot(i) = Slot(j) /\ Slot(i) \in Listed(i) /\ Slot(i) \in Listed(j)
      BY <1>5, <1>7
    <2>2. i - 1 = j - 1
      BY <1>4, <2>1
    <2> QED
      BY <2>2
  <1> QED
    BY <1>3, <1>5, <1>6, <1>7

\* Every step keeps the array so, whatever fails and however often the program
\* restarts.  Going on to the next entry is what clears the one in hand.
LEMMA NextBatchInv ==
    ASSUME \A s \in Slots : Index(s) \in {0, s},
           BatchInv, FateInv, [Next]_vars
    PROVE  BatchInv'
  <1> USE StorageAssumption DEF BatchInv, Ahead, Busy
  <1>1. ASSUME UNCHANGED <<pc, batch, at>>, Occupied \subseteq Occupied' PROVE BatchInv'
    BY <1>1
  <1>2. ASSUME pc \in Busy \cup {"scan"}, at <= BatchSize, NextEntry,
               \A i \in (at + 1)..BatchSize : batch[i] # 0 => batch[i] \in Occupied'
        PROVE  BatchInv'
    <2>1. \A i \in 1..BatchSize : batch'[i] = IF i = at THEN 0 ELSE batch[i]
      BY <1>2 DEF NextEntry
    <2>2. batch' \in [1..BatchSize -> Nat] /\ at' = at + 1 /\ pc' = "scan"
      BY <1>2 DEF NextEntry
    <2> QED
      BY <1>2, <2>1, <2>2
  <1>3. ASSUME NEW m \in Msgs, NEW s \in Slots, Arrive(m, s) PROVE BatchInv'
    <2>1. Occupied \subseteq Occupied'
      BY <1>3, MsgAssumption DEF Arrive, Occupied, FateInv
    <2> QED
      BY <1>1, <1>3, <2>1 DEF Arrive, working
  <1>4. CASE Wake
    BY <1>4 DEF Wake, Empty
  <1>5. CASE List
    <2>1. /\ \A i \in 1..BatchSize : batch'[i] = Entry(i)
          /\ at' = 1 /\ pc' = "scan" /\ Occupied' = Occupied
      BY <1>5 DEF List, Headers, Occupied
    <2>2. \A i \in 1..BatchSize : batch[i] = 0
      BY <1>5 DEF List
    <2>3. batch' \in [1..BatchSize -> Nat]
      BY <1>5, <2>2, EntriesListed DEF List, Headers
    <2> QED
      BY <2>1, <2>2, <2>3, EntriesListed
  <1>6. CASE ListEnds \/ Pause
    BY <1>6 DEF ListEnds, Pause
  <1>7. CASE ScanEnds
    BY <1>7 DEF ScanEnds
  <1>8. CASE SkipEntry
    <2>1. Occupied' = Occupied
      BY <1>8 DEF SkipEntry, Occupied
    <2> QED
      BY <1>8, <2>1 DEF SkipEntry
  <1>9. ASSUME NEW s \in Slots, store' = Deleted(s), batch[at] = s, s > 0, pc = "scan",
               at <= BatchSize
        PROVE  \A i \in (at + 1)..BatchSize : batch[i] # 0 => batch[i] \in Occupied'
    <2>1. \A r \in Occupied : r # s => r \in Occupied'
      BY <1>9 DEF Deleted, Occupied, FateInv
    <2>2. \A i \in (at + 1)..BatchSize : batch[i] # 0 => batch[i] # s
      BY <1>9
    <2> QED
      BY <1>9, <2>1, <2>2
  <1>10. ASSUME NEW s \in Slots, Take(s) PROVE BatchInv'
    <2>1. \A i \in (at + 1)..BatchSize : batch[i] # 0 => batch[i] \in Occupied'
      BY <1>9, <1>10 DEF Take
    <2> QED
      BY <1>10, <2>1 DEF Take
  <1>11. ASSUME NEW s \in Slots, TakeLost(s) PROVE BatchInv'
    BY <1>2, <1>9, <1>11 DEF TakeLost
  <1>12. CASE TakeRefused \/ Refuse \/ Text
    <2>1. Occupied' = Occupied
      BY <1>12 DEF TakeRefused, Refuse, Text, Occupied
    <2> QED
      BY <1>2, <1>12, <2>1 DEF TakeRefused, Refuse, Text
  <1>13. CASE Accept \/ Prompt
    <2>1. Occupied' = Occupied
      BY <1>13 DEF Accept, Prompt, Occupied
    <2> QED
      BY <1>13, <2>1 DEF Accept, Prompt
  <1>14. CASE Restart
    BY <1>14 DEF Restart, Empty
  <1>15. CASE \/ Isr \/ OtherCommand \/ CreateWorker \/ SetHandle \/ Arm
              \/ UNCHANGED vars
    BY <1>1, <1>15 DEF Isr, OtherCommand, CreateWorker, SetHandle, Arm, working, vars, Occupied
  <1> QED
    BY <1>3, <1>4, <1>5, <1>6, <1>7, <1>8, <1>10, <1>11, <1>12, <1>13, <1>14, <1>15
       DEF Next, Worker

\* As long as no index is cut down to another's, that is for indexes up to 255,
\* sms_worker_task never reads at an index left over from an earlier listing:
\* each it has still to look at names a slot that holds a message.
THEOREM ListingIsFresh ==
    ASSUME \A s \in Slots : Index(s) \in {0, s}
    PROVE  Spec => []BatchFresh
  <1>1. Init => BatchInv
    BY StorageAssumption DEF Init, BatchInv, Empty, Busy
  <1>2. BatchInv => BatchFresh
    BY DEF BatchInv, BatchFresh, Ahead, Busy
  <1>3. BatchInv /\ FateInv /\ [Next]_vars => BatchInv'
    BY NextBatchInv
  <1> QED
    BY <1>1, <1>2, <1>3, InitFateInv, NextFateInv, PTL DEF Spec

-----------------------------------------------------------------------------
(* Types *)

\* The types in two parts, Boolean and other, for the provers' sake.
Flags ==
    /\ handle \in BOOLEAN
    /\ ri \in BOOLEAN
    /\ notified \in BOOLEAN
    /\ typing \in BOOLEAN
    /\ missed \in BOOLEAN

LEMMA InitFlags == Init => Flags
  BY DEF Init, Flags

LEMMA NextFlags == Flags /\ [Next]_vars => Flags'
  <1> SUFFICES ASSUME Flags, [Next]_vars PROVE Flags'
    OBVIOUS
  <1> USE DEF Flags, bootVars, working, modemVars
  <1>1. CASE CreateWorker \/ SetHandle \/ Arm \/ Restart \/ Isr \/ OtherCommand \/ UNCHANGED vars
    BY <1>1 DEF CreateWorker, SetHandle, Arm, Restart, Isr, OtherCommand, vars
  <1>2. ASSUME NEW m \in Msgs, NEW s \in Slots, Arrive(m, s) PROVE Flags'
    BY <1>2 DEF Arrive
  <1>3. CASE Worker
    BY <1>3 DEF Worker, Wake, List, ListEnds, Pause, ScanEnds, SkipEntry, Take, TakeLost,
                TakeRefused, Accept, Refuse, Prompt, Text
  <1> QED
    BY <1>1, <1>2, <1>3 DEF Next

\* The types of store, fate and hand come with FateInv; the others need that the
\* entry of a message being answered is one of the array.
Rest ==
    /\ boot \in {"create", "handle", "arm", "up"}
    /\ pc \in Busy \cup {"wait", "list", "scan", "pause"}
    /\ batch \in [1..BatchSize -> Nat]
    /\ at \in 1..(BatchSize + 1)
    /\ pc \in Busy => at <= BatchSize
    /\ hand \in Msgs \cup {NoMsg}
    /\ typed \in Seq({"command"})
    /\ sent \subseteq [to : Msgs, text : Seq({"command", "reply"})]

LEMMA InitRest == Init => Rest
  <1> SUFFICES ASSUME Init PROVE Rest
    OBVIOUS
  <1>1. batch \in [1..BatchSize -> Nat] /\ at \in 1..(BatchSize + 1)
    BY StorageAssumption DEF Init, Empty
  <1>2. typed \in Seq({"command"}) /\ sent = {}
    BY DEF Init
  <1> QED
    BY <1>1, <1>2 DEF Init, Rest, Busy

\* Whatever a listing holds, its entries are numbers.
LEMMA EntryType ==
    ASSUME batch \in [1..BatchSize -> Nat], NEW i \in 1..BatchSize
    PROVE  Entry(i) \in Nat
  <1>1. CASE Listed(i) = {}
    BY <1>1 DEF Entry
  <1>2. CASE Listed(i) # {}
    <2>1. PICK s \in Listed(i) : Entry(i) = Index(s)
      BY <1>2 DEF Entry
    <2>2. s \in Slots
      BY DEF Listed, Occupied
    <2>3. s \in Nat
      BY <2>2, StorageAssumption
    <2> QED
      BY <2>1, <2>3 DEF Index
  <1> QED
    BY <1>1, <1>2

LEMMA NextRest == Rest /\ FateInv /\ [Next]_vars => Rest'
  <1> SUFFICES ASSUME Rest, FateInv, [Next]_vars PROVE Rest'
    OBVIOUS
  <1> USE StorageAssumption DEF Rest, Busy, bootVars, working, modemVars
  <1>1. ASSUME NEW m \in Msgs, NEW s \in Slots, Arrive(m, s) PROVE Rest'
    BY <1>1 DEF Arrive
  <1>2. CASE Isr \/ CreateWorker \/ SetHandle \/ Arm \/ UNCHANGED vars
    BY <1>2 DEF Isr, CreateWorker, SetHandle, Arm, vars
  <1>3. CASE OtherCommand
    BY <1>3 DEF OtherCommand
  <1>4. CASE Wake
    BY <1>4 DEF Wake, Empty
  <1>0. CASE Restart
    <2>1. batch' \in [1..BatchSize -> Nat] /\ at' \in 1..(BatchSize + 1)
      BY <1>0 DEF Restart, Empty
    <2> QED
      BY <1>0, <2>1 DEF Restart
  <1>5. CASE List
    <2>1. batch' \in [1..BatchSize -> Nat]
      BY <1>5, EntryType DEF List, Headers
    <2> QED
      BY <1>5, <2>1 DEF List
  <1>6. CASE ListEnds \/ Pause \/ ScanEnds
    BY <1>6 DEF ListEnds, Pause, ScanEnds
  <1>13. CASE SkipEntry
    BY <1>13 DEF SkipEntry
  <1>7. ASSUME NextEntry, at <= BatchSize
        PROVE  /\ batch' \in [1..BatchSize -> Nat]
               /\ at' \in 1..(BatchSize + 1)
               /\ pc' = "scan"
    BY <1>7 DEF NextEntry
  <1>8. ASSUME NEW s \in Slots, Take(s) PROVE Rest'
    <2>1. hand' \in Msgs
      BY <1>8 DEF Take, FateInv
    <2> QED
      BY <1>8, <2>1 DEF Take
  <1>9. ASSUME NEW s \in Slots, TakeLost(s) PROVE Rest'
    BY <1>7, <1>9 DEF TakeLost
  <1>10. CASE TakeRefused \/ Refuse
    BY <1>7, <1>10 DEF TakeRefused, Refuse
  <1>11. CASE Accept
    BY <1>11 DEF Accept
  <1>16. <<>> \in Seq({"command"})
    OBVIOUS
  <1>17. CASE Prompt
    <2>1. typed' \in Seq({"command"})
      BY <1>16, <1>17 DEF Prompt
    <2> QED
      BY <1>17, <2>1 DEF Prompt
  <1>12. CASE Text
    <2>1. hand \in Msgs
      BY <1>12 DEF Text, FateInv
    <2>2. Append(typed, "reply") \in Seq({"command", "reply"})
      OBVIOUS
    <2>3. [to |-> hand, text |-> Append(typed, "reply")]
            \in [to : Msgs, text : Seq({"command", "reply"})]
      BY <2>1, <2>2
    <2>4. sent' \subseteq [to : Msgs, text : Seq({"command", "reply"})]
      BY <1>12, <2>3 DEF Text
    <2>5. typed' \in Seq({"command"})
      BY <1>12, <1>16 DEF Text
    <2>6. batch' \in [1..BatchSize -> Nat] /\ at' \in 1..(BatchSize + 1) /\ pc' = "scan"
      BY <1>7, <1>12 DEF Text
    <2>7. hand' = NoMsg /\ boot' = boot
      BY <1>12 DEF Text
    <2> QED
      BY <2>4, <2>5, <2>6, <2>7
  <1> QED
    BY <1>0, <1>1, <1>2, <1>3, <1>4, <1>5, <1>6, <1>8, <1>9, <1>10, <1>11, <1>12, <1>13, <1>17
       DEF Next, Worker

\* Every variable of the SMS path keeps its type: i stays within the array, or
\* just past it.
THEOREM TypeCorrect == Spec => []TypeOK
  <1>1. Flags /\ Rest /\ FateInv => TypeOK
    BY DEF Flags, Rest, FateInv, TypeOK, Busy
  <1> QED
    BY <1>1, InitFlags, InitRest, InitFateInv, NextFlags, NextRest, NextFateInv, PTL DEF Spec

-----------------------------------------------------------------------------
(* SmsWorker implements SmsService *)

Answered == {s.to : s \in sent}

\* What the worker's steps that touch no message do is a stutter of SmsService.
LEMMA Stutter ==
    ASSUME UNCHANGED <<fate, sent>>
    PROVE  UNCHANGED Service!vars
  BY DEF Service!vars

LEMMA StepImplements == FateInv /\ [Next]_vars => [Service!Next]_(Service!vars)
  <1> SUFFICES ASSUME FateInv, [Next]_vars PROVE Service!Next \/ UNCHANGED Service!vars
    OBVIOUS
  <1> USE MsgAssumption
  <1>1. ASSUME NEW m \in Msgs, NEW s \in Slots, Arrive(m, s) PROVE Service!Next
    BY <1>1 DEF Arrive, modemVars, Service!Next, Service!Arrive, Service!Becomes
  <1>2. ASSUME NEW s \in Slots, Take(s) PROVE Service!Next
    <2>1. store[s] \in Msgs /\ fate[store[s]] = "stored"
      BY <1>2 DEF Take, FateInv
    <2>2. \A n \in Msgs : fate[n] # "taken"
      BY <1>2 DEF Take, FateInv
    <2>3. Service!Take(store[s])
      BY <1>2, <2>1, <2>2 DEF Take, modemVars, Service!Take, Service!Becomes
    <2> QED
      BY <2>1, <2>3 DEF Service!Next
  <1>3. ASSUME NEW s \in Slots, TakeLost(s) PROVE Service!Next
    <2>1. store[s] \in Msgs /\ fate[store[s]] = "stored"
      BY <1>3 DEF TakeLost, FateInv
    <2>2. Service!Lose(store[s])
      BY <1>3, <2>1 DEF TakeLost, modemVars, Service!Lose, Service!Becomes
    <2> QED
      BY <2>1, <2>2 DEF Service!Next
  <1>4. CASE Refuse
    <2>1. hand \in Msgs /\ fate[hand] = "taken"
      BY <1>4 DEF Refuse, FateInv
    <2>2. Service!Ignore(hand)
      BY <1>4, <2>1 DEF Refuse, modemVars, Service!Ignore, Service!Becomes
    <2> QED
      BY <2>1, <2>2 DEF Service!Next
  <1>5. CASE Text
    <2>1. hand \in Msgs /\ fate[hand] = "taken" /\ hand \in Valid
      BY <1>5 DEF Text, FateInv
    <2>2. CASE /\ sent' = sent \cup {[to |-> hand, text |-> Append(typed, "reply")]}
               /\ fate' = [fate EXCEPT ![hand] = "answered"]
      <3> DEFINE sms == [to |-> hand, text |-> Append(typed, "reply")]
      <3>0. sms.to = hand /\ sent' = sent \cup {sms}
        BY <2>2
      <3> HIDE DEF sms
      <3>1. Answered' = Answered \cup {hand}
        BY <3>0, Zenon DEF Answered
      <3>2. PICK m \in Msgs : m = hand
        BY <2>1
      <3>3. Service!Answer(m)
        BY <2>1, <2>2, <3>1, <3>2 DEF Answered, Service!Answer, Service!Becomes
      <3> QED
        BY <3>3 DEF Service!Next
    <2>3. CASE sent' = sent /\ fate' = [fate EXCEPT ![hand] = "unanswered"]
      <3>1. Service!Fail(hand)
        BY <2>1, <2>3 DEF Service!Fail, Service!Becomes
      <3> QED
        BY <2>1, <3>1 DEF Service!Next
    <2> QED
      BY <1>5, <2>2, <2>3 DEF Text
  <1>6. CASE Restart
    <2>1. CASE hand = NoMsg
      <3>1. \A m \in Msgs : fate'[m] = fate[m]
        BY <1>6, <2>1 DEF Restart
      <3>2. fate' = fate
        BY <1>6, <3>1 DEF Restart, FateInv
      <3> QED
        BY <1>6, <3>2, Stutter DEF Restart
    <2>2. CASE hand # NoMsg
      <3>1. hand \in Msgs /\ fate[hand] = "taken"
        BY <2>2 DEF FateInv
      <3>2. fate' = [fate EXCEPT ![hand] = "lost"]
        BY <1>6, <3>1 DEF Restart, FateInv
      <3>3. Service!Lose(hand)
        BY <1>6, <3>1, <3>2 DEF Restart, Service!Lose, Service!Becomes
      <3> QED
        BY <3>1, <3>3 DEF Service!Next
    <2> QED
      BY <2>1, <2>2
  <1>7. CASE UNCHANGED <<fate, sent>>
    BY <1>7, Stutter
  <1> QED
    BY <1>1, <1>2, <1>3, <1>4, <1>5, <1>6, <1>7 DEF Next, Worker, vars, modemVars,
       Isr, OtherCommand, CreateWorker, SetHandle, Arm, Wake, List, ListEnds, Pause,
       ScanEnds, SkipEntry, TakeRefused, Accept, Prompt

\* The worker, with its batches, its two exchanges for an answer, failures and
\* restarts, does nothing to the messages that SmsService does not allow.
THEOREM WorkerIsService == Spec => ImplementsService
  <1>1. Init => Service!Init
    <2> SUFFICES ASSUME Init PROVE Service!Init
      OBVIOUS
    <2>1. {s.to : s \in sent} = {}
      BY DEF Init
    <2>2. fate \in [Msgs -> {"unsent", "stored"}]
      BY DEF Init
    <2> QED
      BY <2>1, <2>2 DEF Service!Init
  <1> QED
    BY <1>1, InitFateInv, NextFateInv, StepImplements, PTL
       DEF Spec, ImplementsService, Service!Spec

=============================================================================
