-------------------------- MODULE AgentLoopProofs --------------------------
(***************************************************************************)
(* Retries repeat no effect, records that claim NoEffect are right, and a  *)
(* halting failure is the last thing that happens: for any tools, numbers  *)
(* of turns, calls and attempts, and faults reported by the dispatcher.    *)
(*                                                                         *)
(* The records of finished calls are only ever appended to, so everything  *)
(* rests on what is known of the call in progress: its effect so far is    *)
(* the one of the running attempt, and if it was tried before it is a read *)
(* that was unavailable each time.                                         *)
(***************************************************************************)
EXTENDS AgentLoop, SequenceTheorems, WellFoundedInduction, TLAPS

Running == pc \in {"attempt", "inflight"}

AgentTyped ==
  /\ pc \in {"model", "attempt", "inflight", "done", "error"}
  /\ todo \in Seq(Tool) /\ tries \in Seq(Faults)
  /\ lastFailed \in Nat
  /\ calls \in Seq([tool : Tool, success : BOOLEAN, failure : Nat])
  /\ records \in Seq(FailureRecord)
  /\ acted \in BOOLEAN /\ effects \in Seq({0, 1})

(* The call in progress has an entry in effects of its own, which counts   *)
(* what the running attempt did.                                           *)
Begun ==
  /\ Running => /\ todo # <<>> /\ Len(effects) = Current
                /\ effects[Current] = IF acted THEN 1 ELSE 0
  /\ ~Running => Len(effects) = Len(calls) /\ tries = <<>>
  /\ acted => pc = "inflight" /\ Mutating(Head(todo))
  /\ completed => pc = "done"

(* A call that is tried again is a read that was unavailable.              *)
Retried ==
  tries # <<>> =>
    /\ Head(todo) \in Idempotent /\ Len(tries) < Ceiling
    /\ \A i \in 1..Len(tries) : tries[i].class = "Unavailable"

Recorded ==
  \A r \in 1..Len(records) :
    records[r].call \in 1..Len(calls) /\ (records[r].attempt > 1 => r > 1)

AgentInv ==
  /\ AgentTyped /\ Begun /\ Retried /\ Recorded
  /\ RetriesHarmless /\ NoEffectRecordIsTrue /\ HaltIsLast

-----------------------------------------------------------------------------
(* What a finished call adds to the records.                               *)
LEMMA RecordsAdded ==
  ASSUME AgentTyped, NEW ts \in Seq(Faults), records' = records \o RecordsOf(ts)
  PROVE  /\ records' \in Seq(FailureRecord)
         /\ Len(records') = Len(records) + Len(ts)
         /\ \A r \in 1..Len(records) : records'[r] = records[r]
         /\ \A i \in 1..Len(ts) :
              /\ records'[Len(records) + i].call = Current
              /\ records'[Len(records) + i].parent = lastFailed
              /\ records'[Len(records) + i].attempt = i
              /\ records'[Len(records) + i].class = ts[i].class
              /\ records'[Len(records) + i].certainty = ts[i].certainty
<1> DEFINE new == RecordsOf(ts)
<1>1. Len(ts) \in Nat /\ Current \in Nat /\ Len(records) \in Nat
  BY DEF AgentTyped, Current
<1>2. ASSUME NEW i \in 1..Len(ts)
      PROVE  /\ new[i] = [call |-> Current, parent |-> lastFailed, attempt |-> i,
                          class |-> ts[i].class, certainty |-> ts[i].certainty]
             /\ new[i] \in FailureRecord
  <2>1. new[i] = [call |-> Current, parent |-> lastFailed, attempt |-> i,
                  class |-> ts[i].class, certainty |-> ts[i].certainty]
    BY DEF RecordsOf
  <2>2. ts[i] \in Faults
    OBVIOUS
  <2>3. ts[i].class \in Classes /\ ts[i].certainty \in Certainties
    BY <2>2 DEF Faults
  <2>4. i \in Nat \ {0} /\ lastFailed \in Nat
    BY <1>1 DEF AgentTyped
  <2> QED BY <1>1, <2>1, <2>3, <2>4 DEF FailureRecord
<1>3. new \in Seq(FailureRecord) /\ Len(new) = Len(ts)
  <2>1. new = [i \in 1..Len(ts) |-> new[i]]
    BY DEF RecordsOf
  <2> HIDE DEF new
  <2> QED BY <1>1, <1>2, <2>1
<1> HIDE DEF new
<1>4. records \in Seq(FailureRecord) /\ records' = records \o new
  BY DEF AgentTyped, new
<1>5. /\ records' \in Seq(FailureRecord) /\ Len(records') = Len(records) + Len(ts)
      /\ \A k \in 1..Len(records') :
           records'[k] = IF k <= Len(records) THEN records[k] ELSE new[k - Len(records)]
  <2>1. /\ records \o new \in Seq(FailureRecord)
        /\ Len(records \o new) = Len(records) + Len(new)
        /\ \A k \in 1..Len(records) + Len(new) :
             (records \o new)[k] = IF k <= Len(records) THEN records[k]
                                   ELSE new[k - Len(records)]
    BY <1>3, <1>4, ConcatProperties
  <2> QED BY <1>3, <1>4, <2>1
<1>6. ASSUME NEW i \in 1..Len(ts) PROVE records'[Len(records) + i] = new[i]
  <2>1. Len(records) + i \in 1..Len(records') /\ ~(Len(records) + i <= Len(records))
        /\ (Len(records) + i) - Len(records) = i
    BY <1>1, <1>5
  <2> QED BY <1>5, <2>1
<1>7. \A r \in 1..Len(records) : records'[r] = records[r]
  BY <1>1, <1>5
<1>8. ASSUME NEW i \in 1..Len(ts)
      PROVE  /\ new[i].call = Current /\ new[i].parent = lastFailed /\ new[i].attempt = i
             /\ new[i].class = ts[i].class /\ new[i].certainty = ts[i].certainty
  <2>1. new[i] = [call |-> Current, parent |-> lastFailed, attempt |-> i,
                  class |-> ts[i].class, certainty |-> ts[i].certainty]
    BY <1>2
  <2> QED BY <2>1
<1> QED BY <1>5, <1>6, <1>7, <1>8

(* The current call is over: it succeeded, or its last attempt failed with *)
(* a fault that claims no effect only if the attempt had none.             *)
Over(ts, success) ==
  /\ Running /\ NextCall(ts, success)
  /\ ts \in Seq(Faults) /\ success \in BOOLEAN
  /\ \/ success /\ ts = tries
     \/ \E fault \in Faults :
          /\ ts = Append(tries, fault) /\ ~success
          /\ fault.certainty = "NoEffect" => ~acted
          /\ fault.class \in Halts <=> pc' = "done"
  /\ \/ pc' = "done" /\ UNCHANGED <<todo, effects>>
     \/ Continue
  /\ lastFailed' = LastFailed(success) /\ completed' = completed

(* What is known of the attempts of the call that is over.                 *)
LEMMA AttemptsOf ==
  ASSUME AgentInv, NEW ts, NEW success, Over(ts, success)
  PROVE  /\ Len(ts) > 1 => Head(todo) \in Idempotent
         /\ Len(ts) <= Ceiling
         /\ \A i \in 1..Len(ts) : i < Len(ts) => ts[i].class = "Unavailable"
         /\ pc' # "done" => \A i \in 1..Len(ts) : ts[i].class \notin Halts
         /\ ~success => /\ Len(ts) \in 1..Len(ts)
                        /\ ts[Len(ts)].certainty = "NoEffect" => ~acted
<1> USE LoopAssumption
<1>1. tries \in Seq(Faults) /\ Len(tries) \in Nat
  BY DEF AgentInv, AgentTyped
<1>2. tries # <<>> => Len(tries) > 0
  BY <1>1
<1>3. tries = <<>> \/ (/\ Head(todo) \in Idempotent /\ Len(tries) < Ceiling
                       /\ \A i \in 1..Len(tries) : tries[i].class = "Unavailable")
  BY DEF AgentInv, Retried
<1>4. CASE success /\ ts = tries
  BY <1>1, <1>2, <1>3, <1>4 DEF Halts
<1>5. CASE ~success
  <2>1. PICK fault \in Faults :
          /\ ts = Append(tries, fault)
          /\ fault.certainty = "NoEffect" => ~acted
          /\ fault.class \in Halts <=> pc' = "done"
    BY <1>5 DEF Over
  <2>2. /\ Len(ts) = Len(tries) + 1 /\ ts[Len(ts)] = fault
        /\ \A i \in 1..Len(tries) : ts[i] = tries[i]
    BY <1>1, <2>1
  <2>3. Len(ts) > 1 => tries # <<>>
    BY <1>1, <2>2
  <2>4. Len(ts) <= Ceiling
    BY <1>1, <1>2, <1>3, <2>2
  <2>5. ASSUME NEW i \in 1..Len(ts), i < Len(ts) PROVE ts[i].class = "Unavailable"
    BY <1>1, <1>3, <2>2, <2>5
  <2>6. ASSUME NEW i \in 1..Len(ts), pc' # "done" PROVE ts[i].class \notin Halts
    <3>1. CASE i < Len(ts)
      BY <2>5, <3>1 DEF Halts
    <3>2. CASE i = Len(ts)
      BY <2>1, <2>2, <2>6, <3>2
    <3> QED BY <1>1, <2>2, <3>1, <3>2
  <2> QED BY <1>1, <1>3, <2>1, <2>2, <2>3, <2>4, <2>5, <2>6
<1> QED BY <1>4, <1>5 DEF Over

(* The effect of a call that is over is the one of its last attempt.       *)
LEMMA CallsAdded ==
  ASSUME AgentInv, NEW ts, NEW success, Over(ts, success)
  PROVE  /\ calls' \in Seq([tool : Tool, success : BOOLEAN, failure : Nat])
         /\ Len(calls') = Current /\ Current \in Nat \ {0}
         /\ \A c \in 1..Len(calls) : calls'[c] = calls[c]
         /\ calls'[Current].tool = Head(todo) /\ calls'[Current].success = success
         /\ calls'[Current].failure = IF success THEN 0 ELSE Len(records')
         /\ effects' \in Seq({0, 1})
         /\ \A c \in 1..Current : effects'[c] = effects[c]
<1> DEFINE new == [tool |-> Head(todo), success |-> success,
                   failure |-> IF success THEN 0 ELSE Len(records')]
<1>1. /\ calls \in Seq([tool : Tool, success : BOOLEAN, failure : Nat])
      /\ effects \in Seq({0, 1}) /\ Len(effects) = Current
      /\ todo \in Seq(Tool) /\ todo # <<>> /\ Head(todo) \in Tool
  BY HeadTailProperties DEF AgentInv, AgentTyped, Begun, Over
<1>2. records' \in Seq(FailureRecord)
  BY RecordsAdded DEF AgentInv, Over, NextCall
<1>3. new \in [tool : Tool, success : BOOLEAN, failure : Nat]
  BY <1>1, <1>2 DEF Over
<1>4. /\ new.tool = Head(todo) /\ new.success = success
      /\ new.failure = IF success THEN 0 ELSE Len(records')
  OBVIOUS
<1>5. calls' = Append(calls, new)
  BY DEF Over, NextCall
<1> HIDE DEF new
<1>6. Current = Len(calls) + 1 /\ Len(calls) \in Nat
  BY <1>1 DEF Current
<1>7. effects' = effects \/ effects' = Append(effects, 0)
  BY DEF Over, Continue
<1>8. effects' \in Seq({0, 1}) /\ \A c \in 1..Current : effects'[c] = effects[c]
  <2>1. CASE effects' = Append(effects, 0)
    BY <1>1, <1>6, <2>1, AppendProperties
  <2> QED BY <1>1, <1>7, <2>1
<1>9. /\ calls' \in Seq([tool : Tool, success : BOOLEAN, failure : Nat])
      /\ Len(calls') = Len(calls) + 1 /\ calls'[Len(calls) + 1] = new
      /\ \A c \in 1..Len(calls) : calls'[c] = calls[c]
  BY <1>1, <1>3, <1>5, AppendProperties
<1> QED BY <1>4, <1>6, <1>8, <1>9

LEMMA OverKept ==
  ASSUME AgentInv, NEW ts, NEW success, Over(ts, success)
  PROVE  AgentInv'
<1>1. /\ records' \in Seq(FailureRecord)
      /\ Len(records') = Len(records) + Len(ts)
      /\ \A r \in 1..Len(records) : records'[r] = records[r]
      /\ \A i \in 1..Len(ts) :
           /\ records'[Len(records) + i].call = Current
           /\ records'[Len(records) + i].attempt = i
           /\ records'[Len(records) + i].class = ts[i].class
           /\ records'[Len(records) + i].certainty = ts[i].certainty
  BY RecordsAdded DEF AgentInv, Over, NextCall
<1>2. Len(ts) \in Nat /\ Len(records) \in Nat /\ Len(calls) \in Nat
      /\ Current = Len(calls) + 1
  BY DEF Over, AgentInv, AgentTyped, Current
<1>3. ASSUME NEW r \in 1..Len(records'), r > Len(records)
      PROVE  \E i \in 1..Len(ts) : r = Len(records) + i
  <2>1. r - Len(records) \in 1..Len(ts) /\ r = Len(records) + (r - Len(records))
    BY <1>1, <1>2, <1>3
  <2> QED BY <2>1
<1>4. /\ tries' = <<>> /\ acted' = FALSE /\ pc # "done" /\ ~completed
      /\ completed' = completed /\ Len(effects) = Current
  BY DEF Over, NextCall, AgentInv, Begun, Running
<1>0. /\ calls' \in Seq([tool : Tool, success : BOOLEAN, failure : Nat])
      /\ Len(calls') = Current /\ effects' \in Seq({0, 1})
  BY CallsAdded
<1>5. AgentTyped' /\ Begun'
  <2>1. todo' \in Seq(Tool) /\ pc' \in {"model", "attempt", "done"}
        /\ (pc' = "attempt" => todo' # <<>>)
        /\ (pc' = "attempt" => effects' = Append(effects, 0))
        /\ (pc' # "attempt" => effects' = effects)
    BY HeadTailProperties DEF Over, Continue, AgentInv, AgentTyped, Begun
  <2>2. AgentTyped'
    <3>1. tries' \in Seq(Faults) /\ acted' \in BOOLEAN
      BY <1>4, EmptySeq
    <3>2. lastFailed' \in Nat
      BY CallsAdded DEF Over, LastFailed
    <3> QED BY <1>0, <1>1, <2>1, <3>1, <3>2 DEF AgentTyped
  <2>3. CASE pc' = "attempt"
    <3>1. Len(effects') = Current + 1 /\ effects'[Current + 1] = 0
      BY <1>2, <1>4, <2>1, <2>3 DEF AgentInv, AgentTyped
    <3>2. Current' = Current + 1
      BY <1>0 DEF Current
    <3>3. Len(effects') = Current' /\ effects'[Current'] = 0
      BY <3>1, <3>2
    <3>4. Running' /\ ~acted' /\ ~completed' /\ todo' # <<>>
      BY <1>4, <2>1, <2>3 DEF Running
    <3> QED BY <2>2, <3>3, <3>4 DEF Begun
  <2>4. CASE pc' # "attempt"
    <3>1. ~Running' /\ ~acted' /\ ~completed' /\ tries' = <<>>
      BY <1>4, <2>1, <2>4 DEF Running
    <3>2. Len(effects') = Len(calls')
      BY <1>0, <1>4, <2>1, <2>4
    <3> QED BY <2>2, <3>1, <3>2 DEF Begun
  <2> QED BY <2>2, <2>3, <2>4
<1>6. Retried'
  BY <1>4 DEF Retried
<1>7. Recorded'
  <2> SUFFICES ASSUME NEW r \in 1..Len(records')
               PROVE  /\ records'[r].call \in 1..Len(calls')
                      /\ records'[r].attempt > 1 => r > 1
    BY DEF Recorded
  <2>1. CASE r <= Len(records)
    BY <1>1, <1>2, <2>1, CallsAdded DEF AgentInv, Recorded
  <2>2. CASE r > Len(records)
    <3>1. PICK i \in 1..Len(ts) : r = Len(records) + i
      BY <1>3, <2>2
    <3> QED BY <1>1, <1>2, <3>1, CallsAdded
  <2> QED BY <1>1, <1>2, <2>1, <2>2
<1>8. RetriesHarmless'
  <2>1. \A c \in 1..Len(effects') : effects'[c] <= 1
    BY CallsAdded
  <2>2. ASSUME NEW r \in 1..Len(records'), records'[r].attempt > 1
        PROVE  /\ calls'[records'[r].call].tool \in Idempotent
               /\ records'[r].attempt <= Ceiling
               /\ records'[r - 1].call = records'[r].call
               /\ records'[r - 1].class = "Unavailable"
    <3>1. CASE r <= Len(records)
      <4>1. r \in 1..Len(records) /\ r - 1 \in 1..Len(records)
        BY <1>1, <1>2, <2>2, <3>1 DEF AgentInv, Recorded
      <4>2. records'[r] = records[r] /\ records'[r - 1] = records[r - 1]
        BY <1>1, <4>1
      <4>3. calls'[records[r].call] = calls[records[r].call]
        BY <4>1, CallsAdded DEF AgentInv, Recorded
      <4> QED BY <2>2, <4>1, <4>2, <4>3 DEF AgentInv, RetriesHarmless
    <3>2. CASE r > Len(records)
      <4>1. PICK i \in 1..Len(ts) : r = Len(records) + i
        BY <1>3, <3>2
      <4>2. i > 1 /\ i - 1 \in 1..Len(ts) /\ i - 1 < Len(ts)
            /\ r - 1 = Len(records) + (i - 1) /\ i <= Len(ts) /\ Len(ts) > 1
        BY <1>1, <1>2, <2>2, <4>1
      <4>3. /\ records'[r].call = Current /\ records'[r].attempt = i
            /\ records'[r - 1].call = Current
            /\ records'[r - 1].class = ts[i - 1].class
        BY <1>1, <4>1, <4>2
      <4>4. /\ Head(todo) \in Idempotent /\ Len(ts) <= Ceiling
            /\ ts[i - 1].class = "Unavailable"
        BY <4>2, AttemptsOf
      <4>5. calls'[Current].tool = Head(todo) /\ Ceiling \in Nat
        BY CallsAdded, LoopAssumption
      <4> QED BY <1>2, <4>2, <4>3, <4>4, <4>5
    <3> QED BY <1>1, <1>2, <3>1, <3>2
  <2> QED BY <2>1, <2>2 DEF RetriesHarmless
<1>9. NoEffectRecordIsTrue'
  <2> SUFFICES ASSUME NEW c \in 1..Len(calls'), ~calls'[c].success,
                      \A r \in 1..Len(records') :
                        records'[r].call = c => records'[r].certainty = "NoEffect"
               PROVE  effects'[c] = 0
    BY DEF NoEffectRecordIsTrue
  <2>1. CASE c \in 1..Len(calls)
    <3>1. \A r \in 1..Len(records) : records[r].call = c => records[r].certainty = "NoEffect"
      BY <1>1, <1>2
    <3>2. ~calls[c].success /\ effects'[c] = effects[c]
      BY <1>2, <2>1, CallsAdded
    <3> QED BY <2>1, <3>1, <3>2 DEF AgentInv, NoEffectRecordIsTrue
  <2>2. CASE c = Current
    <3>1. ~success /\ effects'[Current] = effects[Current]
      BY <2>2, CallsAdded
    <3>2. Len(ts) \in 1..Len(ts) /\ (ts[Len(ts)].certainty = "NoEffect" => ~acted)
      BY <3>1, AttemptsOf
    <3>3. Len(records) + Len(ts) \in 1..Len(records')
      BY <1>1, <1>2, <3>2
    <3>4. ts[Len(ts)].certainty = "NoEffect"
      BY <1>1, <2>2, <3>2, <3>3
    <3> QED BY <2>2, <3>1, <3>2, <3>4 DEF AgentInv, Begun, Over
  <2> QED BY <1>2, <2>1, <2>2, CallsAdded
<1>10. HaltIsLast'
  <2> SUFFICES ASSUME NEW r \in 1..Len(records'), records'[r].class \in Halts
               PROVE  /\ r = Len(records') /\ records'[r].call = Len(calls')
                      /\ Len(effects') = Len(calls') /\ pc' = "done" /\ ~completed'
    BY DEF HaltIsLast, Halts
  <2>1. r > Len(records)
    <3>1. r <= Len(records) => r \in 1..Len(records) /\ records'[r] = records[r]
      BY <1>1, <1>2
    <3> QED BY <1>1, <1>2, <1>4, <3>1 DEF AgentInv, HaltIsLast, Halts
  <2>2. PICK i \in 1..Len(ts) : r = Len(records) + i
    BY <1>3, <2>1
  <2>3. ts[i].class \in Halts /\ records'[r].call = Current
    BY <1>1, <2>2
  <2>4. pc' = "done" /\ i = Len(ts)
    BY <1>2, <2>3, AttemptsOf DEF Halts
  <2>5. effects' = effects
    BY <2>4 DEF Over, Continue
  <2> QED BY <1>1, <1>4, <2>2, <2>3, <2>4, <2>5, CallsAdded
<1> QED BY <1>5, <1>6, <1>7, <1>8, <1>9, <1>10 DEF AgentInv

-----------------------------------------------------------------------------
(* A failed attempt is tried again or ends its call.                       *)
LEMMA FailsIs ==
  ASSUME AgentInv, Running, NEW fault \in Faults, Fails(fault),
         fault.certainty = "NoEffect" => ~acted
  PROVE  \/ Again(Head(todo), fault, Len(Append(tries, fault)))
              /\ TryAgain(Append(tries, fault))
         \/ Over(Append(tries, fault), FALSE)
<1> DEFINE ts == Append(tries, fault)
<1>1. ts \in Seq(Faults)
  BY DEF AgentInv, AgentTyped
<1>2. \/ Again(Head(todo), fault, Len(ts)) /\ TryAgain(ts)
      \/ /\ NextCall(ts, FALSE) /\ lastFailed' = LastFailed(FALSE)
         /\ \/ fault.class \in Halts /\ pc' = "done" /\ UNCHANGED <<todo, effects>>
            \/ fault.class \notin Halts /\ Continue
         /\ UNCHANGED completed
  BY DEF Fails
<1>3. Continue => pc' # "done"
  BY DEF Continue
<1> QED BY <1>1, <1>2, <1>3 DEF Over

(* The attempt fails with what the dispatcher reports, or is cut off.      *)
LEMMA AttemptFails ==
  ASSUME AgentInv, CancelledBefore \/ CutOff \/ TimedOut \/ ReportsFault
  PROVE  \E fault \in Faults :
           Running /\ Fails(fault) /\ (fault.certainty = "NoEffect" => ~acted)
<1> USE LoopAssumption
<1>1. CASE CancelledBefore
  <2>1. Fault("Cancelled", "NoEffect") \in Faults
    BY DEF Fault, Faults, Classes, Certainties
  <2>2. Running /\ ~acted /\ Fails(Fault("Cancelled", "NoEffect"))
    BY <1>1 DEF CancelledBefore, Running, AgentInv, Begun
  <2> QED BY <2>1, <2>2
<1>2. CASE CutOff \/ TimedOut
  <2>1. PICK class \in {"Cancelled", "Timeout"} :
          pc = "inflight" /\ Fails(Fault(class, Unknown(Head(todo))))
    BY <1>2 DEF CutOff, TimedOut
  <2>2. Fault(class, Unknown(Head(todo))) \in Faults
    BY DEF Fault, Faults, Classes, Certainties, Unknown
  <2>3. Fault(class, Unknown(Head(todo))).certainty = "NoEffect" => ~acted
    BY DEF Fault, Unknown, AgentInv, Begun, Mutating
  <2> QED BY <2>1, <2>2, <2>3 DEF Running
<1>3. CASE ReportsFault
  <2>1. pc = "inflight" /\ \E fault \in CanSay(Head(todo)) : Fails(fault)
    BY <1>3 DEF ReportsFault
  <2>2. PICK fault \in CanSay(Head(todo)) : Fails(fault)
    BY <2>1
  <2>3. PICK class \in Reported : fault = Fault(class, Says(Head(todo), class))
    BY DEF CanSay
  <2>4. fault.class = class /\ fault.certainty = Says(Head(todo), class)
    BY <2>3 DEF Fault
  <2>5. class \in {"Rejected", "Unavailable", "ApprovalPending"} => ~acted
    BY <2>4 DEF CanSay
  <2>6. Says(Head(todo), class) \in Certainties
        /\ (Says(Head(todo), class) = "NoEffect" => ~acted)
    BY <2>5 DEF Says, Certainties, AgentInv, Begun, Mutating
  <2>7. fault \in Faults
    BY <2>3, <2>6 DEF Fault, Faults, Classes
  <2> QED BY <2>1, <2>2, <2>4, <2>6, <2>7 DEF Running
<1> QED BY <1>1, <1>2, <1>3

LEMMA FailsKept ==
  ASSUME AgentInv, Running, NEW fault \in Faults, Fails(fault),
         fault.certainty = "NoEffect" => ~acted
  PROVE  AgentInv'
<1> DEFINE ts == Append(tries, fault)
<1>1. tries \in Seq(Faults) /\ ts \in Seq(Faults) /\ Len(ts) = Len(tries) + 1
      /\ Len(tries) \in Nat /\ ts[Len(ts)] = fault
      /\ \A i \in 1..Len(tries) : ts[i] = tries[i]
  BY DEF AgentInv, AgentTyped
<1>2. CASE Again(Head(todo), fault, Len(ts)) /\ TryAgain(ts)
  <2> HIDE DEF ts
  <2>1. /\ fault.class = "Unavailable" /\ Head(todo) \in Idempotent /\ Len(ts) < Ceiling
        /\ ~acted
    BY <1>1, <1>2, LoopAssumption DEF Again
  <2>2. /\ tries' = ts /\ pc' = "attempt" /\ acted' = FALSE
        /\ UNCHANGED <<todo, lastFailed, calls, records, completed, effects>>
    BY <1>2 DEF TryAgain
  <2>3. AgentTyped'
    BY <1>1, <2>2 DEF AgentInv, AgentTyped
  <2>4. Begun'
    BY <2>1, <2>2 DEF AgentInv, Begun, Running, Current
  <2>5. Retried'
    <3>1. ASSUME NEW i \in 1..Len(ts) PROVE ts[i].class = "Unavailable"
      <4>1. CASE i \in 1..Len(tries)
        <5>1. tries # <<>>
          BY <4>1
        <5> QED BY <1>1, <4>1, <5>1 DEF AgentInv, Retried
      <4>2. CASE i = Len(ts)
        BY <1>1, <2>1, <4>2
      <4> QED BY <1>1, <4>1, <4>2
    <3> QED BY <2>1, <2>2, <3>1 DEF Retried
  <2>6. Recorded' /\ RetriesHarmless' /\ NoEffectRecordIsTrue'
    BY <2>2 DEF AgentInv, Recorded, RetriesHarmless, NoEffectRecordIsTrue
  <2>7. HaltIsLast'
    BY <2>2 DEF AgentInv, HaltIsLast, Running
  <2> QED BY <2>3, <2>4, <2>5, <2>6, <2>7 DEF AgentInv
<1> QED BY <1>2, FailsIs, OverKept

LEMMA AgentInit == Init => AgentInv
<1> SUFFICES ASSUME Init PROVE AgentInv
  OBVIOUS
<1>1. AgentTyped
  <2>1. <<>> \in Seq(Tool) /\ <<>> \in Seq(Faults) /\ <<>> \in Seq({0, 1})
        /\ <<>> \in Seq([tool : Tool, success : BOOLEAN, failure : Nat])
        /\ <<>> \in Seq(FailureRecord)
    BY EmptySeq
  <2> QED BY <2>1 DEF Init, AgentTyped
<1>2. Begun /\ Retried
  BY DEF Init, Begun, Running, Retried
<1>3. 1..Len(records) = {} /\ 1..Len(calls) = {} /\ 1..Len(effects) = {}
  BY DEF Init
<1>4. Recorded /\ RetriesHarmless /\ NoEffectRecordIsTrue /\ HaltIsLast
  BY <1>3 DEF Recorded, RetriesHarmless, NoEffectRecordIsTrue, HaltIsLast
<1> QED BY <1>1, <1>2, <1>4 DEF AgentInv

(* Steps that only move the program counter, from a place before the end.  *)
LEMMA MovesKept ==
  ASSUME AgentInv, pc # "done",
         UNCHANGED <<todo, tries, lastFailed, calls, records, acted, effects>>,
         pc' \in {"model", "attempt", "inflight", "done", "error"},
         Running' <=> Running, pc = "inflight" => pc' = "inflight",
         completed' => completed \/ pc' = "done"
  PROVE  AgentInv'
<1>1. AgentTyped'
  BY DEF AgentInv, AgentTyped
<1>2. Begun'
  BY DEF AgentInv, Begun, Running, Current
<1>3. Retried' /\ Recorded' /\ RetriesHarmless' /\ NoEffectRecordIsTrue'
  BY DEF AgentInv, Retried, Recorded, RetriesHarmless, NoEffectRecordIsTrue
<1>4. HaltIsLast'
  BY DEF AgentInv, HaltIsLast
<1> QED BY <1>1, <1>2, <1>3, <1>4 DEF AgentInv

LEMMA AgentStep == AgentInv /\ [Next]_vars => AgentInv'
<1> SUFFICES ASSUME AgentInv, [Next]_vars PROVE AgentInv'
  OBVIOUS
<1> USE LoopAssumption
<1>1. CASE AskForTools
  <2>1. /\ pc = "model" /\ pc' = "attempt" /\ effects' = Append(effects, 0)
        /\ UNCHANGED <<tries, lastFailed, calls, records, completed, acted>>
        /\ tries = <<>> /\ Len(effects) = Len(calls) /\ ~acted /\ ~completed
    BY <1>1 DEF AskForTools, AgentInv, Begun, Running
  <2>2. PICK n \in 1..MaxCalls : todo' \in [1..n -> Tool]
    BY <1>1 DEF AskForTools, Answers
  <2>3. todo' \in Seq(Tool) /\ todo' # <<>>
    BY <2>2
  <2>4. /\ effects' \in Seq({0, 1}) /\ Len(effects') = Len(calls) + 1
        /\ effects'[Len(calls) + 1] = 0
        /\ \A c \in 1..Len(calls) : effects'[c] = effects[c]
    BY <2>1 DEF AgentInv, AgentTyped
  <2>5. AgentTyped'
    BY <2>1, <2>3, <2>4 DEF AgentInv, AgentTyped
  <2>6. Begun' /\ Retried'
    BY <2>1, <2>3, <2>4 DEF AgentInv, AgentTyped, Begun, Running, Current, Retried
  <2>7. Recorded' /\ NoEffectRecordIsTrue'
    BY <2>1, <2>4 DEF AgentInv, Recorded, NoEffectRecordIsTrue
  <2>8. RetriesHarmless'
    <3>1. \A c \in 1..Len(effects') : effects'[c] <= 1
      BY <2>4
    <3> QED BY <2>1, <3>1 DEF AgentInv, RetriesHarmless
  <2>9. HaltIsLast'
    BY <2>1 DEF AgentInv, HaltIsLast
  <2> QED BY <2>5, <2>6, <2>7, <2>8, <2>9 DEF AgentInv
<1>2. CASE FinalText
  BY <1>2, MovesKept DEF FinalText, Running
<1>3. CASE InferenceError
  BY <1>3, MovesKept DEF InferenceError, Running
<1>4. CASE OutOfTurns
  BY <1>4, MovesKept DEF OutOfTurns, Running
<1>5. CASE Dispatch
  BY <1>5, MovesKept DEF Dispatch, Running
<1>6. CASE ToolActs
  <2>1. /\ pc = "inflight" /\ Mutating(Head(todo)) /\ ~acted /\ acted' = TRUE
        /\ effects' = [effects EXCEPT ![Current] = @ + 1]
        /\ UNCHANGED agent
    BY <1>6 DEF ToolActs
  <2>2. Len(effects) = Current /\ effects[Current] = 0 /\ Current = Len(calls) + 1
        /\ Len(calls) \in Nat /\ effects \in Seq({0, 1})
    BY <2>1 DEF AgentInv, AgentTyped, Begun, Running, Current
  <2>3. /\ effects' \in Seq({0, 1}) /\ Len(effects') = Current /\ effects'[Current] = 1
        /\ \A c \in 1..Len(calls) : effects'[c] = effects[c]
    BY <2>1, <2>2
  <2>4. Current' = Current
    BY <2>1 DEF agent, Current
  <2>5. AgentTyped' /\ Begun'
    BY <2>1, <2>2, <2>3, <2>4 DEF AgentInv, AgentTyped, Begun, Running, agent, Mutating
  <2>6. Retried' /\ Recorded'
    BY <2>1 DEF AgentInv, Retried, Recorded, agent
  <2>7. RetriesHarmless'
    <3>1. \A c \in 1..Len(effects') : effects'[c] <= 1
      BY <2>3
    <3> QED BY <2>1, <3>1 DEF AgentInv, RetriesHarmless, agent
  <2>8. NoEffectRecordIsTrue'
    BY <2>1, <2>3 DEF AgentInv, NoEffectRecordIsTrue, agent
  <2>9. HaltIsLast'
    BY <2>1 DEF AgentInv, HaltIsLast, agent
  <2> QED BY <2>5, <2>6, <2>7, <2>8, <2>9 DEF AgentInv
<1>7. CASE Succeeds
  <2>1. tries \in Seq(Faults)
    BY DEF AgentInv, AgentTyped
  <2>2. Over(tries, TRUE)
    BY <1>7, <2>1 DEF Succeeds, Over, Running, LastFailed
  <2> QED BY <2>2, OverKept
<1>8. CASE CancelledBefore \/ CutOff \/ TimedOut \/ ReportsFault
  BY <1>8, AttemptFails, FailsKept
<1>9. CASE Cancel
  <2>1. pc \in {"model", "attempt", "inflight", "done", "error"}
    BY DEF AgentInv, AgentTyped
  <2>2. pc # "done" /\ UNCHANGED <<agent, acted, effects>>
    BY <1>9 DEF Cancel
  <2> QED BY <2>1, <2>2, MovesKept DEF agent, Running
<1>10. CASE Returned \/ UNCHANGED vars
  <2>1. UNCHANGED <<pc, todo, tries, lastFailed, calls, records, completed, acted, effects>>
    BY <1>10 DEF Returned, vars, agent
  <2>2. AgentTyped' /\ Begun'
    BY <2>1 DEF AgentInv, AgentTyped, Begun, Running, Current
  <2>3. Retried' /\ Recorded' /\ RetriesHarmless'
    BY <2>1 DEF AgentInv, Retried, Recorded, RetriesHarmless
  <2>4. NoEffectRecordIsTrue' /\ HaltIsLast'
    BY <2>1 DEF AgentInv, NoEffectRecordIsTrue, HaltIsLast
  <2> QED BY <2>2, <2>3, <2>4 DEF AgentInv
<1> QED
  BY <1>1, <1>2, <1>3, <1>4, <1>5, <1>6, <1>7, <1>8, <1>9, <1>10
  DEF Next, Model, Loop

LEMMA AgentInvariant == Spec => []AgentInv
<1>1. AgentInv /\ [Next]_vars => AgentInv'
  BY AgentStep
<1> QED BY AgentInit, <1>1, PTL DEF Spec

(* No retry repeats an effect and only reads are retried, up to the        *)
(* ceiling: whatever the tools, the policy and the dispatcher.             *)
THEOREM RetriesRepeatNothing == Spec => []RetriesHarmless
<1>1. AgentInv => RetriesHarmless
  BY DEF AgentInv
<1> QED BY AgentInvariant, <1>1, PTL

(* A call whose records all say NoEffect changed nothing: a cancel or a    *)
(* deadline that races with the tool does not make the record wrong.       *)
THEOREM NoEffectIsTrue == Spec => []NoEffectRecordIsTrue
<1>1. AgentInv => NoEffectRecordIsTrue
  BY DEF AgentInv
<1> QED BY AgentInvariant, <1>1, PTL

(* After a pending approval or a cancel no further call is begun and the   *)
(* model is not asked again, in a run of any length.                       *)
THEOREM NothingAfterHalt == Spec => []HaltIsLast
<1>1. AgentInv => HaltIsLast
  BY DEF AgentInv
<1> QED BY AgentInvariant, <1>1, PTL

-----------------------------------------------------------------------------
(* Causes and outcome. A failed call names its last record, a call that    *)
(* succeeded only has records of unavailable reads, and every record names *)
(* the call before its own as the parent, if that call failed. Records are *)
(* in the order of their calls, so a walk along the parents goes down.     *)

Before(cs, c) == IF c > 1 /\ ~cs[c - 1].success THEN c - 1 ELSE 0

Named ==
  \A c \in 1..Len(calls) :
    IF calls[c].success THEN calls[c].failure = 0
    ELSE /\ calls[c].failure \in 1..Len(records)
         /\ records[calls[c].failure].call = c
         /\ \A r \in 1..Len(records) : records[r].call = c => r <= calls[c].failure

Caused ==
  \A r \in 1..Len(records) :
    /\ records[r].parent = Before(calls, records[r].call)
    /\ calls[records[r].call].success => records[r].class = "Unavailable"
    /\ \A q \in 1..r : records[q].call <= records[r].call

ChainInv == Named /\ Caused /\ lastFailed = Before(calls, Current)


LEMMA ChainInit == Init => ChainInv
<1> SUFFICES ASSUME Init PROVE ChainInv
  OBVIOUS
<1>1. 1..Len(records) = {} /\ 1..Len(calls) = {} /\ Current = 1 /\ lastFailed = 0
  BY DEF Init, Current
<1> QED BY <1>1 DEF ChainInv, Named, Caused, Before

(* A step leaves the finished calls alone or finishes one more.            *)
LEMMA FinishesOne ==
  ASSUME AgentInv, [Next]_vars
  PROVE  \/ UNCHANGED <<calls, records, lastFailed>>
         \/ \E ts, success : Over(ts, success)
<1>1. CASE Succeeds
  <2>1. tries \in Seq(Faults)
    BY DEF AgentInv, AgentTyped
  <2>2. Over(tries, TRUE)
    BY <1>1, <2>1 DEF Succeeds, Over, Running, LastFailed
  <2> QED BY <2>2
<1>2. CASE CancelledBefore \/ CutOff \/ TimedOut \/ ReportsFault
  <2>1. PICK fault \in Faults :
          Running /\ Fails(fault) /\ (fault.certainty = "NoEffect" => ~acted)
    BY <1>2, AttemptFails
  <2>2. TryAgain(Append(tries, fault)) \/ Over(Append(tries, fault), FALSE)
    BY <2>1, FailsIs
  <2> QED BY <2>2 DEF TryAgain
<1>3. CASE \/ AskForTools \/ FinalText \/ InferenceError \/ OutOfTurns \/ Dispatch
           \/ ToolActs \/ Cancel \/ Returned \/ UNCHANGED vars
  BY <1>3 DEF AskForTools, FinalText, InferenceError, OutOfTurns, Dispatch, ToolActs,
              Cancel, Returned, vars, agent
<1> QED BY <1>1, <1>2, <1>3 DEF Next, Model, Loop

LEMMA ChainStep == AgentInv /\ ChainInv /\ [Next]_vars => ChainInv'
<1> SUFFICES ASSUME AgentInv, ChainInv, [Next]_vars PROVE ChainInv'
  OBVIOUS
<1>1. CASE UNCHANGED <<calls, records, lastFailed>>
  BY <1>1 DEF ChainInv, Named, Caused, Before, Current
<1>2. ASSUME NEW ts, NEW success, Over(ts, success) PROVE ChainInv'
  <2>1. ts \in Seq(Faults) /\ Len(ts) \in Nat /\ success \in BOOLEAN
        /\ lastFailed' = LastFailed(success)
    BY <1>2 DEF Over
  <2>2. /\ Len(records') = Len(records) + Len(ts) /\ Len(records) \in Nat
        /\ \A r \in 1..Len(records) : records'[r] = records[r]
        /\ \A i \in 1..Len(ts) :
             /\ records'[Len(records) + i].call = Current
             /\ records'[Len(records) + i].parent = lastFailed
             /\ records'[Len(records) + i].class = ts[i].class
    <3>1. AgentTyped /\ records \in Seq(FailureRecord) /\ records' = records \o RecordsOf(ts)
      BY <1>2 DEF AgentInv, AgentTyped, Over, NextCall
    <3>2. Len(records) \in Nat
      BY <3>1
    <3> QED BY <2>1, <3>1, <3>2, RecordsAdded
  <2>3. /\ Len(calls') = Current /\ Current = Len(calls) + 1 /\ Len(calls) \in Nat
        /\ \A c \in 1..Len(calls) : calls'[c] = calls[c]
        /\ calls'[Current].success = success
        /\ calls'[Current].failure = IF success THEN 0 ELSE Len(records')
    <3>1. Current = Len(calls) + 1 /\ Len(calls) \in Nat
      BY DEF AgentInv, AgentTyped, Current
    <3> QED BY <1>2, <3>1, CallsAdded
  <2>4. \A i \in 1..Len(ts) : (i < Len(ts) \/ success) => ts[i].class = "Unavailable"
    <3>1. success => ts = tries
      BY <1>2 DEF Over
    <3>2. success => \A i \in 1..Len(ts) : ts[i].class = "Unavailable"
      BY <3>1 DEF AgentInv, AgentTyped, Retried
    <3> QED BY <1>2, <3>2, AttemptsOf
  <2>5. ~success => Len(ts) \in 1..Len(ts)
    BY <1>2, AttemptsOf
  <2>6. \A c \in 1..Current : Before(calls', c) = Before(calls, c)
    BY <2>3 DEF Before
  <2>7. lastFailed' = Before(calls', Current + 1)
    BY <2>1, <2>3 DEF Before, LastFailed
  <2>8. \A r \in 1..Len(records) : records[r].call \in 1..Len(calls)
    BY DEF AgentInv, Recorded
  <2>9. ASSUME NEW r \in 1..Len(records'), r > Len(records)
        PROVE  r - Len(records) \in 1..Len(ts) /\ r = Len(records) + (r - Len(records))
    BY <2>1, <2>2, <2>9
  <2>10. Named'
    <3> SUFFICES ASSUME NEW c \in 1..Len(calls')
                 PROVE  IF calls'[c].success THEN calls'[c].failure = 0
                        ELSE /\ calls'[c].failure \in 1..Len(records')
                             /\ records'[calls'[c].failure].call = c
                             /\ \A r \in 1..Len(records') :
                                  records'[r].call = c => r <= calls'[c].failure
      BY DEF Named
    <3>1. CASE c \in 1..Len(calls)
      <4>1. \A r \in 1..Len(records') : records'[r].call = c => r \in 1..Len(records)
        <5>1. \A r \in 1..Len(records') : r > Len(records) => records'[r].call = Current
          BY <2>2, <2>9
        <5> QED BY <2>2, <2>3, <3>1, <5>1
      <4>2. IF calls[c].success THEN calls[c].failure = 0
            ELSE /\ calls[c].failure \in 1..Len(records)
                 /\ records[calls[c].failure].call = c
                 /\ \A r \in 1..Len(records) : records[r].call = c => r <= calls[c].failure
        BY <3>1 DEF ChainInv, Named
      <4>3. 1..Len(records) \subseteq 1..Len(records')
        BY <2>1, <2>2
      <4> QED BY <2>2, <2>3, <3>1, <4>1, <4>2, <4>3
    <3>2. CASE c = Current
      <4>1. CASE success
        BY <2>3, <3>2, <4>1
      <4>2. CASE ~success
        <5>1. Len(records') \in 1..Len(records') /\ records'[Len(records')].call = Current
          BY <2>2, <2>5, <4>2
        <5> QED BY <2>1, <2>2, <2>3, <3>2, <4>2, <5>1
      <4> QED BY <4>1, <4>2
    <3> QED BY <2>3, <3>1, <3>2
  <2>11. Caused'
    <3> SUFFICES ASSUME NEW r \in 1..Len(records')
                 PROVE  /\ records'[r].parent = Before(calls', records'[r].call)
                        /\ calls'[records'[r].call].success => records'[r].class = "Unavailable"
                        /\ \A q \in 1..r : records'[q].call <= records'[r].call
      BY DEF Caused, Before
    <3>1. CASE r <= Len(records)
      <4>1. r \in 1..Len(records) /\ records'[r] = records[r] /\ records[r].call \in 1..Len(calls)
        BY <2>2, <2>8, <3>1
      <4>2. \A q \in 1..r : records'[q] = records[q]
        BY <2>2, <4>1
      <4> QED BY <2>3, <2>6, <4>1, <4>2 DEF ChainInv, Caused
    <3>2. CASE r > Len(records)
      <4>1. /\ records'[r].call = Current /\ records'[r].parent = lastFailed
            /\ records'[r].class = ts[r - Len(records)].class
        BY <2>2, <2>9, <3>2
      <4>2. \A q \in 1..r : records'[q].call <= Current
        <5> SUFFICES ASSUME NEW q \in 1..r PROVE records'[q].call <= Current
          OBVIOUS
        <5>1. q \in 1..Len(records')
          BY <2>1, <2>2
        <5>2. CASE q <= Len(records)
          BY <2>2, <2>3, <2>8, <5>1, <5>2
        <5>3. CASE q > Len(records)
          <6>1. records'[q].call = Current
            BY <2>2, <2>9, <5>1, <5>3
          <6> QED BY <2>3, <6>1
        <5> QED BY <2>2, <5>1, <5>2, <5>3
      <4>3. lastFailed = Before(calls', Current) /\ Current \in 1..Current
        BY <2>3, <2>6 DEF ChainInv
      <4> QED BY <2>3, <2>4, <2>9, <3>2, <4>1, <4>2, <4>3
    <3> QED BY <2>1, <2>2, <3>1, <3>2
  <2>12. Current' = Current + 1
    BY <2>3 DEF Current
  <2> QED BY <2>7, <2>10, <2>11, <2>12 DEF ChainInv, Before
<1> QED BY <1>1, <1>2, FinishesOne

LEMMA ChainInvariant == Spec => []ChainInv
<1>1. AgentInv /\ ChainInv /\ [Next]_vars => ChainInv'
  BY ChainStep
<1> QED BY ChainInit, <1>1, AgentInvariant, PTL DEF Spec

(* Every set of numbers has a least one, and a bounded one a greatest.     *)
LEMMA LeastNumber ==
  ASSUME NEW S \in SUBSET Nat, S # {}
  PROVE  \E m \in S : \A n \in S : m <= n
<1> DEFINE R == {ss \in Nat \X Nat : ss[1] < ss[2]}
<1>1. IsWellFoundedOn(R, Nat)
  BY NatLessThanWellFounded, Zenon DEF OpToRel
<1>2. PICK m \in S : \A n \in S : <<n, m>> \notin R
  <2> HIDE DEF R
  <2> QED BY <1>1, WFMin
<1>3. \A n \in S : n < m => <<n, m>> \in R
  OBVIOUS
<1>4. \A n \in S : n \in Nat /\ m \in Nat /\ ~(n < m)
  <2> HIDE DEF R
  <2> QED BY <1>2, <1>3
<1> QED BY <1>4

LEMMA GreatestNumber ==
  ASSUME NEW N \in Nat, NEW S \in SUBSET (1..N), S # {}
  PROVE  \E m \in S : \A n \in S : n <= m
<1>1. {N - n : n \in S} \in SUBSET Nat /\ {N - n : n \in S} # {}
  <2>1. \A n \in S : n \in 1..N
    OBVIOUS
  <2>2. \A n \in S : N - n \in Nat
    BY <2>1
  <2> QED BY <2>2
<1>2. PICK k \in {N - n : n \in S} : \A j \in {N - n : n \in S} : k <= j
  BY <1>1, LeastNumber
<1>3. PICK m \in S : k = N - m
  BY <1>2
<1>4. \A n \in S : N - m <= N - n
  BY <1>2, <1>3
<1> QED BY <1>4

(* The outcome of a run that is over.                                      *)
LEMMA OutcomeRight == AgentInv /\ ChainInv => OutcomeKeepsApproval
<1> SUFFICES ASSUME AgentInv, ChainInv, pc \in {"done", "error"}
             PROVE  /\ Outcome.kind = "ApprovalPending" <=>
                         \E r \in 1..Len(records) : records[r].class = "ApprovalPending"
                    /\ Outcome.kind = "Completed" => \A c \in 1..Len(calls) : calls[c].success
  BY DEF OutcomeKeepsApproval
<1>1. /\ Len(calls) \in Nat /\ Len(records) \in Nat
      /\ \A c \in 1..Len(calls) : calls[c].success \in BOOLEAN
  <2>1. calls \in Seq([tool : Tool, success : BOOLEAN, failure : Nat])
        /\ Len(calls) \in Nat /\ Len(records) \in Nat
    BY DEF AgentInv, AgentTyped
  <2>2. \A c \in 1..Len(calls) : calls[c] \in [tool : Tool, success : BOOLEAN, failure : Nat]
    BY <2>1, ElementOfSeq, Zenon
  <2> QED BY <2>1, <2>2
<1>2. \A c \in 1..Len(calls) : c \in Failures <=> ~calls[c].success
  BY <1>1 DEF ChainInv, Named, Failures
<1>3. ASSUME NEW r \in 1..Len(records), records[r].class = "ApprovalPending"
      PROVE  /\ r = Len(records) /\ pc = "done" /\ Len(calls) \in Failures
             /\ calls[Len(calls)].failure = r
  <2>1. /\ r = Len(records) /\ records[r].call = Len(calls) /\ pc = "done"
        /\ records[r].call \in 1..Len(calls)
    BY <1>3 DEF AgentInv, HaltIsLast, Recorded
  <2>2. ~calls[Len(calls)].success
    BY <1>3, <2>1 DEF ChainInv, Caused
  <2> QED BY <1>1, <1>2, <2>1, <2>2 DEF ChainInv, Named
<1>4. CASE Failures = {}
  <2>1. Outcome.kind # "ApprovalPending"
    BY <1>4 DEF Outcome, TaskFailed
  <2> QED BY <1>2, <1>3, <1>4, <2>1
<1>5. CASE Failures # {}
  <2>1. Failures \in SUBSET (1..Len(calls))
    BY DEF Failures
  <2>2. \E i \in Failures : \A j \in Failures : j <= i
    BY <1>1, <1>5, <2>1, GreatestNumber
  <2> DEFINE last == CHOOSE i \in Failures : \A j \in Failures : j <= i
             rec  == records[calls[last].failure]
  <2>3. last \in Failures /\ \A j \in Failures : j <= last
    BY <2>2
  <2>4. Outcome = IF pc = "error" THEN TaskFailed("Failed", "Uncertain")
                  ELSE IF rec.class = "ApprovalPending" THEN [kind |-> "ApprovalPending"]
                  ELSE TaskFailed(rec.class, rec.certainty)
    BY <1>5 DEF Outcome
  <2> HIDE DEF last
  <2>5. calls[last].failure \in 1..Len(records)
    BY <1>2, <2>1, <2>3 DEF ChainInv, Named
  <2>6. Outcome.kind = "ApprovalPending" <=> pc # "error" /\ rec.class = "ApprovalPending"
    BY <2>4 DEF TaskFailed
  <2>7. Outcome.kind # "Completed"
    BY <2>4 DEF TaskFailed
  <2>8. ASSUME NEW r \in 1..Len(records), records[r].class = "ApprovalPending"
        PROVE  calls[last].failure = r /\ pc # "error"
    <3>1. Len(calls) \in Failures /\ calls[Len(calls)].failure = r /\ pc = "done"
      BY <1>3, <2>8
    <3>2. last = Len(calls)
      BY <1>1, <2>1, <2>3, <3>1
    <3> QED BY <3>1, <3>2
  <2> QED BY <1>3, <2>5, <2>6, <2>7, <2>8
<1> QED BY <1>4, <1>5

-----------------------------------------------------------------------------
(* The walk of root_cause: the recursion has a solution, so the chosen     *)
(* function is one.                                                        *)
LEMMA WalkExists ==
  ASSUME NEW start, NEW N \in Nat
  PROVE  \E w : w = [n \in 0..N |-> IF n = 0 THEN start ELSE Follow(w[n - 1])]
<1> DEFINE IsWalk(w, m) == w = [n \in 0..m |-> IF n = 0 THEN start ELSE Follow(w[n - 1])]
           S == {m \in Nat : ~\E w : IsWalk(w, m)}
<1>1. S = {}
  <2> SUFFICES ASSUME S # {} PROVE FALSE
    OBVIOUS
  <2>1. PICK m \in S : \A k \in S : m <= k
    <3> HIDE DEF IsWalk
    <3>1. S \in SUBSET Nat
      OBVIOUS
    <3> HIDE DEF S
    <3> QED BY <3>1, LeastNumber
  <2>2. m # 0
    <3>1. IsWalk([n \in 0..0 |-> start], 0)
      OBVIOUS
    <3> HIDE DEF IsWalk
    <3> QED BY <3>1
  <2>3. m - 1 \in Nat /\ m - 1 \notin S /\ m \in Nat
    <3> HIDE DEF IsWalk
    <3> QED BY <2>1, <2>2
  <2>4. PICK w : IsWalk(w, m - 1)
    <3> HIDE DEF IsWalk
    <3> QED BY <2>3
  <2> DEFINE v == [n \in 0..m |-> IF n = m THEN Follow(w[m - 1]) ELSE w[n]]
  <2>5. ASSUME NEW n \in 0..m
        PROVE  v[n] = IF n = 0 THEN start ELSE Follow(v[n - 1])
    <3>1. CASE n = m
      <4>1. v[n] = Follow(w[m - 1]) /\ v[n - 1] = w[n - 1]
        BY <2>2, <2>3, <3>1
      <4> QED BY <2>2, <3>1, <4>1
    <3>2. CASE n # m
      <4>1. n \in 0..(m - 1) /\ v[n] = w[n] /\ (n # 0 => v[n - 1] = w[n - 1])
        BY <2>3, <3>2
      <4>2. w[n] = IF n = 0 THEN start ELSE Follow(w[n - 1])
        BY <2>4, <4>1
      <4> QED BY <4>1, <4>2
    <3> QED BY <3>1, <3>2
  <2>6. IsWalk(v, m)
    <3>1. v = [n \in 0..m |-> v[n]]
      OBVIOUS
    <3> HIDE DEF v
    <3> QED BY <2>5, <3>1
  <2> HIDE DEF IsWalk, v
  <2> QED BY <2>1, <2>6
<1> HIDE DEF IsWalk
<1>2. \E w : IsWalk(w, N)
  BY <1>1
<1> QED BY <1>2 DEF IsWalk

LEMMA WalkIs ==
  ASSUME NEW start, Len(records) \in Nat
  PROVE  \E w : /\ RootCause(start) = w[Len(records) + 1] /\ w[0] = start
                /\ \A n \in 1..(Len(records) + 1) : w[n] = Follow(w[n - 1])
<1> DEFINE N == Len(records) + 1
           IsWalk(w) == w = [n \in 0..N |-> IF n = 0 THEN start ELSE Follow(w[n - 1])]
           walk == CHOOSE w : IsWalk(w)
<1>1. \E w : IsWalk(w)
  <2>1. N \in Nat
    OBVIOUS
  <2> QED BY <2>1, WalkExists, Zenon
<1>2. IsWalk(walk)
  <2> HIDE DEF IsWalk
  <2> QED BY <1>1
<1>3. RootCause(start) = walk[N]
  BY Zenon DEF RootCause
<1>4. walk[0] = start /\ \A n \in 1..N : walk[n] = Follow(walk[n - 1])
  <2> HIDE DEF walk
  <2> QED BY <1>2
<1> HIDE DEF walk
<1> QED BY <1>3, <1>4

(* The last record of a call that has any.                                 *)
LEMMA LastRecord ==
  ASSUME Len(records) \in Nat, NEW c, NEW r \in 1..Len(records), records[r].call = c
  PROVE  LastRecordOf(c) # {}
<1> DEFINE S == {q \in 1..Len(records) : records[q].call = c}
<1>1. S \in SUBSET (1..Len(records)) /\ S # {}
  OBVIOUS
<1>2. PICK m \in S : \A q \in S : q <= m
  <2> HIDE DEF S
  <2> QED BY <1>1, GreatestNumber
<1>3. m \in LastRecordOf(c)
  BY <1>2 DEF LastRecordOf
<1> QED BY <1>3

(* One step of the walk: to a record of the call before, which failed, or  *)
(* nowhere, at the first of the failed calls.                              *)
LEMMA FollowOnce ==
  ASSUME AgentInv, ChainInv, NEW r \in 1..Len(records)
  PROVE  LET c == records[r].call IN
         \/ /\ Follow(r) = r /\ Parent(r) = {}
            /\ c = 1 \/ calls[c - 1].success
         \/ /\ Follow(r) \in 1..Len(records) /\ Follow(r) < r /\ c > 1
            /\ records[Follow(r)].call = c - 1 /\ ~calls[c - 1].success
<1> DEFINE c == records[r].call
<1>1. /\ Len(records) \in Nat /\ Len(calls) \in Nat /\ c \in 1..Len(calls)
      /\ records[r].parent = Before(calls, c)
      /\ \A q \in 1..Len(records) : records[q].call \in 1..Len(calls)
      /\ \A p \in 1..Len(records) : \A q \in 1..p : records[q].call <= records[p].call
  BY DEF AgentInv, AgentTyped, Recorded, ChainInv, Caused
<1>2. CASE c = 1 \/ calls[c - 1].success
  <2>1. records[r].parent = 0
    BY <1>1, <1>2 DEF Before
  <2>2. Parent(r) = {}
    BY <1>1, <2>1 DEF Parent, LastRecordOf
  <2> QED BY <1>2, <2>2 DEF Follow
<1>3. CASE ~(c = 1 \/ calls[c - 1].success)
  <2>1. records[r].parent = c - 1 /\ c - 1 \in 1..Len(calls) /\ c > 1
    BY <1>1, <1>3 DEF Before
  <2>2. calls[c - 1].failure \in 1..Len(records) /\ records[calls[c - 1].failure].call = c - 1
    BY <1>3, <2>1 DEF ChainInv, Named
  <2>3. Parent(r) # {}
    BY <1>1, <2>1, <2>2, LastRecord DEF Parent
  <2>4. Follow(r) \in Parent(r)
    BY <2>3 DEF Follow
  <2>5. Follow(r) \in 1..Len(records) /\ records[Follow(r)].call = c - 1
    BY <2>1, <2>4 DEF Parent, LastRecordOf
  <2>6. Follow(r) < r
    <3>1. r <= Follow(r) => r \in 1..Follow(r) /\ c <= c - 1
      BY <1>1, <2>5
    <3> QED BY <1>1, <2>5, <3>1
  <2> QED BY <1>3, <2>1, <2>5, <2>6
<1> QED BY <1>2, <1>3

LEMMA RootRight == AgentInv /\ ChainInv => RootOfStreak
<1> SUFFICES ASSUME AgentInv, ChainInv, NEW r \in 1..Len(records)
             PROVE  LET c == records[r].call
                        first == records[RootCause(r)].call
                    IN  c <= Len(calls) =>
                          /\ first <= c
                          /\ \A k \in first..c : k = c \/ ~calls[k].success
                          /\ first = 1 \/ calls[first - 1].success
  BY DEF RootOfStreak
<1>1. /\ Len(records) \in Nat /\ Len(calls) \in Nat
      /\ \A q \in 1..Len(records) : records[q].call \in 1..Len(calls)
  BY DEF AgentInv, AgentTyped, Recorded
<1>2. PICK w : /\ RootCause(r) = w[Len(records) + 1] /\ w[0] = r
               /\ \A n \in 1..(Len(records) + 1) : w[n] = Follow(w[n - 1])
  BY <1>1, WalkIs
<1> DEFINE c == records[r].call
           N == Len(records) + 1
           Good(n) == /\ w[n] \in 1..Len(records)
                      /\ records[w[n]].call <= c
                      /\ \A k \in records[w[n]].call..c : k = c \/ ~calls[k].success
                      /\ w[n] + n <= r \/ Follow(w[n]) = w[n]
           Bad == {n \in 0..N : ~Good(n)}
<1>3. Good(0)
  BY <1>1, <1>2
<1>4. ASSUME NEW n \in 1..N, Good(n - 1) PROVE Good(n)
  <2> DEFINE q == w[n - 1]
  <2>1. q \in 1..Len(records) /\ w[n] = Follow(q) /\ records[q].call \in 1..Len(calls)
        /\ n \in Nat /\ n - 1 \in Nat
    BY <1>1, <1>2, <1>4
  <2>2. \/ Follow(q) = q /\ Parent(q) = {}
        \/ /\ Follow(q) \in 1..Len(records) /\ Follow(q) < q
           /\ records[Follow(q)].call = records[q].call - 1
           /\ ~calls[records[q].call - 1].success
    BY <2>1, FollowOnce
  <2>3. CASE Follow(q) = q
    <3>1. w[n] = w[n - 1] /\ Follow(w[n]) = w[n]
      BY <2>1, <2>3
    <3> QED BY <1>4, <3>1
  <2>4. CASE Follow(q) # q
    <3>1. /\ q \in 1..Len(records) /\ records[q].call <= c
          /\ q + (n - 1) <= r \/ Follow(q) = q
      BY <1>4
    <3>2. /\ w[n] \in 1..Len(records) /\ w[n] < q /\ q + (n - 1) <= r
          /\ records[w[n]].call = records[q].call - 1
          /\ ~calls[records[q].call - 1].success
      BY <2>1, <2>2, <2>4, <3>1
    <3>3. q \in Nat /\ w[n] \in Nat /\ r \in Nat
      <4> HIDE DEF q
      <4> QED BY <1>1, <3>1, <3>2
    <3>4. c \in Nat /\ records[q].call \in Nat /\ records[w[n]].call \in Nat
      <4>1. \A p \in 1..Len(records) : records[p].call \in Nat
        BY <1>1
      <4> QED BY <3>1, <3>2, <4>1
    <3>5. \A k \in records[w[n]].call..c : k = c \/ ~calls[k].success
      <4>1. \A k \in records[q].call..c : k = c \/ ~calls[k].success
        BY <1>4
      <4>2. \A k \in records[w[n]].call..c :
              k = records[q].call - 1 \/ k \in records[q].call..c
        BY <3>2, <3>4
      <4> QED BY <3>2, <4>1, <4>2
    <3>6. records[w[n]].call <= c /\ w[n] + n <= r
      <4> HIDE DEF q, c
      <4> QED BY <2>1, <3>1, <3>2, <3>3, <3>4
    <3> QED BY <3>2, <3>5, <3>6
  <2> QED BY <2>3, <2>4
<1>5. Good(N)
  <2> HIDE DEF Good
  <2>1. Bad = {}
    <3> SUFFICES ASSUME Bad # {} PROVE FALSE
      OBVIOUS
    <3>1. Bad \in SUBSET Nat
      BY <1>1
    <3> HIDE DEF Bad
    <3>2. PICK m \in Bad : \A k \in Bad : m <= k
      BY <3>1, LeastNumber
    <3> USE DEF Bad
    <3>3. m # 0 /\ m \in 1..N /\ m - 1 \in 0..N
      BY <1>1, <1>3, <3>2
    <3>4. Good(m - 1)
      BY <3>2, <3>3
    <3> QED BY <1>4, <3>2, <3>3, <3>4
  <2> QED BY <1>1, <2>1
<1>6. RootCause(r) \in 1..Len(records) /\ Follow(RootCause(r)) = RootCause(r)
  BY <1>1, <1>2, <1>5
<1>7. records[RootCause(r)].call = 1 \/ calls[records[RootCause(r)].call - 1].success
  BY <1>6, FollowOnce
<1> QED BY <1>2, <1>5, <1>7

(* A pending approval reaches the workflow as itself and nothing else      *)
(* does; Completed is never said of a run in which a call failed.          *)
THEOREM ApprovalIsKept == Spec => []OutcomeKeepsApproval
<1> QED BY AgentInvariant, ChainInvariant, OutcomeRight, PTL

(* The root of a failure is a record of the first call of the unbroken run *)
(* of failed calls that ends with it, however long the run of the agent.   *)
THEOREM RootIsFirstOfStreak == Spec => []RootOfStreak
<1> QED BY AgentInvariant, ChainInvariant, RootRight, PTL

=============================================================================
