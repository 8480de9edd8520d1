--------------------------- MODULE NvsAuthProofs ---------------------------
(* Proofs about the settings in flash and the registered key.              *)
EXTENDS NvsAuth, Integers, TLAPS

LEMMA Names ==
  /\ "AUTH_HASH" \in Settings
  /\ \A k \in DOMAIN List : List[k] \in Settings
  /\ List \in Seq(Settings)
  /\ \A i \in Settings : \E k \in DOMAIN List : List[k] = i
  BY DEF List, Settings

LEMMA Values ==
  /\ None \notin Vals /\ None \notin Keys
  /\ \A k \in Keys : Digest(k) \in Vals /\ Torn(k) \in Vals
  /\ \A k \in Keys : Digest(k) \in Hashes
  /\ Other \in Vals
  BY NvsAssumption DEF Vals, Hashes

(* No two digests agree, nor does one with anything else that is stored.   *)
LEMMA Digests ==
  ASSUME NEW k \in Keys, NEW j \in Keys
  PROVE  /\ Digest(k) = Digest(j) => k = j
         /\ Digest(k) # Torn(j) /\ Digest(k) # Zero /\ Digest(k) # Other
         /\ Digest(k) # None
  <1>1. Digest(k) # Other /\ Digest(k) # None
    BY NvsAssumption DEF Vals, Hashes
  <1> QED
    BY <1>1 DEF Digest, Torn, Zero

LEMMA NothingStored ==
  /\ Nothing \in Stored
  /\ \A i \in Settings : Nothing[i] = None
  BY DEF Nothing, Stored

LEMMA NoJobTyped ==
  /\ NoJob \in Jobs
  /\ NoJob.call = "none" /\ NoJob.todo = <<>> /\ NoJob.saves = {}
  BY DEF NoJob, Jobs

LEMMA InitSave == Init => SaveInv
  <1> SUFFICES ASSUME Init PROVE SaveInv
    OBVIOUS
  <1>1. TypeOK
    BY NothingStored, NoJobTyped DEF Init, TypeOK
  <1>2. Durable /\ PendNew
    BY NothingStored DEF Init, Durable, PendNew
  <1>3. SavesWritten /\ ~Registering
    BY NoJobTyped DEF Init, SavesWritten, Registering
  <1> QED
    BY <1>1, <1>2, <1>3 DEF SaveInv

(* Steps that leave the flash, what is written and what is known of it     *)
(* alone, and no call in progress.                                         *)
LEMMA IdleStep ==
  ASSUME SaveInv, TypeOK', job' = NoJob, UNCHANGED <<flash, pend, acked, later>>
  PROVE  SaveInv'
  <1>1. Durable' /\ PendNew'
    BY DEF SaveInv, Durable, PendNew
  <1>2. SavesWritten' /\ ~Registering'
    BY NoJobTyped DEF SavesWritten, Registering
  <1> QED
    BY <1>1, <1>2 DEF SaveInv

LEMMA EraseSave == ASSUME SaveInv, Erase PROVE SaveInv'
  <1>1. job = NoJob /\ job' = NoJob
    BY DEF Erase, Idle
  <1>2. later' \in [Settings -> SUBSET Vals]
    BY DEF Erase
  <1>3. TypeOK'
    BY <1>2, NothingStored DEF SaveInv, TypeOK, Erase
  <1>4. Durable' /\ PendNew'
    BY NothingStored DEF Durable, PendNew, Erase
  <1>5. SavesWritten' /\ ~Registering'
    BY <1>1, NoJobTyped DEF SavesWritten, Registering
  <1> QED
    BY <1>3, <1>4, <1>5 DEF SaveInv

LEMMA LoadSave == ASSUME SaveInv, Load PROVE SaveInv'
  <1>1. PICK readable \in SUBSET Settings :
            val' = Loaded(readable) /\ clean' = readable
    BY DEF Load
  <1>2. val' \in Stored
    BY <1>1 DEF Loaded, Stored, SaveInv, TypeOK
  <1>3. TypeOK' /\ job' = NoJob
    BY <1>1, <1>2 DEF SaveInv, TypeOK, Load, Idle
  <1> QED
    BY <1>3, IdleStep DEF Load

LEMMA LoadOomSave == ASSUME SaveInv, LoadOom PROVE SaveInv'
  <1>1. TypeOK' /\ job' = NoJob
    BY DEF SaveInv, TypeOK, LoadOom, Idle, hist_vars
  <1> QED
    BY <1>1, IdleStep DEF LoadOom, hist_vars

LEMMA SetTyped ==
  ASSUME TypeOK, NEW i \in Settings, NEW v \in Vals, SetTo(i, v)
  PROVE  /\ val' \in Stored /\ panic' \in {"no", "yes"}
         /\ clean' \in SUBSET Settings
         /\ \A j \in Settings : j # i => val'[j] = val[j]
         /\ val'[i] \in {v, val[i]}
  BY DEF TypeOK, SetTo, Stored

LEMMA SetSave == ASSUME SaveInv, NEW i \in Callers, Set(i) PROVE SaveInv'
  <1>1. i \in Settings /\ Other \in Vals
    BY NvsAssumption, Values
  <1>2. val' \in Stored /\ panic' \in {"no", "yes"} /\ clean' \in SUBSET Settings
    BY <1>1, SetTyped DEF SaveInv, Set
  <1>3. TypeOK' /\ job' = NoJob
    BY <1>2 DEF SaveInv, TypeOK, Set, Idle
  <1> QED
    BY <1>3, IdleStep DEF Set

LEMMA CommitSave ==
  ASSUME SaveInv, NEW list \in Seq(Settings), Commit(list)
  PROVE  SaveInv'
  <1> DEFINE saves == {list[k] : k \in DOMAIN list}
  <1>1. saves \in SUBSET Settings
    OBVIOUS
  <1>2. /\ job' = [NoJob EXCEPT !.call = "commit", !.todo = list, !.saves = saves]
        /\ job' \in Jobs /\ job'.todo = list /\ job'.saves = saves
        /\ job'.call = "commit"
    BY <1>1 DEF Commit, NoJob, Jobs
  <1> HIDE DEF saves
  <1>3. TypeOK'
    BY <1>2 DEF SaveInv, TypeOK, Commit, nvs_vars, hist_vars
  <1>4. Durable' /\ PendNew'
    BY DEF SaveInv, Durable, PendNew, Commit, nvs_vars, hist_vars
  <1>5. SavesWritten' /\ ~Registering'
    BY <1>2 DEF SavesWritten, InTodo, Registering, saves
  <1> QED
    BY <1>3, <1>4, <1>5 DEF SaveInv

LEMMA WriteSave == ASSUME SaveInv, Write PROVE SaveInv'
  <1> DEFINE i == Head(job.todo)
  <1>1. /\ job \in Jobs /\ job.todo \in Seq(Settings) /\ job.todo # <<>>
        /\ val \in Stored /\ pend \in Stored /\ later \in [Settings -> SUBSET Vals]
    BY DEF SaveInv, TypeOK, Jobs, Write
  <1>2. i \in Settings /\ i = job.todo[1]
    BY <1>1
  <1>3. val[i] # None /\ val[i] \in Vals
    BY <1>1, <1>2 DEF Write, Stored
  <1>4. /\ pend' = [pend EXCEPT ![i] = val[i]]
        /\ later' = [later EXCEPT ![i] = @ \cup {val[i]}]
        /\ job' = [job EXCEPT !.todo = Tail(@)]
        /\ UNCHANGED <<val, flash, acked>>
    BY DEF Write
  <1>5. /\ job' \in Jobs /\ job'.todo = Tail(job.todo)
        /\ job'.saves = job.saves /\ job'.call = job.call /\ job'.key = job.key
    <2>1. Tail(job.todo) \in Seq(Settings)
      BY <1>1
    <2> QED
      BY <1>1, <1>4, <2>1 DEF Jobs
  <1> HIDE DEF i
  <1>6. pend' \in Stored /\ later' \in [Settings -> SUBSET Vals]
    BY <1>1, <1>2, <1>3, <1>4 DEF Stored
  <1>7. TypeOK'
    BY <1>5, <1>6 DEF SaveInv, TypeOK, Write
  <1>8. Durable' /\ PendNew'
    BY <1>1, <1>2, <1>4 DEF SaveInv, Durable, PendNew, Stored
  <1>9. SavesWritten'
    <2> SUFFICES ASSUME NEW j \in job.saves, ~InTodo(j)'
                 PROVE  pend'[j] = val'[j] /\ val'[j] # None
      BY <1>5 DEF SavesWritten
    <2>1. j \in Settings
      BY <1>1 DEF Jobs
    <2>2. CASE j = i
      BY <1>1, <1>2, <1>3, <1>4, <2>2 DEF Stored
    <2>3. CASE j # i
      <3>1. ~InTodo(j)
        <4> SUFFICES ASSUME NEW k \in DOMAIN job.todo, job.todo[k] = j
                     PROVE  FALSE
          BY DEF InTodo
        <4>1. k # 1 /\ k \in 1 .. Len(job.todo) /\ Len(job.todo) \in Nat
          BY <1>1, <1>2, <2>3
        <4>2. k - 1 \in DOMAIN Tail(job.todo) /\ Tail(job.todo)[k - 1] = job.todo[k]
          BY <1>1, <4>1
        <4> QED
          BY <1>5, <4>2 DEF InTodo
      <3>2. pend[j] = val[j] /\ val[j] # None
        BY <3>1 DEF SaveInv, SavesWritten
      <3> QED
        BY <1>1, <1>4, <2>1, <2>3, <3>2 DEF Stored
    <2> QED
      BY <2>2, <2>3
  <1> QED
    BY <1>5, <1>7, <1>8, <1>9 DEF SaveInv, Registering

LEMMA WriteFailsSave == ASSUME SaveInv, WriteFails PROVE SaveInv'
  <1>1. TypeOK' /\ job' = NoJob
    BY NoJobTyped DEF SaveInv, TypeOK, WriteFails, nvs_vars, hist_vars
  <1> QED
    BY <1>1, IdleStep DEF WriteFails, nvs_vars, hist_vars

(* A commit that comes to its end.                                         *)
LEMMA FlushAck ==
  ASSUME SaveInv, Written, Flush, Ack
  PROVE  /\ flash' \in Stored /\ pend' \in Stored /\ acked' \in Stored
         /\ later' \in [Settings -> SUBSET Vals]
         /\ Durable' /\ PendNew'
         /\ \A i \in job.saves : flash'[i] = val[i]
         /\ \A i \in Settings : pend'[i] = None
         /\ \A i \in Settings : flash'[i] \in {flash[i], pend[i]}
  <1>1. /\ val \in Stored /\ pend \in Stored /\ flash \in Stored /\ acked \in Stored
        /\ later \in [Settings -> SUBSET Vals] /\ job \in Jobs
    BY DEF SaveInv, TypeOK
  <1>2. \A i \in job.saves : pend[i] = val[i] /\ val[i] # None /\ i \in Settings
    BY <1>1 DEF SaveInv, SavesWritten, InTodo, Written, Jobs
  <1>3. flash' \in Stored /\ acked' \in Stored /\ later' \in [Settings -> SUBSET Vals]
    BY <1>1 DEF Flush, Ack, Stored
  <1>4. pend' = Nothing /\ pend' \in Stored /\ \A i \in Settings : pend'[i] = None
    BY NothingStored DEF Flush
  <1>5. \A i \in job.saves : flash'[i] = val[i]
    BY <1>2 DEF Flush
  <1>6. \A i \in Settings : flash'[i] \in {flash[i], pend[i]}
    BY DEF Flush
  <1>7. Durable'
    <2> SUFFICES ASSUME NEW i \in Settings PROVE flash'[i] \in {acked'[i]} \cup later'[i]
      BY DEF Durable
    <2>1. CASE i \in job.saves
      BY <1>5, <2>1 DEF Ack
    <2>2. CASE i \notin job.saves
      <3>1. acked'[i] = acked[i] /\ later'[i] = later[i]
        BY <2>2 DEF Ack
      <3>2. CASE pend[i] = None
        BY <3>1, <3>2 DEF Flush, SaveInv, Durable
      <3>3. CASE pend[i] # None
        BY <3>1, <3>3 DEF Flush, SaveInv, PendNew
      <3> QED
        BY <3>2, <3>3
    <2> QED
      BY <2>1, <2>2
  <1> QED
    BY <1>3, <1>4, <1>5, <1>6, <1>7 DEF PendNew

LEMMA CommitEndsSave == ASSUME SaveInv, CommitEnds PROVE SaveInv'
  <1>1. /\ flash' \in Stored /\ pend' \in Stored /\ acked' \in Stored
        /\ later' \in [Settings -> SUBSET Vals] /\ Durable' /\ PendNew'
    BY FlushAck DEF CommitEnds
  <1>2. clean' \in SUBSET Settings
    BY DEF SaveInv, TypeOK, Jobs, CommitEnds
  <1>3. TypeOK'
    BY <1>1, <1>2, NoJobTyped DEF SaveInv, TypeOK, CommitEnds
  <1>4. SavesWritten' /\ ~Registering'
    BY NoJobTyped DEF SavesWritten, Registering, CommitEnds
  <1> QED
    BY <1>1, <1>3, <1>4 DEF SaveInv

LEMMA AuthInitSave == ASSUME SaveInv, NEW c \in Ctxs, AuthInit(c) PROVE SaveInv'
  <1>1. HashNow \in Vals \cup {Zero}
    BY Names DEF SaveInv, TypeOK, Stored, HashNow
  <1>2. ctx' \in [Ctxs -> Contexts \cup {None}]
    BY <1>1 DEF SaveInv, TypeOK, AuthInit, Contexts
  <1>3. TypeOK' /\ job' = NoJob
    BY <1>2 DEF SaveInv, TypeOK, AuthInit, Idle, nvs_vars, hist_vars
  <1> QED
    BY <1>3, IdleStep DEF AuthInit, nvs_vars, hist_vars

LEMMA AuthInitFailsSave == ASSUME SaveInv, AuthInitFails PROVE SaveInv'
  <1>1. TypeOK' /\ job' = NoJob
    BY DEF SaveInv, TypeOK, AuthInitFails, Idle, nvs_vars, hist_vars
  <1> QED
    BY <1>1, IdleStep DEF AuthInitFails, nvs_vars, hist_vars

LEMMA AuthDeinitSave == ASSUME SaveInv, NEW c \in Ctxs, AuthDeinit(c) PROVE SaveInv'
  <1>1. ctx' \in [Ctxs -> Contexts \cup {None}]
    BY DEF SaveInv, TypeOK, AuthDeinit
  <1>2. TypeOK' /\ job' = NoJob
    BY <1>1 DEF SaveInv, TypeOK, AuthDeinit, Idle, nvs_vars, hist_vars
  <1> QED
    BY <1>2, IdleStep DEF AuthDeinit, nvs_vars, hist_vars

LEMMA RegisterSave ==
  ASSUME SaveInv, NEW c \in Ctxs, NEW k \in Keys, Register(c, k)
  PROVE  SaveInv'
  <1>1. Digest(k) \in Vals /\ "AUTH_HASH" \in Settings
    BY Values, Names
  <1>2. val' \in Stored /\ panic' \in {"no", "yes"} /\ clean' \in SUBSET Settings
    BY <1>1, SetTyped DEF SaveInv, Register
  <1>3. /\ job' = [call |-> "register", todo |-> <<"AUTH_HASH">>,
                   saves |-> {"AUTH_HASH"}, ctx |-> c, key |-> k]
        /\ job' \in Jobs
    BY <1>1 DEF Register, Jobs
  <1>4. ctx' \in [Ctxs -> Contexts \cup {None}]
    BY <1>1 DEF SaveInv, TypeOK, Register, Contexts
  <1>5. tried' \in SUBSET Keys
    BY DEF SaveInv, TypeOK, Register
  <1>6. TypeOK'
    BY <1>2, <1>3, <1>4, <1>5 DEF SaveInv, TypeOK, Register
  <1>7. Durable' /\ PendNew'
    BY DEF SaveInv, Durable, PendNew, Register
  <1>8. SavesWritten'
    BY <1>3 DEF SavesWritten, InTodo
  <1> QED
    BY <1>3, <1>6, <1>7, <1>8 DEF SaveInv

LEMMA RegisterHalfSave == ASSUME SaveInv, RegisterHalf PROVE SaveInv'
  <1>1. /\ flash' \in Stored /\ pend' \in Stored /\ acked' \in Stored
        /\ later' \in [Settings -> SUBSET Vals] /\ Durable' /\ PendNew'
    BY FlushAck DEF RegisterHalf
  <1>2. job \in Jobs /\ job.saves = {"AUTH_HASH"} /\ val \in Stored
    BY DEF SaveInv, TypeOK, Registering, RegisterHalf
  <1>3. /\ job' = [job EXCEPT !.call = "reset", !.todo = <<"AUTH_HASH">>]
        /\ job' \in Jobs /\ job'.saves = {"AUTH_HASH"} /\ job'.key = job.key
        /\ job'.todo = <<"AUTH_HASH">>
    <2>1. <<"AUTH_HASH">> \in Seq(Settings)
      BY Names
    <2>2. job' = [job EXCEPT !.call = "reset", !.todo = <<"AUTH_HASH">>]
      BY DEF RegisterHalf
    <2> QED
      BY <1>2, <2>1, <2>2 DEF Jobs
  <1>4. job.key \in Keys
    BY DEF SaveInv, Registering, RegisterHalf
  <1>5. ResetVal(job.key) \in Vals
    BY <1>4, Values DEF ResetVal
  <1>6. val' \in Stored
    BY <1>2, <1>5, Names DEF RegisterHalf, Stored
  <1>7. TypeOK'
    BY <1>1, <1>3, <1>6 DEF SaveInv, TypeOK, RegisterHalf
  <1>8. SavesWritten'
    BY <1>3 DEF SavesWritten, InTodo
  <1> QED
    BY <1>1, <1>3, <1>4, <1>7, <1>8 DEF SaveInv

LEMMA RegisterEndsSave == ASSUME SaveInv, RegisterEnds PROVE SaveInv'
  <1>1. /\ flash' \in Stored /\ pend' \in Stored /\ acked' \in Stored
        /\ later' \in [Settings -> SUBSET Vals] /\ Durable' /\ PendNew'
    BY FlushAck DEF RegisterEnds
  <1>2. ctx' \in [Ctxs -> Contexts \cup {None}]
    BY DEF SaveInv, TypeOK, RegisterEnds, Contexts
  <1>3. job.key \in Keys \cup {None} /\ clean' \in SUBSET Settings
    BY Names DEF SaveInv, TypeOK, Jobs, RegisterEnds
  <1>4. TypeOK'
    BY <1>1, <1>2, <1>3, NoJobTyped DEF SaveInv, TypeOK, RegisterEnds
  <1>5. SavesWritten' /\ ~Registering'
    BY NoJobTyped DEF SavesWritten, Registering, RegisterEnds
  <1> QED
    BY <1>1, <1>4, <1>5 DEF SaveInv

LEMMA CrashSave == ASSUME SaveInv, Crash PROVE SaveInv'
  <1>1. PICK kept \in SUBSET {i \in Settings : pend[i] # None} :
          flash' = [i \in Settings |-> IF i \in kept THEN pend[i] ELSE flash[i]]
    BY DEF Crash
  <1>2. flash' \in Stored
    BY <1>1 DEF SaveInv, TypeOK, Stored
  <1>3. ctx' \in [Ctxs -> Contexts \cup {None}]
    BY DEF Crash
  <1>4. TypeOK'
    BY <1>2, <1>3, NoJobTyped, NothingStored DEF SaveInv, TypeOK, Crash
  <1>5. Durable'
    BY <1>1 DEF SaveInv, Durable, PendNew, Crash
  <1>6. PendNew'
    BY NothingStored DEF PendNew, Crash
  <1>7. SavesWritten' /\ ~Registering'
    BY NoJobTyped DEF SavesWritten, Registering, Crash
  <1> QED
    BY <1>4, <1>5, <1>6, <1>7 DEF SaveInv

LEMMA SaveNext == SaveInv /\ [Next]_vars => SaveInv'
  <1> SUFFICES ASSUME SaveInv, [Next]_vars PROVE SaveInv'
    OBVIOUS
  <1>1. CASE Erase \/ Load \/ LoadOom
    BY <1>1, EraseSave, LoadSave, LoadOomSave
  <1>2. ASSUME NEW i \in Callers, Set(i) PROVE SaveInv'
    BY <1>2, SetSave
  <1>3. ASSUME NEW i \in Settings, Commit(<<i>>) PROVE SaveInv'
    <2>1. <<i>> \in Seq(Settings)
      OBVIOUS
    <2> QED
      BY <1>3, <2>1, CommitSave
  <1>4. CASE Commit(List)
    BY <1>4, Names, CommitSave
  <1>5. CASE Write \/ WriteFails \/ CommitEnds \/ AuthInitFails
    BY <1>5, WriteSave, WriteFailsSave, CommitEndsSave, AuthInitFailsSave
  <1>6. ASSUME NEW c \in Ctxs, AuthInit(c) \/ AuthDeinit(c) PROVE SaveInv'
    BY <1>6, AuthInitSave, AuthDeinitSave
  <1>7. ASSUME NEW c \in Ctxs, NEW k \in Keys, Register(c, k) PROVE SaveInv'
    BY <1>7, RegisterSave
  <1>8. CASE RegisterHalf \/ RegisterEnds \/ Crash
    BY <1>8, RegisterHalfSave, RegisterEndsSave, CrashSave
  <1>9. CASE UNCHANGED vars
    <2> USE <1>9 DEF vars, nvs_vars, hist_vars
    <2>1. TypeOK'
      BY DEF SaveInv, TypeOK
    <2>2. Durable' /\ PendNew'
      BY DEF SaveInv, Durable, PendNew
    <2>3. SavesWritten'
      BY DEF SaveInv, SavesWritten, InTodo
    <2> QED
      BY <2>1, <2>2, <2>3 DEF SaveInv, Registering
  <1> QED
    BY <1>1, <1>2, <1>3, <1>4, <1>5, <1>6, <1>7, <1>8, <1>9 DEF Next

THEOREM SaveInvariance == Spec => []SaveInv
  <1> QED
    BY InitSave, SaveNext, PTL DEF Spec

THEOREM DurableHolds == Spec => []Durable
  <1>1. SaveInv => Durable
    BY DEF SaveInv
  <1> QED
    BY <1>1, SaveInvariance, PTL

(***************************************************************************)
(* The registered key.  SaveInv' is known of every step, by SaveNext.      *)
(***************************************************************************)
LEMMA InitKey == Init => KeyInv
  BY InitSave, NoJobTyped DEF Init, KeyInv, Registering

(* Steps without a call in progress that make no new copy of the digest.   *)
LEMMA CopyStep ==
  ASSUME KeyInv, SaveInv', job' = NoJob, registered' = registered, tried' = tried,
         val'["AUTH_HASH"] \in {val["AUTH_HASH"], flash["AUTH_HASH"], None},
         flash'["AUTH_HASH"] \in {flash["AUTH_HASH"], pend["AUTH_HASH"]},
         pend'["AUTH_HASH"] \in {pend["AUTH_HASH"], None},
         \A c \in Ctxs : ctx'[c] # None /\ ctx'[c] # ctx[c]
                             => ctx'[c].hash \in {val["AUTH_HASH"], Zero}
  PROVE  KeyInv'
  <1>1. ~Registering'
    BY NoJobTyped DEF Registering
  <1>2. \A k \in Keys : Digest(k) # None /\ Digest(k) # Zero
    BY Digests
  <1>3. ASSUME registered # None PROVE CopiesCurrent'
    <2>1. CopiesCurrent
      BY <1>3 DEF KeyInv
    <2>2. /\ Current(val["AUTH_HASH"])' /\ Current(flash["AUTH_HASH"])'
          /\ Current(pend["AUTH_HASH"])'
      BY <1>2, <2>1 DEF CopiesCurrent, Current
    <2>3. ASSUME NEW c \in Ctxs, ctx'[c] # None, ctx'[c].since = "yes"
          PROVE  Current(ctx[c].hash)'
      <3>1. CASE ctx'[c] = ctx[c]
        BY <2>1, <2>3, <3>1 DEF CopiesCurrent, Current
      <3>2. CASE ctx'[c] # ctx[c]
        BY <1>2, <2>1, <2>3, <3>2 DEF CopiesCurrent, Current
      <3> QED
        BY <3>1, <3>2
    <2> QED
      BY <2>2, <2>3 DEF CopiesCurrent
  <1> QED
    BY <1>1, <1>3 DEF KeyInv

LEMMA SmallStepsKey ==
  ASSUME KeyInv, SaveInv',
         \/ Load \/ LoadOom \/ AuthInitFails
         \/ WriteFails \/ Crash
         \/ \E i \in Callers : Set(i)
         \/ \E c \in Ctxs : AuthInit(c) \/ AuthDeinit(c)
  PROVE  KeyInv'
  <1> "AUTH_HASH" \in Settings
    BY Names
  <1>1. CASE LoadOom \/ AuthInitFails \/ WriteFails
    BY <1>1, CopyStep
       DEF LoadOom, AuthInitFails, WriteFails, Idle, nvs_vars, hist_vars
  <1>2. CASE Load
    BY <1>2, CopyStep DEF Load, Loaded, Idle
  <1>3. CASE Crash
    <2>1. /\ val' = Nothing /\ pend' = Nothing /\ job' = NoJob
          /\ \A c \in Ctxs : ctx'[c] = None
          /\ UNCHANGED <<registered, tried>>
      BY <1>3 DEF Crash
    <2>2. flash'["AUTH_HASH"] \in {flash["AUTH_HASH"], pend["AUTH_HASH"]}
      BY <1>3 DEF Crash
    <2> QED
      BY <2>1, <2>2, NothingStored, CopyStep
  <1>4. ASSUME NEW i \in Callers, Set(i) PROVE KeyInv'
    <2>1. i # "AUTH_HASH"
      BY NvsAssumption
    <2>2. val'["AUTH_HASH"] = val["AUTH_HASH"]
      BY <1>4, <2>1 DEF Set, SetTo, KeyInv, SaveInv, TypeOK, Stored
    <2> QED
      BY <1>4, <2>2, CopyStep DEF Set, Idle
  <1>5. ASSUME NEW c \in Ctxs, AuthInit(c) PROVE KeyInv'
    <2>1. \A d \in Ctxs : ctx'[d] # ctx[d] => ctx'[d].hash \in {val["AUTH_HASH"], Zero}
      BY <1>5 DEF AuthInit, HashNow, KeyInv, SaveInv, TypeOK
    <2>2. job' = NoJob /\ UNCHANGED <<nvs_vars, registered, tried>>
      BY <1>5 DEF AuthInit, Idle, hist_vars
    <2> QED
      BY <2>1, <2>2, CopyStep DEF nvs_vars
  <1>6. ASSUME NEW c \in Ctxs, AuthDeinit(c) PROVE KeyInv'
    <2>1. \A d \in Ctxs : ctx'[d] # ctx[d] => ctx'[d] = None
      BY <1>6 DEF AuthDeinit, KeyInv, SaveInv, TypeOK
    <2> QED
      BY <1>6, <2>1, CopyStep DEF AuthDeinit, Idle, nvs_vars, hist_vars
  <1> QED
    BY <1>1, <1>2, <1>3, <1>4, <1>5, <1>6

LEMMA EraseKey == ASSUME SaveInv', Erase PROVE KeyInv'
  BY NoJobTyped DEF Erase, Idle, KeyInv, Registering

LEMMA CommitKey ==
  ASSUME KeyInv, SaveInv', NEW list, Commit(list)
  PROVE  KeyInv'
  <1>1. job'.call = "commit" /\ UNCHANGED <<nvs_vars, ctx, registered, tried>>
    BY DEF Commit, NoJob, hist_vars
  <1>2. registered # None => CopiesCurrent'
    BY <1>1 DEF KeyInv, CopiesCurrent, Current, nvs_vars
  <1> QED
    BY <1>1, <1>2 DEF KeyInv, Registering

LEMMA WriteKey == ASSUME KeyInv, SaveInv', Write PROVE KeyInv'
  <1> DEFINE i == Head(job.todo)
  <1>1. /\ pend \in Stored /\ job \in Jobs /\ "AUTH_HASH" \in Settings
    BY Names DEF KeyInv, SaveInv, TypeOK
  <1>2. /\ pend' = [pend EXCEPT ![i] = val[i]]
        /\ job' = [job EXCEPT !.todo = Tail(@)]
        /\ UNCHANGED <<val, flash, ctx, registered, tried>>
    BY DEF Write
  <1>3. job'.call = job.call /\ job'.key = job.key /\ job'.ctx = job.ctx
    BY <1>1, <1>2 DEF Jobs
  <1> HIDE DEF i
  <1>4. pend'["AUTH_HASH"] \in {pend["AUTH_HASH"], val["AUTH_HASH"]}
    BY <1>1, <1>2 DEF Stored
  <1>5. registered # None => CopiesCurrent'
    BY <1>2, <1>4 DEF KeyInv, CopiesCurrent, Current
  <1>6. Registering' => JobCurrent'
    BY <1>2, <1>3 DEF KeyInv, Registering, JobCurrent
  <1> QED
    BY <1>2, <1>5, <1>6 DEF KeyInv

LEMMA CommitEndsKey == ASSUME KeyInv, SaveInv', CommitEnds PROVE KeyInv'
  <1>1. /\ flash'["AUTH_HASH"] \in {flash["AUTH_HASH"], pend["AUTH_HASH"]}
        /\ pend'["AUTH_HASH"] = None
    BY FlushAck, Names DEF KeyInv, CommitEnds
  <1> QED
    BY <1>1, CopyStep DEF CommitEnds

(* The registration begins: the new digest is that of a key tried.         *)
LEMMA RegisterKey ==
  ASSUME KeyInv, SaveInv', NEW c \in Ctxs, NEW k \in Keys, Register(c, k)
  PROVE  KeyInv'
  <1>1. /\ "AUTH_HASH" \in Settings /\ val \in Stored
        /\ ctx \in [Ctxs -> Contexts \cup {None}] /\ ctx[c] \in Contexts
    BY Names DEF KeyInv, SaveInv, TypeOK, Register
  <1>2. val'["AUTH_HASH"] \in {val["AUTH_HASH"], Digest(k)}
    BY <1>1 DEF Register, SetTo, Stored
  <1>3. /\ ctx'[c].hash = Digest(k) /\ ctx'[c].since = ctx[c].since
        /\ \A d \in Ctxs : d # c => ctx'[d] = ctx[d]
    BY <1>1 DEF Register, Contexts
  <1>4. /\ k \in tried' /\ tried \subseteq tried' /\ registered' = registered
        /\ UNCHANGED <<flash, pend>>
        /\ job'.call = "register" /\ job'.ctx = c /\ job'.key = k
    BY DEF Register
  <1>5. \A j \in Keys : Digest(j) = Digest(k) => j = k
    BY Digests
  <1>6. ASSUME registered # None PROVE CopiesCurrent'
    <2>1. CopiesCurrent
      BY <1>6 DEF KeyInv
    <2>2. /\ Current(val["AUTH_HASH"])' /\ Current(flash["AUTH_HASH"])'
          /\ Current(pend["AUTH_HASH"])'
      BY <1>2, <1>4, <1>5, <2>1 DEF CopiesCurrent, Current
    <2>3. ASSUME NEW d \in Ctxs, ctx'[d] # None, ctx'[d].since = "yes"
          PROVE  Current(ctx[d].hash)'
      <3>1. CASE d = c
        BY <1>3, <1>4, <1>5, <3>1 DEF Current
      <3>2. CASE d # c
        BY <1>3, <1>4, <2>1, <2>3, <3>2 DEF CopiesCurrent, Current
      <3> QED
        BY <3>1, <3>2
    <2> QED
      BY <2>2, <2>3 DEF CopiesCurrent
  <1>7. JobCurrent'
    BY <1>3, <1>4 DEF JobCurrent
  <1> QED
    BY <1>4, <1>6, <1>7 DEF KeyInv

(* The first commit of a registration ends, and the torn digest is set.    *)
LEMMA RegisterHalfKey == ASSUME KeyInv, SaveInv', RegisterHalf PROVE KeyInv'
  <1>1. /\ flash'["AUTH_HASH"] \in {flash["AUTH_HASH"], pend["AUTH_HASH"]}
        /\ pend'["AUTH_HASH"] = None
    BY FlushAck, Names DEF KeyInv, RegisterHalf
  <1>2. JobCurrent /\ job.key \in Keys
    BY DEF KeyInv, SaveInv, Registering, RegisterHalf
  <1>3. val'["AUTH_HASH"] = Torn(job.key)
    BY Names DEF RegisterHalf, ResetVal, KeyInv, SaveInv, TypeOK, Stored
  <1>4. /\ job'.call = "reset" /\ job'.key = job.key /\ job'.ctx = job.ctx
    BY DEF RegisterHalf, KeyInv, SaveInv, TypeOK, Jobs
  <1>5. UNCHANGED <<ctx, registered, tried>>
    BY DEF RegisterHalf
  <1>6. \A k \in Keys : Digest(k) # Torn(job.key) /\ Digest(k) # None
    BY <1>2, Digests
  <1>7. registered # None => CopiesCurrent'
    BY <1>1, <1>3, <1>5, <1>6 DEF KeyInv, CopiesCurrent, Current
  <1>8. JobCurrent'
    BY <1>2, <1>3, <1>4, <1>5 DEF JobCurrent
  <1> QED
    BY <1>5, <1>7, <1>8 DEF KeyInv

(* The registration ends: no copy is left but those of its key.            *)
LEMMA RegisterEndsKey == ASSUME KeyInv, SaveInv', RegisterEnds PROVE KeyInv'
  <1>1. JobCurrent /\ job.key \in Keys /\ val["AUTH_HASH"] = Torn(job.key)
    BY DEF KeyInv, SaveInv, Registering, JobCurrent, RegisterEnds
  <1>2. "AUTH_HASH" \in job.saves
    BY DEF KeyInv, SaveInv, Registering, RegisterEnds
  <1>3. /\ flash'["AUTH_HASH"] = Torn(job.key) /\ pend'["AUTH_HASH"] = None
        /\ val'["AUTH_HASH"] = Torn(job.key)
    BY <1>1, <1>2, FlushAck, Names DEF KeyInv, RegisterEnds
  <1>4. /\ registered' = job.key /\ job' = NoJob
        /\ ctx' = [c \in Ctxs |->
             IF ctx[c] = None THEN None
             ELSE [ctx[c] EXCEPT !.since = IF c = job.ctx THEN "yes" ELSE "no"]]
    BY DEF RegisterEnds
  <1>5. \A k \in Keys : /\ Digest(k) # Torn(job.key) /\ Digest(k) # None
                        /\ Digest(k) = Digest(job.key) => k = job.key
    BY <1>1, Digests
  <1>6. /\ Current(val["AUTH_HASH"])' /\ Current(flash["AUTH_HASH"])'
        /\ Current(pend["AUTH_HASH"])'
    BY <1>3, <1>5 DEF Current
  <1>7. ASSUME NEW c \in Ctxs, ctx'[c] # None, ctx'[c].since = "yes"
        PROVE  Current(ctx[c].hash)'
    <2>1. ctx[c] \in Contexts
      BY <1>4, <1>7 DEF KeyInv, SaveInv, TypeOK
    <2>2. c = job.ctx
      BY <1>4, <1>7, <2>1 DEF Contexts
    <2>3. ctx'[c].hash = Digest(job.key)
      BY <1>1, <1>4, <1>7, <2>1, <2>2 DEF JobCurrent, Contexts
    <2> QED
      BY <1>4, <1>5, <2>3 DEF Current
  <1>8. CopiesCurrent'
    BY <1>6, <1>7 DEF CopiesCurrent
  <1> QED
    BY <1>4, <1>8, NoJobTyped DEF KeyInv, Registering

LEMMA KeyNext == KeyInv /\ [Next]_vars => KeyInv'
  <1> SUFFICES ASSUME KeyInv, [Next]_vars PROVE KeyInv'
    OBVIOUS
  <1>0. SaveInv'
    BY SaveNext DEF KeyInv
  <1>1. CASE \/ Load \/ LoadOom \/ AuthInitFails
             \/ WriteFails \/ Crash
             \/ \E i \in Callers : Set(i)
             \/ \E c \in Ctxs : AuthInit(c) \/ AuthDeinit(c)
    BY <1>0, <1>1, SmallStepsKey
  <1>2. CASE Erase
    BY <1>0, <1>2, EraseKey
  <1>3. CASE Commit(List) \/ \E i \in Settings : Commit(<<i>>)
    BY <1>0, <1>3, CommitKey
  <1>4. CASE Write \/ CommitEnds
    BY <1>0, <1>4, WriteKey, CommitEndsKey
  <1>5. ASSUME NEW c \in Ctxs, NEW k \in Keys, Register(c, k) PROVE KeyInv'
    BY <1>0, <1>5, RegisterKey
  <1>6. CASE RegisterHalf \/ RegisterEnds
    BY <1>0, <1>6, RegisterHalfKey, RegisterEndsKey
  <1>7. CASE UNCHANGED vars
    <2> USE <1>7 DEF vars, nvs_vars, hist_vars
    <2>1. registered # None => CopiesCurrent'
      BY DEF KeyInv, CopiesCurrent, Current
    <2>2. Registering' => JobCurrent'
      BY DEF KeyInv, Registering, JobCurrent
    <2> QED
      BY <1>0, <2>1, <2>2 DEF KeyInv
  <1> QED
    BY <1>1, <1>2, <1>3, <1>4, <1>5, <1>6, <1>7 DEF Next

THEOREM KeyInvariance == Spec => []KeyInv
  <1> QED
    BY InitKey, KeyNext, PTL DEF Spec

THEOREM KeyRetiredHolds == Spec => []KeyRetired
  <1>1. KeyInv => KeyRetired
    BY DEF KeyInv, CopiesCurrent, Current, KeyRetired, Accepts
  <1> QED
    BY <1>1, KeyInvariance, PTL

(***************************************************************************)
(* The settings in memory.                                                 *)
(***************************************************************************)
LEMMA InitMem == Init => MemInv
  BY InitSave, NoJobTyped DEF Init, MemInv, CleanWritten, Registering

(* Steps that leave the memory and the flash alone.                        *)
LEMMA SameMem ==
  ASSUME MemInv, SaveInv', UNCHANGED <<handle, mem, val, flash, pend, clean>>,
         Registering' => "AUTH_HASH" \notin clean
  PROVE  MemInv'
  BY DEF MemInv, CleanWritten

LEMMA SetMem ==
  ASSUME MemInv, SaveInv', NEW i \in Settings, NEW v \in Vals, SetTo(i, v),
         UNCHANGED <<handle, mem, flash, pend>>,
         Registering' => i = "AUTH_HASH"
  PROVE  MemInv'
  <1>1. CASE mem = "null"
    BY <1>1 DEF MemInv, CleanWritten, SetTo
  <1>2. CASE mem # "null"
    <2>1. val \in Stored /\ clean' = clean \ {i} /\ val' = [val EXCEPT ![i] = v]
      BY <1>2 DEF MemInv, SaveInv, TypeOK, SetTo
    <2>2. \A j \in clean' : val'[j] = val[j]
      BY <2>1 DEF Stored
    <2>3. CleanWritten'
      BY <2>1, <2>2 DEF MemInv, CleanWritten
    <2>4. Registering' => "AUTH_HASH" \notin clean'
      BY <2>1
    <2> QED
      BY <1>2, <2>3, <2>4 DEF MemInv
  <1> QED
    BY <1>1, <1>2

LEMMA WriteMem == ASSUME MemInv, SaveInv', Write PROVE MemInv'
  <1> DEFINE i == Head(job.todo)
  <1>1. pend \in Stored /\ job \in Jobs
    BY DEF MemInv, SaveInv, TypeOK
  <1>2. mem # "null"
    <2>1. i \in Settings /\ val[i] # None
      BY <1>1 DEF Write, Jobs
    <2> QED
      BY <2>1, NothingStored DEF MemInv
  <1>3. /\ pend' = [pend EXCEPT ![i] = val[i]] /\ job'.call = job.call
        /\ UNCHANGED <<handle, mem, val, flash, clean>>
    BY <1>1 DEF Write, Jobs
  <1> HIDE DEF i
  <1>4. CleanWritten'
    BY <1>1, <1>3 DEF MemInv, SaveInv, TypeOK, CleanWritten, Stored
  <1> QED
    BY <1>2, <1>3, <1>4 DEF MemInv, Registering

(* A flush makes what was written of a setting what is in the flash: of a  *)
(* clean one, what is in memory; and of those the commit was for.          *)
LEMMA FlushMem ==
  ASSUME MemInv, Written, Flush, Ack
  PROVE  /\ \A i \in clean \cup job.saves : flash'[i] = val[i]
         /\ \A i \in Settings : pend'[i] = None
         /\ clean \subseteq Settings /\ job.saves \subseteq Settings
  <1>1. clean \subseteq Settings /\ job.saves \subseteq Settings /\ SaveInv
    BY DEF MemInv, SaveInv, TypeOK, Jobs
  <1>2. \A i \in job.saves : flash'[i] = val[i]
    BY <1>1, FlushAck
  <1>3. \A i \in clean : flash'[i] = val[i]
    BY <1>1 DEF MemInv, CleanWritten, Flush
  <1> QED
    BY <1>1, <1>2, <1>3, FlushAck

LEMMA WrittenRoom ==
  ASSUME MemInv, Written, NEW i \in job.saves
  PROVE  mem # "null"
  <1>1. job \in Jobs /\ i \in Settings
    BY DEF MemInv, SaveInv, TypeOK, Jobs
  <1>2. val[i] # None
    BY <1>1 DEF MemInv, SaveInv, SavesWritten, InTodo, Written, Jobs
  <1> QED
    BY <1>1, <1>2, NothingStored DEF MemInv

LEMMA CommitEndsMem == ASSUME MemInv, SaveInv', CommitEnds PROVE MemInv'
  <1>1. CleanWritten'
    BY FlushMem DEF CleanWritten, CommitEnds
  <1>2. mem = "null" => job.saves = {}
    BY WrittenRoom DEF CommitEnds
  <1> QED
    BY <1>1, <1>2, NoJobTyped DEF MemInv, Registering, CommitEnds, Flush

LEMMA RegisterHalfMem == ASSUME MemInv, SaveInv', RegisterHalf PROVE MemInv'
  <1>1. "AUTH_HASH" \notin clean /\ "AUTH_HASH" \in job.saves
    BY DEF MemInv, SaveInv, Registering, RegisterHalf
  <1>2. val \in Stored /\ \A i \in clean : val'[i] = val[i]
    BY <1>1 DEF MemInv, SaveInv, TypeOK, RegisterHalf, Stored
  <1>3. CleanWritten'
    BY <1>2, FlushMem DEF CleanWritten, RegisterHalf
  <1> QED
    BY <1>1, <1>3, WrittenRoom DEF MemInv, RegisterHalf, Flush

LEMMA RegisterEndsMem == ASSUME MemInv, SaveInv', RegisterEnds PROVE MemInv'
  <1>1. job.saves = {"AUTH_HASH"}
    BY DEF MemInv, SaveInv, Registering, RegisterEnds
  <1>2. CleanWritten'
    BY <1>1, FlushMem DEF CleanWritten, RegisterEnds
  <1> QED
    BY <1>1, <1>2, WrittenRoom, NoJobTyped DEF MemInv, Registering, RegisterEnds, Flush

LEMMA MemNext == MemInv /\ [Next]_vars => MemInv'
  <1> SUFFICES ASSUME MemInv, [Next]_vars PROVE MemInv'
    OBVIOUS
  <1>0. SaveInv'
    BY SaveNext DEF MemInv
  <1> USE <1>0
  <1>1. CASE \/ LoadOom \/ AuthInitFails \/ WriteFails
             \/ \E c \in Ctxs : AuthInit(c) \/ AuthDeinit(c)
    <2>1. job' = NoJob
      BY <1>1 DEF LoadOom, AuthInitFails, WriteFails, AuthInit, AuthDeinit, Idle
    <2>2. UNCHANGED <<mem, val, flash, pend, clean>>
      BY <1>1 DEF LoadOom, AuthInitFails, WriteFails, AuthInit, AuthDeinit,
                  nvs_vars, hist_vars
    <2>3. handle' \in {"open", handle}
      BY <1>1
      DEF LoadOom, AuthInitFails, WriteFails, AuthInit, AuthDeinit, nvs_vars
    <2> QED
      BY <2>1, <2>2, <2>3, NoJobTyped DEF MemInv, CleanWritten, Registering
  <1>2. CASE Erase
    BY <1>2, NoJobTyped DEF Erase, Idle, MemInv, CleanWritten, Registering
  <1>3. CASE Load
    <2>1. PICK readable \in SUBSET Settings :
              val' = Loaded(readable) /\ clean' = readable
      BY <1>3 DEF Load
    <2>2. \A i \in Settings : pend[i] = None
      BY <1>3, NothingStored DEF MemInv, Load
    <2>3. CleanWritten'
      BY <1>3, <2>1, <2>2 DEF Load, Loaded, CleanWritten
    <2> QED
      BY <1>3, <2>3, NoJobTyped DEF Load, Idle, MemInv, Registering
  <1>4. ASSUME NEW i \in Callers, Set(i) PROVE MemInv'
    <2>1. i \in Settings /\ Other \in Vals
      BY NvsAssumption, Values
    <2>2. ~Registering'
      BY <1>4, NoJobTyped DEF Set, Idle, Registering
    <2> QED
      BY <1>4, <2>1, <2>2, SetMem DEF Set
  <1>5. CASE Commit(List) \/ \E i \in Settings : Commit(<<i>>)
    <2>1. job'.call = "commit" /\ UNCHANGED <<nvs_vars, clean>>
      BY <1>5 DEF Commit, NoJob, hist_vars
    <2> QED
      BY <2>1, SameMem DEF nvs_vars, Registering
  <1>6. CASE Write \/ CommitEnds \/ RegisterHalf \/ RegisterEnds
    BY <1>6, WriteMem, CommitEndsMem, RegisterHalfMem, RegisterEndsMem
  <1>7. ASSUME NEW c \in Ctxs, NEW k \in Keys, Register(c, k) PROVE MemInv'
    <2>1. "AUTH_HASH" \in Settings /\ Digest(k) \in Vals
      BY Names, Values
    <2> QED
      BY <1>7, <2>1, SetMem DEF Register
  <1>8. CASE Crash
    BY <1>8, NoJobTyped DEF Crash, MemInv, CleanWritten, Registering
  <1>9. CASE UNCHANGED vars
    BY <1>9, SameMem DEF vars, nvs_vars, hist_vars, MemInv, Registering
  <1> QED
    BY <1>1, <1>2, <1>3, <1>4, <1>5, <1>6, <1>7, <1>8, <1>9 DEF Next

THEOREM MemInvariance == Spec => []MemInv
  <1> QED
    BY InitMem, MemNext, PTL DEF Spec

(* Whatever is set, written, committed, lost or restarted: the digests are *)
(* where they may be, and what is clean is as in the flash.                *)
THEOREM SettingsInvariance == Spec => []SettingsInv
  <1>1. KeyInv /\ MemInv => SettingsInv
    BY DEF SettingsInv
  <1> QED
    BY <1>1, KeyInvariance, MemInvariance, PTL

(* Of a setting that was loaded or committed and not set since,            *)
(* esk8_nvs_settings_get returns what is in the flash: whatever settings   *)
(* there are set, written and committed, together or one by one, and       *)
(* whichever writes fail.                                                  *)
THEOREM MemoryIsFlashHolds == Spec => []MemoryIsFlash
  <1>1. MemInv => MemoryIsFlash
    BY DEF MemInv, CleanWritten, MemoryIsFlash
  <1> QED
    BY <1>1, MemInvariance, PTL

=============================================================================
