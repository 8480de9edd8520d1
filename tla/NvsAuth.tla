------------------------------- MODULE NvsAuth -------------------------------
(***************************************************************************)
(* The settings kept in flash (lib/nvs) and the authentication key that is *)
(* one of them (lib/auth, with the contexts that the BLE service           *)
(* app_ble_srvc_auth opens for its connections).                           *)
(*                                                                         *)
(* The calls come from one task at a time, in any order.  The chip may     *)
(* restart between any two steps; what was written but not committed then  *)
(* is in the flash or is not.  The digest of a key is taken for as good as *)
(* the key: different keys have different digests, and none is all zero.   *)
(***************************************************************************)
EXTENDS Sequences, FiniteSets

CONSTANTS
    Keys,   \* esk8_auth_key_t
    Other,  \* a value of the settings other than the digest
    Callers, \* the settings that callers set, besides the digest
    Ctxs,   \* bound: authentication contexts the heap has room for
    None    \* nvs_val is NULL; the flash holds no such blob

List == <<"AUTH_HASH", "AUTH_HASH_N", "CONN_ADDR">>  \* esk8_nvs_setting_list
Settings == {List[k] : k \in DOMAIN List}

Digest(k) == <<"digest", k>>   \* what mbedtls_md_finish yields
Torn(k)   == <<"torn", k>>     \* the same with its first four bytes zeroed
Zero      == <<"zero", None>>  \* what calloc leaves
Hashes    == {Digest(k) : k \in Keys} \cup {Torn(k) : k \in Keys}
Vals      == Hashes \cup {Other}

ASSUME NvsAssumption ==
    /\ Other \notin Hashes /\ None \notin Vals \cup Keys
    /\ Callers \subseteq Settings \ {"AUTH_HASH"}

VARIABLES
    handle,  \* esk8_nvs_handle: "closed" or "open"
    mem,     \* __nvs_mem of all the settings: "null" or "room"
    val,     \* nvs_val, by setting
    flash,   \* what is committed in flash, by setting
    pend,    \* what is written there and not committed
    ctx,     \* by context: None, or its hash and whether the last registration
             \* was made before it was opened, or through it (history)
    job,     \* the call in progress: its name, the settings it is still to
             \* write, the settings it commits, and its context and key
    panic,   \* "yes" when memory was used that is not there

    acked,       \* history: by setting, what a commit returned ESK8_OK for
    later,       \* history: by setting, what was written since
    clean,       \* history: settings loaded or committed and not set since
    registered,  \* history: the key esk8_auth_register returned ESK8_OK for
    tried        \* history: keys of the registrations begun since

nvs_vars  == <<handle, mem, val, flash, pend>>
hist_vars == <<acked, later, clean, registered, tried>>
vars      == <<nvs_vars, ctx, job, panic, hist_vars>>

NoJob == [call |-> "none", todo |-> <<>>, saves |-> {}, ctx |-> None, key |-> None]

Stored   == [Settings -> Vals \cup {None}]
Contexts == [hash : Vals \cup {Zero}, since : {"yes", "no"}]
Jobs     == [call : {"none", "commit", "register", "reset"},
             todo : Seq(Settings), saves : SUBSET Settings,
             ctx : Ctxs \cup {None}, key : Keys \cup {None}]

TypeOK ==
    /\ handle \in {"closed", "open"} /\ mem \in {"null", "room"}
    /\ val \in Stored /\ flash \in Stored /\ pend \in Stored
    /\ ctx \in [Ctxs -> Contexts \cup {None}]
    /\ job \in Jobs
    /\ panic \in {"no", "yes"}
    /\ acked \in Stored /\ later \in [Settings -> SUBSET Vals]
    /\ clean \in SUBSET Settings
    /\ registered \in Keys \cup {None} /\ tried \in SUBSET Keys

Nothing == [i \in Settings |-> None]

Init ==
    /\ handle = "closed" /\ mem = "null" /\ val = Nothing
    /\ flash = Nothing /\ pend = Nothing
    /\ ctx = [c \in Ctxs |-> None] /\ job = NoJob /\ panic = "no"
    /\ acked = Nothing /\ later = [i \in Settings |-> {}]
    /\ clean = {} /\ registered = None /\ tried = {}

Idle == job = NoJob /\ panic = "no"

-----------------------------------------------------------------------------
(* esk8_nvs_init, called by esk8_ble_apps_init and by esk8_auth_init.  It  *)
(* does nothing once the handle is open.                                   *)

(* The partition is full or of another version: it is erased.              *)
Erase ==
    /\ Idle /\ handle = "closed"
    /\ flash' = Nothing /\ pend' = Nothing
    /\ acked' = Nothing /\ later' = [i \in Settings |-> {}]
    /\ registered' = None /\ tried' = {}
    /\ UNCHANGED <<handle, mem, val, ctx, job, panic, clean>>

(* Some of the blobs may fail to be read; a missing one is no error.       *)
Loaded(readable) == [i \in Settings |-> IF i \in readable THEN flash[i] ELSE None]

Load ==
    /\ Idle /\ handle = "closed"
    /\ handle' = "open" /\ mem' = "room"
    /\ \E readable \in SUBSET Settings :
          val' = Loaded(readable) /\ clean' = readable
    /\ UNCHANGED <<flash, pend, ctx, job, panic, acked, later, registered, tried>>

(* Out of memory: everything is freed, but for the handle.                 *)
LoadOom ==
    /\ Idle /\ handle = "closed"
    /\ handle' = "open"
    /\ UNCHANGED <<mem, val, flash, pend, ctx, job, panic, hist_vars>>

-----------------------------------------------------------------------------
(* esk8_nvs_settings_set: without memory it copies to NULL.                *)
SetTo(i, v) ==
    IF mem = "null"
    THEN panic' = "yes" /\ UNCHANGED <<val, clean>>
    ELSE val' = [val EXCEPT ![i] = v] /\ clean' = clean \ {i} /\ UNCHANGED panic

(* Callers set the settings other than the digest, which is                *)
(* esk8_auth_register's.                                                   *)
Set(i) ==
    /\ Idle /\ handle = "open"
    /\ SetTo(i, Other)
    /\ UNCHANGED <<handle, mem, flash, pend, ctx, job, acked, later,
                   registered, tried>>

(* esk8_nvs_commit of one setting, or of all of them.                      *)
Commit(list) ==
    /\ Idle /\ handle = "open"
    /\ job' = [NoJob EXCEPT !.call = "commit", !.todo = list,
                            !.saves = {list[k] : k \in DOMAIN list}]
    /\ UNCHANGED <<nvs_vars, ctx, panic, hist_vars>>

(* nvs_set_blob, which refuses a NULL value and may fail besides.          *)
Write ==
    /\ job.todo # <<>> /\ panic = "no"
    /\ LET i == Head(job.todo) IN
       /\ val[i] # None
       /\ pend' = [pend EXCEPT ![i] = val[i]]
       /\ later' = [later EXCEPT ![i] = @ \cup {val[i]}]
    /\ job' = [job EXCEPT !.todo = Tail(@)]
    /\ UNCHANGED <<handle, mem, val, flash, ctx, panic, acked, clean,
                   registered, tried>>

WriteFails ==
    /\ job.call # "none" /\ panic = "no"
    /\ job' = NoJob
    /\ UNCHANGED <<nvs_vars, ctx, panic, hist_vars>>

(* nvs_commit, of all that is written.  (Slips: it is not called; a blob   *)
(* that is there is not replaced.)                                         *)
FlushNot == UNCHANGED <<flash, pend>>
FlushFirst ==
    /\ flash' = [i \in Settings |-> IF flash[i] = None THEN pend[i] ELSE flash[i]]
    /\ pend' = Nothing
Flush ==
    /\ flash' = [i \in Settings |-> IF pend[i] # None THEN pend[i] ELSE flash[i]]
    /\ pend' = Nothing

(* The commit returns ESK8_OK to its caller.                               *)
Ack ==
    /\ acked' = [i \in Settings |-> IF i \in job.saves THEN val[i] ELSE acked[i]]
    /\ later' = [i \in Settings |-> IF i \in job.saves THEN {} ELSE later[i]]

Written == job.call # "none" /\ job.todo = <<>> /\ panic = "no"

CommitEnds ==
    /\ Written /\ job.call = "commit"
    /\ Flush /\ Ack
    /\ clean' = clean \cup job.saves
    /\ job' = NoJob
    /\ UNCHANGED <<handle, mem, val, ctx, panic, registered, tried>>

-----------------------------------------------------------------------------
(* esk8_auth_init, when esk8_nvs_init has returned ESK8_OK.  (A slip: the  *)
(* setting is copied although there is none.)                              *)
HashNowCopied == val["AUTH_HASH"]
HashNow == IF val["AUTH_HASH"] = None THEN Zero ELSE val["AUTH_HASH"]

AuthInit(c) ==
    /\ Idle /\ handle = "open" /\ ctx[c] = None
    /\ ctx' = [ctx EXCEPT ![c] = [hash |-> HashNow, since |-> "yes"]]
    /\ UNCHANGED <<nvs_vars, job, panic, hist_vars>>

(* The digest has no memory: the caller's handle, which app_conn_add does  *)
(* not set, is released; whether it is NULL is undefined.                  *)
AuthInitFails ==
    /\ Idle /\ handle = "open"
    /\ panic' \in {"no", "yes"}
    /\ UNCHANGED <<nvs_vars, ctx, job, hist_vars>>

AuthDeinit(c) ==
    /\ Idle /\ ctx[c] # None
    /\ ctx' = [ctx EXCEPT ![c] = None]
    /\ UNCHANGED <<nvs_vars, job, panic, hist_vars>>

(* esk8_auth_auth returns ESK8_OK.                                         *)
Accepts(c, k) == ctx[c] # None /\ ctx[c].hash = Digest(k)

(* esk8_auth_register stores the digest and commits it.                    *)
Register(c, k) ==
    /\ Idle /\ ctx[c] # None
    /\ ctx' = [ctx EXCEPT ![c].hash = Digest(k)]
    /\ SetTo("AUTH_HASH", Digest(k))
    /\ job' = [call |-> "register", todo |-> <<"AUTH_HASH">>,
               saves |-> {"AUTH_HASH"}, ctx |-> c, key |-> k]
    /\ tried' = tried \cup {k}
    /\ UNCHANGED <<handle, mem, flash, pend, acked, later, registered>>

(* Then it stores the count 0, but under the same index, in the union that *)
(* still holds the digest, and commits again.                              *)
ResetVal(k) == Torn(k)

RegisterHalf ==
    /\ Written /\ job.call = "register"
    /\ Flush /\ Ack
    /\ val' = [val EXCEPT !["AUTH_HASH"] = ResetVal(job.key)]
    /\ job' = [job EXCEPT !.call = "reset", !.todo = <<"AUTH_HASH">>]
    /\ UNCHANGED <<handle, mem, ctx, panic, clean, registered, tried>>

RegisterEnds ==
    /\ Written /\ job.call = "reset"
    /\ Flush /\ Ack
    /\ clean' = clean \cup {"AUTH_HASH"}
    /\ registered' = job.key /\ tried' = {}
    /\ ctx' = [c \in Ctxs |->
                 IF ctx[c] = None THEN None
                 ELSE [ctx[c] EXCEPT !.since = IF c = job.ctx THEN "yes" ELSE "no"]]
    /\ job' = NoJob
    /\ UNCHANGED <<handle, mem, val, panic>>

-----------------------------------------------------------------------------
(* The chip restarts, after a panic or at any time.                        *)
Crash ==
    /\ handle' = "closed" /\ mem' = "null" /\ val' = Nothing
    /\ \E kept \in SUBSET {i \in Settings : pend[i] # None} :
          flash' = [i \in Settings |-> IF i \in kept THEN pend[i] ELSE flash[i]]
    /\ pend' = Nothing
    /\ ctx' = [c \in Ctxs |-> None] /\ job' = NoJob /\ panic' = "no"
    /\ clean' = {}
    /\ UNCHANGED <<acked, later, registered, tried>>

Next ==
    \/ Erase \/ Load \/ LoadOom
    \/ \E i \in Callers : Set(i)
    \/ \E i \in Settings : Commit(<<i>>)
    \/ Commit(List)
    \/ Write \/ WriteFails \/ CommitEnds
    \/ \E c \in Ctxs : AuthInit(c) \/ AuthDeinit(c)
    \/ AuthInitFails
    \/ \E c \in Ctxs, k \in Keys : Register(c, k)
    \/ RegisterHalf \/ RegisterEnds
    \/ Crash

Spec == Init /\ [][Next]_vars

-----------------------------------------------------------------------------
(* What a commit returned ESK8_OK for is in the flash, or something newer  *)
(* that was written after it, whatever fails and whenever the chip         *)
(* restarts.                                                               *)
Durable == \A i \in Settings : flash[i] \in {acked[i]} \cup later[i]

(* A setting that was loaded or committed and not set since is in memory   *)
(* as it is in the flash.                                                  *)
MemoryIsFlash ==
    job = NoJob => \A i \in clean : val[i] = flash[i]

(* Once a key is registered, contexts opened afterwards, in this life or a *)
(* later one, accept no key that was registered before: only that key, or  *)
(* one whose registration was begun later and cut short.                   *)
KeyRetired ==
    \A c \in Ctxs : \A k \in Keys :
       Accepts(c, k) /\ ctx[c].since = "yes" /\ registered # None =>
          k = registered \/ k \in tried

(* The inductive invariants behind them.  A commit that has written all it *)
(* has to has written what is in memory; what is written is newer than     *)
(* what was acknowledged.                                                  *)
InTodo(i) == \E k \in DOMAIN job.todo : job.todo[k] = i
PendNew == \A i \in Settings : pend[i] # None => pend[i] \in later[i]
SavesWritten ==
    \A i \in job.saves : InTodo(i) \/ (pend[i] = val[i] /\ val[i] # None)
Registering == job.call \in {"register", "reset"}
SaveInv ==
    /\ TypeOK /\ Durable /\ PendNew /\ SavesWritten
    /\ Registering => job.saves = {"AUTH_HASH"} /\ job.key \in Keys

(* No copy of the digest, in memory, in the flash or on its way there, is  *)
(* of a retired key; a registration that ends leaves its own only.         *)
Current(v) == \A k \in Keys : v = Digest(k) => k = registered \/ k \in tried
CopiesCurrent ==
    /\ Current(val["AUTH_HASH"]) /\ Current(flash["AUTH_HASH"])
    /\ Current(pend["AUTH_HASH"])
    /\ \A c \in Ctxs :
          ctx[c] # None /\ ctx[c].since = "yes" => Current(ctx[c].hash)
JobCurrent ==
    /\ job.key \in tried /\ job.ctx \in Ctxs
    /\ ctx[job.ctx].hash = Digest(job.key)
    /\ job.call = "reset" => val["AUTH_HASH"] = Torn(job.key)
KeyInv ==
    /\ SaveInv
    /\ registered # None => CopiesCurrent
    /\ Registering => JobCurrent

(* What is written of a setting in memory is what is in memory.  The       *)
(* digest is not as it is in the flash while a registration goes on, and   *)
(* nothing is before the settings have been loaded.                        *)
CleanWritten ==
    \A i \in clean : val[i] = flash[i] /\ pend[i] \in {None, val[i]}
MemInv ==
    /\ SaveInv
    /\ CleanWritten
    /\ Registering => "AUTH_HASH" \notin clean
    /\ handle = "closed" => mem = "null"
    /\ mem = "null" => clean = {} /\ val = Nothing /\ pend = Nothing

(* All that is known of the settings: where digests may be, and when a     *)
(* setting is the same in memory, on its way and in the flash.             *)
SettingsInv == KeyInv /\ MemInv

(* "Registers the new key as the auth key."  A context opened when the     *)
(* last registration returned ESK8_OK accepts its key.                     *)
RegisteredKeyOpens ==
    \A c \in Ctxs :
       /\ registered # None /\ tried = {}
       /\ ctx[c] # None /\ ctx[c].since = "yes" /\ ctx[c].hash # Zero
       => Accepts(c, registered)
=============================================================================
