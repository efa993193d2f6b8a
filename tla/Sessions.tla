------------------------------ MODULE Sessions ------------------------------
(***************************************************************************)
(* Resolution, rotation and end of the sessions of one browser, in one     *)
(* process: a session is looked up in the turbo context, the negative      *)
(* cache, the memory cache, the session store, the shared cache (with      *)
(* Redis behind it) and at last the database, with awaits between them.    *)
(* Idle timeout and the cap on sessions are off, as by default, and the    *)
(* device policy is single-per-device.                                     *)
(***************************************************************************)
EXTENDS FiniteSets, Naturals

CONSTANTS
    Requests,       \* requests of the browser that can be under way
    Sessions,       \* session ids that are ever handed out
    NoSession,      \* no cookie
    MaxFailures,    \* bound: calls of the database or the limiter that fail
    MaxLapses       \* bound: times that entries or rows expire

ASSUME NoSessionAssumption == NoSession \notin Sessions
ASSUME BoundsAssumption == MaxFailures \in Nat /\ MaxLapses \in Nat

VARIABLES
    overlap,    \* whether requests overlap in this behaviour
    unused,     \* ids that are not handed out yet
    live,       \* rows of the session table that validate
    turbo,      \* turboAuthCache
    negative,   \* negativeSessionCache
    memory,     \* sessionCache
    store,      \* default SessionStore
    shared,     \* `session:' entries of the cache service
    buffered,   \* those whose write to Redis is still in the batch
    deleting,   \* deletions from shared that nobody awaits
    cooling,    \* lastRefreshAttempt, within the last minute
    rotated,    \* lastRotationAttempt, within the interval
    inflight,   \* inflightSessionChecks
    cookie,     \* the session of the browser
    req,        \* what a request is doing
    failures, lapses,
    ended,      \* history: sessions that were ended and invalidated here
    overtaken,  \* history: those that something was still under way for
    signedOut   \* history: the browser logged out, its session expired, or the
                \* limiter threw

layers == <<turbo, negative, memory, store, shared, buffered, deleting>>
timers == <<cooling, rotated>>
history == <<ended, overtaken, signedOut>>
vars == <<overlap, unused, live, layers, timers, inflight, cookie, req, failures,
          lapses, history>>

Places == {"idle", "shared", "decide", "joined", "validate",
           "validated", "answered", "create", "created", "end",
           "forget", "respond"}
Outcomes == {"none", "ok", "invalid", "transient", "found", "missing"}

Doing == [at : Places, sid : Sessions \cup {NoSession}, out : Outcomes,
          new : Sessions \cup {NoSession}, victims : SUBSET Sessions,
          victim : Sessions \cup {NoSession}]

Idle == [at |-> "idle", sid |-> NoSession, out |-> "none", new |-> NoSession,
         victims |-> {}, victim |-> NoSession]

Init ==
    \E s \in Sessions :
        /\ unused = Sessions \ {s}
        /\ live = {s} /\ cookie = s
        /\ turbo = {} /\ negative = {} /\ memory = {}
        /\ store = {} /\ shared \in {{}, {s}}
        /\ buffered = {} /\ deleting = {}
        /\ cooling = {} /\ rotated = {} /\ inflight = {}
        /\ req = [r \in Requests |-> Idle]
        /\ failures = 0 /\ lapses = 0
        /\ ended = {} /\ overtaken = {}
        /\ overlap \in BOOLEAN /\ signedOut = FALSE

-----------------------------------------------------------------------------
At(r, place) == req[r].at = place
Sid(r) == req[r].sid
Goto(r, place) == req' = [req EXCEPT ![r].at = place]
Answer(r, out) == req' = [req EXCEPT ![r].at = "answered", ![r].out = out]

MayFail ==
    /\ failures < MaxFailures
    /\ failures' = failures + 1

-----------------------------------------------------------------------------
(* getUserFromSession.                                                     *)

\* What the layers of the process know; the default store is one of them,
\* although it is awaited.
Known ==
    CASE cookie \in turbo -> "ok"
      [] cookie \in negative \ turbo -> "invalid"
      [] cookie \in (memory \cup store) \ (negative \cup turbo) -> "ok"
      [] OTHER -> "none"

\* A request arrives with the cookie.  What the store has, memory gets.
Begin(r) ==
    /\ At(r, "idle") /\ cookie # NoSession
    /\ overlap \/ \A q \in Requests : At(q, "idle")
    /\ req' = [req EXCEPT ![r] =
            [Idle EXCEPT !.at = IF Known = "none" THEN "shared" ELSE "answered",
                         !.sid = cookie, !.out = Known]]
    /\ memory' = IF cookie \in store \ (turbo \cup negative)
                    THEN memory \cup {cookie} ELSE memory
    /\ overtaken' = overtaken \cup ({cookie} \cap deleting)
    /\ UNCHANGED <<overlap, unused, live, turbo, negative, store, shared, buffered,
                   deleting, timers, inflight, cookie, lapses, failures,
                   ended, signedOut>>

\* cacheService.get: what it finds is used after an await.
LookInShared(r) ==
    /\ At(r, "shared")
    /\ req' = [req EXCEPT ![r].at = "decide",
                          ![r].out = IF Sid(r) \in shared THEN "found" ELSE "missing"]
    /\ UNCHANGED <<overlap, unused, live, layers, timers, inflight, cookie, lapses, failures, history>>

\* Found; or a validation under way is joined; or one that was tried within
\* the last minute is not tried again; or the session is validated.
Decide(r) ==
    /\ At(r, "decide")
    /\ CASE req[r].out = "found" ->
              /\ memory' = memory \cup {Sid(r)}
              /\ Answer(r, "ok")
              /\ UNCHANGED <<cooling, inflight>>
         [] req[r].out = "missing" /\ Sid(r) \in inflight ->
              /\ Goto(r, "joined")
              /\ UNCHANGED <<memory, cooling, inflight>>
         [] req[r].out = "missing" /\ Sid(r) \in cooling \ inflight ->
              /\ Answer(r, "transient")
              /\ UNCHANGED <<memory, cooling, inflight>>
         [] OTHER ->
              /\ Goto(r, "validate")
              /\ cooling' = cooling \cup {Sid(r)}
              /\ inflight' = inflight \cup {Sid(r)}
              /\ UNCHANGED memory
    /\ UNCHANGED <<overlap, unused, live, turbo, negative, store, shared, buffered,
                   deleting, rotated, cookie, lapses, failures, history>>

\* dbAdapter.auth.validateSession: the row, at the time of the query.
Query(r) ==
    /\ At(r, "validate")
    /\ \/ /\ req' = [req EXCEPT ![r].at = "validated",
                       ![r].out = IF Sid(r) \in live THEN "found" ELSE "missing"]
          /\ UNCHANGED failures
       \/ /\ MayFail
          /\ req' = [req EXCEPT ![r].at = "validated", ![r].out = "transient"]
    /\ UNCHANGED <<overlap, unused, live, layers, timers, inflight, cookie, lapses, history>>

\* Defects: a failed lookup denies the session; the entry of the map stays.
ResolvedFailureDenies(r) == IF req[r].out = "found" THEN "ok" ELSE "invalid"

Resolved(r) ==
    CASE req[r].out = "found"   -> "ok"
      [] req[r].out = "missing" -> "invalid"
      [] OTHER                  -> "transient"

SettledStill(s) == inflight

Settled(s) == inflight \ {s}

\* The outcome is cached, positively or negatively, or the cooldown dropped;
\* and whoever joined is given it.
Validated(r) ==
    /\ At(r, "validated")
    /\ LET s == Sid(r)
           o == Resolved(r)
       IN  /\ memory' = IF o = "ok" THEN memory \cup {s} ELSE memory
           /\ shared' = IF o = "ok" THEN shared \cup {s} ELSE shared
           /\ buffered' = IF o = "ok" THEN buffered \cup {s} ELSE buffered
           /\ negative' = IF o = "invalid" THEN negative \cup {s} ELSE negative
           /\ cooling' = IF o = "transient" THEN cooling \ {s} ELSE cooling
           /\ inflight' = Settled(s)
           /\ req' = [q \in Requests |->
                 IF q = r \/ (At(q, "joined") /\ Sid(q) = s)
                   THEN [req[q] EXCEPT !.at = "answered", !.out = o] ELSE req[q]]
    /\ UNCHANGED <<overlap, unused, live, turbo, store, deleting, rotated, cookie, lapses,
                   failures, history>>

-----------------------------------------------------------------------------
(* handleAuthentication with the outcome, and handleSessionRotation.       *)

\* A resolved session goes into the turbo context, and is rotated unless that
\* was done lately or the limiter says no; the request may be the logout.  An
\* invalid one costs the browser its cookie; a transient failure does not.
Continue(r) ==
    /\ At(r, "answered")
    /\ CASE req[r].out = "ok" ->
              /\ turbo' = turbo \cup {Sid(r)}
              /\ \/ Sid(r) \notin rotated /\ Goto(r, "create") /\ UNCHANGED signedOut
                 \/ req' = [req EXCEPT ![r] = Idle] /\ UNCHANGED signedOut
                 \/ Goto(r, "end") /\ signedOut' = TRUE
         [] req[r].out = "invalid" ->
              /\ Goto(r, "respond")
              /\ UNCHANGED <<turbo, signedOut>>
         [] OTHER ->
              /\ req' = [req EXCEPT ![r] = Idle]
              /\ UNCHANGED <<turbo, signedOut>>
    /\ UNCHANGED <<overlap, unused, live, negative, memory, store, shared, buffered,
                   deleting, timers, inflight, cookie, lapses, failures, ended,
                   overtaken>>

\* The limiter throws: the request is served, and the browser loses its cookie.
LimiterThrows(r) ==
    /\ At(r, "answered") /\ req[r].out = "ok" /\ Sid(r) \notin rotated
    /\ MayFail
    /\ turbo' = turbo \cup {Sid(r)}
    /\ Goto(r, "respond")
    /\ signedOut' = TRUE
    /\ UNCHANGED <<overlap, unused, live, negative, memory, store, shared, buffered,
                   deleting, timers, inflight, cookie, lapses, ended, overtaken>>

\* createSession: the row, ...
Create(r) ==
    /\ At(r, "create")
    /\ \E s \in unused :
        /\ unused' = unused \ {s}
        /\ live' = live \cup {s}
        /\ req' = [req EXCEPT ![r].at = "created", ![r].new = s]
    /\ UNCHANGED <<overlap, layers, timers, inflight, cookie, lapses, failures, history>>

\* It throws, before the row is there or when the user is read after it; the
\* rotation is given up and the request goes on.
CreateFails(r) ==
    /\ At(r, "create")
    /\ \/ /\ MayFail \/ (unused = {} /\ UNCHANGED failures)
          /\ UNCHANGED <<unused, live>>
       \/ /\ MayFail
          /\ \E s \in unused : unused' = unused \ {s} /\ live' = live \cup {s}
    /\ req' = [req EXCEPT ![r] = Idle]
    /\ UNCHANGED <<overlap, layers, timers, inflight, cookie, lapses, history>>

\* Defect: the new session is one of the device's sessions.
OthersAll(r) == live

Others(r) == live \ {req[r].new}

\* ... then, with the user read, the session store; and
\* evictSameDeviceSessions lists the sessions of the device that are active
\* now, or none where the rows do not tell the device.
StoreNew(r) ==
    /\ At(r, "created")
    /\ store' = store \cup {req[r].new}
    /\ \E victims \in {{}, Others(r)} :
            req' = [req EXCEPT ![r].at = "end", ![r].victims = victims]
    /\ UNCHANGED <<overlap, unused, live, turbo, negative, memory, shared, buffered,
                   deleting, timers, inflight, cookie, lapses, failures, history>>

-----------------------------------------------------------------------------
(* The end of a session: evicted, rotated or logged out.                   *)

\* Evictions come first, one after the other, then the session itself.
Victims(r) == IF req[r].victims = {} THEN {Sid(r)} ELSE req[r].victims

\* deleteSession; that it failed is not looked at.
EndRow(r) ==
    /\ At(r, "end")
    /\ \E s \in Victims(r) :
            req' = [req EXCEPT ![r].at = "forget", ![r].victim = s]
    /\ \/ live' = live \ {req'[r].victim} /\ UNCHANGED failures
       \/ UNCHANGED live /\ MayFail
    /\ UNCHANGED <<overlap, unused, layers, timers, inflight, cookie, lapses, history>>

\* Defect: the turbo context is left.
TurboWithoutNot(s) == turbo

TurboWithout(s) == turbo \ {s}

IsLogout(r) == req[r].new = NoSession
IsLast(r) == req[r].victims = {}

\* Defect: what is cached is not looked at.
NewForAny(r) == IF IsLast(r) THEN {req[r].new} ELSE {}

NewFor(r) == IF IsLast(r) /\ ~IsLogout(r) THEN {req[r].new} ELSE {}

\* What is under way for a session: a request that resolves it or has just
\* created it, or a write that is still in the batch.
UnderWay(r, s) ==
    \/ s \in buffered \cup deleting
    \/ \E q \in Requests \ {r} : s \in {Sid(q), req[q].new}

\* invalidateSessionCache, and the store, awaited or not.  A rotation then
\* caches the new session.
Forget(r) ==
    /\ At(r, "forget")
    /\ LET s == req[r].victim
       IN  /\ store' = store \ {s}
           /\ memory' = (memory \ {s}) \cup NewFor(r)
           /\ rotated' = (rotated \ {s}) \cup NewFor(r)
           /\ cooling' = cooling \ {s}
           /\ negative' = negative \ {s}
           /\ turbo' = TurboWithout(s)
           /\ deleting' = deleting \cup {s}
           /\ ended' = ended \cup ({s} \ live)
           /\ overtaken' = IF UnderWay(r, s) THEN overtaken \cup {s} ELSE overtaken
           /\ req' = [req EXCEPT ![r].at = IF IsLast(r) THEN "respond" ELSE "end",
                                 ![r].victims = @ \ {s}]
    /\ UNCHANGED <<overlap, unused, live, shared, buffered, inflight, cookie, lapses, failures,
                   signedOut>>

\* The deletion from Redis that nobody awaits.
FinishDelete(s) ==
    /\ s \in deleting
    /\ deleting' = deleting \ {s}
    /\ shared' = shared \ {s}
    /\ UNCHANGED <<overlap, unused, live, turbo, negative, memory, store, buffered, timers,
                   inflight, cookie, lapses, req, failures, history>>

\* RedisWriteBatcher: the write of the entry reaches Redis, whatever was
\* deleted meanwhile.
FlushEntry(s) ==
    /\ s \in buffered
    /\ buffered' = buffered \ {s}
    /\ shared' = shared \cup {s}
    /\ UNCHANGED <<overlap, unused, live, turbo, negative, memory, store, deleting,
                   timers, inflight, cookie, lapses, req, failures, history>>

\* The response reaches the browser, with the cookie that it sets or clears.
Respond(r) ==
    /\ At(r, "respond")
    /\ cookie' = req[r].new
    /\ req' = [req EXCEPT ![r] = Idle]
    /\ UNCHANGED <<overlap, unused, live, layers, timers, inflight, lapses, failures,
                   history>>

-----------------------------------------------------------------------------
(* Time.                                                                   *)

Without(layer, s) == s \in layer /\ layer' = layer \ {s}

MayLapse ==
    /\ lapses < MaxLapses
    /\ lapses' = lapses + 1

Gone(s, layer, passed) == layer \ {x \in {s} : passed}

\* A minute passes, then the interval of the rotation, then a day: what lasts
\* shorter is gone with what lasts longer.
Lapse(s) ==
    /\ MayLapse
    /\ turbo' = turbo \ {s}
    /\ negative' = negative \ {s}
    /\ \E interval \in BOOLEAN, day \in BOOLEAN :
        /\ day => interval
        /\ rotated' = Gone(s, rotated, interval)
        /\ memory' = Gone(s, memory, day)
        /\ store' = Gone(s, store, day)
        /\ shared' = Gone(s, shared, day)
    /\ UNCHANGED <<overlap, unused, live, buffered, deleting, cooling, inflight, cookie,
                   req, failures, history>>

\* A minute has passed since the last validation.
CoolDown(s) ==
    /\ Without(cooling, s)
    /\ UNCHANGED <<overlap, unused, live, layers, rotated, inflight, cookie, lapses, req,
                   failures, history>>

\* The row of the session is past its time.
Expire(s) ==
    /\ MayLapse
    /\ Without(live, s)
    /\ signedOut' = TRUE
    /\ UNCHANGED <<overlap, unused, layers, timers, inflight, cookie, req, failures,
                   ended, overtaken>>

-----------------------------------------------------------------------------
Resolve(r) ==
    \/ LookInShared(r) \/ Decide(r) \/ Query(r)
    \/ Validated(r) \/ Continue(r) \/ LimiterThrows(r)

Rotate(r) == Create(r) \/ CreateFails(r) \/ StoreNew(r)

End(r) == EndRow(r) \/ Forget(r) \/ Respond(r)

Serve(r) == Resolve(r) \/ Rotate(r) \/ End(r)

Next ==
    \/ \E r \in Requests : Begin(r) \/ Serve(r)
    \/ \E s \in Sessions :
        \/ FinishDelete(s) \/ FlushEntry(s)
        \/ Lapse(s) \/ CoolDown(s) \/ Expire(s)

\* A browser that goes on asking is served, and minutes pass.
Fairness ==
    /\ \A r \in Requests : WF_vars(Begin(r)) /\ WF_vars(Serve(r))
    /\ \A s \in Sessions : WF_vars(CoolDown(s))

Spec == Init /\ [][Next]_vars /\ Fairness

-----------------------------------------------------------------------------
\* Types of the layers, the requests and the browser's cookie.
TypeOK ==
    /\ unused \subseteq Sessions /\ live \subseteq Sessions
    /\ turbo \subseteq Sessions /\ negative \subseteq Sessions /\ memory \subseteq Sessions
    /\ store \subseteq Sessions /\ shared \subseteq Sessions
    /\ buffered \subseteq Sessions /\ deleting \subseteq Sessions
    /\ cooling \subseteq Sessions /\ rotated \subseteq Sessions
    /\ inflight \subseteq Sessions
    /\ ended \subseteq Sessions /\ overtaken \subseteq Sessions
    /\ cookie \in Sessions \cup {NoSession}
    /\ req \in [Requests -> Doing]
    /\ failures \in 0 .. MaxFailures
    /\ lapses \in 0 .. MaxLapses
    /\ overlap \in BOOLEAN /\ signedOut \in BOOLEAN

\* "Deterministic zero-false-positive semantics", and a transient failure is
\* never an answer: a session is only called invalid, now or for the next
\* minute, when its row is gone.
InvalidIsOver ==
    /\ negative \cap live = {}
    /\ \A r \in Requests :
        At(r, "answered") /\ req[r].out = "invalid" => Sid(r) \notin live

\* Every layer forgets a session that was ended in this process: it is still
\* known to one of them only when a request, a buffered write or a deletion
\* was under way for it.
EndedIsForgotten ==
    \A s \in ended \ (overtaken \cup deleting) :
        s \notin turbo \cup memory \cup store \cup shared

\* Rotation, failures of the database, cooldowns and entries that lapse never
\* cost a browser its session, as long as its requests do not overlap and it
\* neither logs out nor lets its session expire, nor the limiter of the rotation
\* throws: then its cookie is cleared.
StaysSignedIn ==
    ~overlap /\ ~signedOut =>
        \/ cookie \in live
        \/ \E r \in Requests : req[r].new \in live

\* A browser whose session lives and that goes on asking is recognised, time
\* and again: neither cooldown nor negative entry nor the single flight keeps
\* it out for good.
LiveIsRecognised ==
    \A s \in Sessions : []<>(s \in memory \cup turbo \/ s \notin live \/ cookie # s)

=============================================================================
