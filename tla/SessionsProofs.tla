---------------------------- MODULE SessionsProofs ----------------------------
(***************************************************************************)
(* Proofs about Sessions, for any number of requests, sessions, failures   *)
(* and expiries.  They rest on a session id being handed out once: what    *)
(* has been ended, denied or evicted is never a session created later.     *)
(***************************************************************************)
EXTENDS Sessions, TLAPS

\* What is still to be handed out is known to no layer, row or request.
Fresh ==
    /\ live \cap unused = {} /\ negative \cap unused = {} /\ ended \cap unused = {}
    /\ cookie \notin unused
    /\ \A r \in Requests :
          /\ req[r].sid \notin unused /\ req[r].new \notin unused
          /\ req[r].victim \notin unused /\ req[r].victims \cap unused = {}

\* A rotation does not end the session it has created.
Apart ==
    \A r \in Requests :
        /\ ~At(r, "idle") => Sid(r) \in Sessions /\ req[r].new # Sid(r)
        /\ At(r, "created") => req[r].new \in Sessions
        /\ req[r].new \notin req[r].victims
        /\ At(r, "forget") => req[r].victim \in Victims(r)

\* A row that was not found is not there later either.
Looked ==
    \A r \in Requests : At(r, "validated") /\ req[r].out = "missing" => Sid(r) \notin live

\* A request for a session that was ended here does not find it.
Fading(r) ==
    \/ At(r, "shared") /\ Sid(r) \notin deleting
    \/ At(r, "decide") /\ req[r].out = "missing"
    \/ req[r].at \in {"idle", "joined", "validate", "end", "forget", "respond"}
    \/ At(r, "validated") /\ req[r].out \in {"missing", "transient"}
    \/ At(r, "answered") /\ req[r].out \in {"invalid", "transient"}

Forgotten ==
    \A s \in ended \ overtaken :
        /\ s \notin live \cup turbo \cup memory \cup store \cup buffered
        /\ s \in shared => s \in deleting
        /\ \A r \in Requests : req[r].new # s /\ (Sid(r) = s => Fading(r))

\* The request is about to give the browser another cookie.
Late(r) == req[r].at \in {"end", "forget", "respond"}

SignedIn ==
    ~overlap =>
        /\ \A q, r \in Requests : q = r \/ At(q, "idle") \/ At(r, "idle")
        /\ \A r \in Requests : At(r, "idle") \/ Sid(r) = cookie
        /\ ~signedOut =>
            /\ \A r \in Requests : At(r, "created") \/ Late(r) => req[r].new \in live
            /\ (\A r \in Requests : ~Late(r)) => cookie \in live

SessionInv ==
    /\ TypeOK /\ Fresh /\ Apart
    /\ InvalidIsOver /\ Looked
    /\ Forgotten /\ SignedIn

USE NoSessionAssumption, BoundsAssumption
USE DEF Places, Outcomes, At, Sid, layers, timers, history

-----------------------------------------------------------------------------
(* Types.                                                                  *)

LEMMA IdleType == Idle \in Doing
BY DEF Idle, Doing

\* The fields of what a request is doing.
LEMMA DoingFields ==
  ASSUME TypeOK, NEW r \in Requests
  PROVE  /\ req[r] \in Doing /\ req[r].at \in Places /\ req[r].out \in Outcomes
         /\ req[r].sid \in Sessions \cup {NoSession} /\ req[r].new \in Sessions \cup {NoSession}
         /\ req[r].victims \in SUBSET Sessions /\ req[r].victim \in Sessions \cup {NoSession}
BY DEF TypeOK, Doing

LEMMA InitInv == Init => SessionInv
<1> SUFFICES ASSUME NEW s \in Sessions,
        /\ unused = Sessions \ {s} /\ live = {s} /\ cookie = s
        /\ turbo = {} /\ negative = {} /\ memory = {} /\ store = {} /\ shared \in {{}, {s}}
        /\ buffered = {} /\ deleting = {} /\ cooling = {} /\ rotated = {} /\ inflight = {}
        /\ req = [r \in Requests |-> Idle]
        /\ failures = 0 /\ lapses = 0 /\ ended = {} /\ overtaken = {}
        /\ overlap \in BOOLEAN /\ signedOut = FALSE
             PROVE  SessionInv
  BY DEF Init
<1>1. \A r \in Requests : req[r] = Idle
  OBVIOUS
<1>2. TypeOK
  <2>1. req \in [Requests -> Doing]
    BY IdleType
  <2>2. 0 \in 0 .. MaxFailures /\ 0 \in 0 .. MaxLapses
    OBVIOUS
  <2>3. shared \subseteq Sessions /\ cookie \in Sessions \cup {NoSession}
    OBVIOUS
  <2> QED
    BY <2>1, <2>2, <2>3 DEF TypeOK
<1>3. /\ Idle.at = "idle" /\ Idle.sid = NoSession /\ Idle.new = NoSession
      /\ Idle.victims = {} /\ Idle.victim = NoSession /\ Idle.out = "none"
  BY DEF Idle
<1>4. Fresh /\ Apart
  BY <1>1, <1>3 DEF Fresh, Apart
<1>5. InvalidIsOver /\ Looked /\ Forgotten
  BY <1>1, <1>3 DEF InvalidIsOver, Looked, Forgotten
<1>6. SignedIn
  BY <1>1, <1>3 DEF SignedIn, Late
<1> QED
  BY <1>2, <1>4, <1>5, <1>6 DEF SessionInv

\* A step of one request.
Moves(r, t) == t \in Doing /\ req' = [req EXCEPT ![r] = t]

LEMMA Moved ==
  ASSUME TypeOK, NEW r \in Requests, NEW t, Moves(r, t)
  PROVE  /\ req' \in [Requests -> Doing] /\ req'[r] = t
         /\ \A q \in Requests \ {r} : req'[q] = req[q]
BY DEF TypeOK, Moves

-----------------------------------------------------------------------------
(* Resolution.                                                             *)

\* What the layers of the process say of the cookie, they have it from somewhere.
LEMMA KnownFrom ==
  /\ Known \in {"ok", "invalid", "none"}
  /\ Known = "ok" => cookie \in turbo \cup memory \cup store
  /\ Known = "invalid" => cookie \in negative
BY DEF Known

LEMMA BeginInv ==
  ASSUME SessionInv, NEW r \in Requests, Begin(r)
  PROVE  SessionInv'
<1> USE DEF SessionInv
<1>1. PICK t \in Doing :
        /\ Moves(r, t) /\ t.sid = cookie /\ t.new = NoSession /\ t.victims = {}
        /\ t.victim = NoSession
        /\ \/ t.at = "shared" /\ t.out = "none"
           \/ t.at = "answered" /\ t.out \in {"ok", "invalid"} /\ t.out = Known
  <2> DEFINE t == [Idle EXCEPT !.at = IF Known = "none" THEN "shared" ELSE "answered",
                               !.sid = cookie, !.out = Known]
  <2>1. /\ t \in Doing /\ t.sid = cookie /\ t.new = NoSession /\ t.victims = {}
        /\ t.victim = NoSession /\ t.out = Known
        /\ t.at = IF Known = "none" THEN "shared" ELSE "answered"
    BY KnownFrom DEF Idle, Doing, TypeOK
  <2>2. req' = [req EXCEPT ![r] = t]
    BY DEF Begin
  <2> HIDE DEF t
  <2> QED
    BY <2>1, <2>2, KnownFrom DEF Moves
<1>2. /\ req' \in [Requests -> Doing] /\ req'[r] = t
      /\ \A q \in Requests \ {r} : req'[q] = req[q]
  BY <1>1, Moved
<1>3. /\ At(r, "idle") /\ cookie \in Sessions
      /\ overlap \/ \A q \in Requests : At(q, "idle")
      /\ UNCHANGED <<overlap, unused, live, turbo, negative, store, shared, buffered,
                     deleting, timers, inflight, cookie, lapses, failures, ended, signedOut>>
      /\ memory' \subseteq memory \cup store
      /\ overtaken' = overtaken \cup ({cookie} \cap deleting)
  BY DEF Begin, TypeOK
<1>4. TypeOK'
  BY <1>2, <1>3 DEF TypeOK
<1>5. Fresh'
  BY <1>1, <1>2, <1>3 DEF Fresh, TypeOK
<1>6. Apart'
  BY <1>1, <1>2, <1>3 DEF Apart, Victims
<1>7. InvalidIsOver' /\ Looked'
  BY <1>1, <1>2, <1>3, KnownFrom DEF InvalidIsOver, Looked
<1>8. Forgotten'
  <2> SUFFICES ASSUME NEW s \in ended \ overtaken, s # cookie \/ s \notin deleting
               PROVE  /\ s \notin live \cup turbo \cup memory' \cup store \cup buffered
                      /\ s \in shared => s \in deleting
                      /\ \A q \in Requests : req'[q].new # s /\ (Sid(q)' = s => Fading(q)')
    BY <1>3 DEF Forgotten
  <2>1. /\ s \notin live \cup turbo \cup memory \cup memory' \cup store \cup buffered
        /\ s \in shared => s \in deleting
    BY <1>3 DEF Forgotten
  <2>2. \A q \in Requests \ {r} : req'[q].new # s /\ (Sid(q)' = s => Fading(q)')
    BY <1>2, <1>3 DEF Forgotten, Fading
  <2>3. req'[r].new # s
    BY <1>1, <1>2 DEF TypeOK
  <2>4. Sid(r)' = s => Fading(r)'
    BY <1>1, <1>2, <1>3, <2>1, KnownFrom DEF Fading
  <2> QED
    BY <2>1, <2>2, <2>3, <2>4
<1>9. SignedIn'
  BY <1>1, <1>2, <1>3 DEF SignedIn, Late
<1> QED
  BY <1>4, <1>5, <1>6, <1>7, <1>8, <1>9

\* A request that goes to another place does nothing else.
LEMMA Going ==
  ASSUME TypeOK, NEW r \in Requests, NEW p \in Places, Goto(r, p)
  PROVE  \E t \in Doing : /\ Moves(r, t) /\ t.at = p /\ t.sid = Sid(r) /\ t.out = req[r].out
                          /\ t.new = req[r].new /\ t.victims = req[r].victims
                          /\ t.victim = req[r].victim
<1>1. PICK d \in Doing : d = req[r]
  BY DoingFields
<1> DEFINE t == [d EXCEPT !.at = p]
<1>2. /\ t \in Doing /\ t.at = p /\ t.sid = d.sid /\ t.out = d.out /\ t.new = d.new
      /\ t.victims = d.victims /\ t.victim = d.victim
  BY DEF Doing
<1>3. req' = [req EXCEPT ![r] = t]
  BY <1>1 DEF Goto
<1> HIDE DEF t
<1> QED
  BY <1>1, <1>2, <1>3 DEF Moves

\* A request that goes on with its session, and learns nothing wrong of it.
LEMMA GoesOn ==
  ASSUME SessionInv, NEW r \in Requests, ~At(r, "idle"), NEW t, Moves(r, t),
         t.sid = Sid(r), t.new = req[r].new, t.victims = req[r].victims,
         t.victim = req[r].victim, t.at \notin {"created", "forget"},
         UNCHANGED <<unused, live, negative, store, shared, buffered, deleting, cookie,
                     ended, overtaken>>,
         turbo' \cup memory' \subseteq turbo \cup memory \cup {Sid(r)},
         Sid(r) \in ended \ overtaken => turbo' \cup memory' \subseteq turbo \cup memory,
         t.at = "answered" /\ t.out = "invalid" => Sid(r) \notin live,
         t.at = "validated" /\ t.out = "missing" => Sid(r) \notin live,
         Sid(r) \in ended \ overtaken => Fading(r)'
  PROVE  Fresh' /\ Apart' /\ InvalidIsOver' /\ Looked' /\ Forgotten'
<1> USE DEF SessionInv
<1>1. /\ req'[r] = t
      /\ \A q \in Requests \ {r} : req'[q] = req[q]
  BY Moved
<1>2. Fresh'
  BY <1>1 DEF Fresh
<1>3. Apart'
  BY <1>1 DEF Apart, Victims
<1>4. InvalidIsOver' /\ Looked'
  BY <1>1 DEF InvalidIsOver, Looked
<1>5. Forgotten'
  <2> SUFFICES ASSUME NEW s \in ended \ overtaken
               PROVE  /\ s \notin live \cup turbo' \cup memory' \cup store \cup buffered
                      /\ s \in shared => s \in deleting
                      /\ \A q \in Requests : req'[q].new # s /\ (Sid(q)' = s => Fading(q)')
    BY DEF Forgotten
  <2>1. /\ s \notin live \cup turbo \cup memory \cup store \cup buffered
        /\ s \in shared => s \in deleting
        /\ \A q \in Requests : req[q].new # s /\ (Sid(q) = s => Fading(q))
    BY DEF Forgotten
  <2>2. \A q \in Requests \ {r} : req'[q].new # s /\ (Sid(q)' = s => Fading(q)')
    BY <1>1, <2>1 DEF Fading
  <2>3. req'[r].new # s /\ (Sid(r)' = s => Fading(r)')
    BY <1>1, <2>1
  <2>4. s \notin turbo' \cup memory'
    BY <2>1
  <2> QED
    BY <2>1, <2>2, <2>3, <2>4
<1> QED
  BY <1>2, <1>3, <1>4, <1>5

\* The browser keeps its session while the request does not end it.
LEMMA StaysIn ==
  ASSUME SessionInv, NEW r \in Requests, ~At(r, "idle"), ~Late(r), NEW t, Moves(r, t),
         UNCHANGED <<overlap, cookie>>, live \subseteq live',
         t.at = "idle" \/ t.sid = Sid(r), t.at # "created",
         signedOut' = signedOut, t.at \notin {"end", "forget", "respond"}
  PROVE  SignedIn'
<1>1. /\ req'[r] = t
      /\ \A q \in Requests \ {r} : req'[q] = req[q]
  BY Moved DEF SessionInv
<1> QED
  BY <1>1 DEF SessionInv, SignedIn, Late

LEMMA LookInv ==
  ASSUME SessionInv, NEW r \in Requests, LookInShared(r)
  PROVE  SessionInv'
<1>1. PICK t \in Doing :
        /\ Moves(r, t) /\ t.sid = Sid(r) /\ t.new = req[r].new /\ t.victims = req[r].victims
        /\ t.victim = req[r].victim /\ t.at = "decide"
        /\ t.out = IF Sid(r) \in shared THEN "found" ELSE "missing"
  <2>1. req[r] \in Doing
    BY DoingFields DEF SessionInv
  <2>2. PICK o \in Outcomes : o = IF Sid(r) \in shared THEN "found" ELSE "missing"
    OBVIOUS
  <2> DEFINE d == [req[r] EXCEPT !.at = "decide", !.out = o]
  <2>3. /\ d \in Doing /\ d.at = "decide" /\ d.out = o /\ d.sid = req[r].sid
        /\ d.new = req[r].new /\ d.victims = req[r].victims /\ d.victim = req[r].victim
    BY <2>1 DEF Doing
  <2>4. req' = [req EXCEPT ![r] = d]
    BY <2>2 DEF LookInShared
  <2> HIDE DEF d
  <2> QED
    BY <2>2, <2>3, <2>4 DEF Moves
<1>2. /\ At(r, "shared")
      /\ UNCHANGED <<overlap, unused, live, layers, timers, inflight, cookie, lapses,
                     failures, history>>
  BY DEF LookInShared
<1>3. req' \in [Requests -> Doing] /\ req'[r] = t
  BY <1>1, Moved DEF SessionInv
<1>4. TypeOK'
  BY <1>2, <1>3 DEF SessionInv, TypeOK
<1>5. Sid(r) \in ended \ overtaken => Fading(r)'
  BY <1>1, <1>2, <1>3 DEF SessionInv, Forgotten, Fading
<1>6. Fresh' /\ Apart' /\ InvalidIsOver' /\ Looked' /\ Forgotten'
  BY <1>1, <1>2, <1>5, GoesOn
<1>7. SignedIn'
  BY <1>1, <1>2, StaysIn DEF Late
<1> QED
  BY <1>4, <1>6, <1>7 DEF SessionInv

LEMMA DecideInv ==
  ASSUME SessionInv, NEW r \in Requests, Decide(r)
  PROVE  SessionInv'
<1>1. PICK t \in Doing :
        /\ Moves(r, t) /\ t.sid = Sid(r) /\ t.new = req[r].new /\ t.victims = req[r].victims
        /\ t.victim = req[r].victim
        /\ \/ req[r].out = "found" /\ t.at = "answered" /\ t.out = "ok"
           \/ t.at \in {"joined", "validate"}
           \/ t.at = "answered" /\ t.out = "transient"
  <2>1. \/ req[r].out = "found" /\ Answer(r, "ok")
        \/ Goto(r, "joined") \/ Goto(r, "validate") \/ Answer(r, "transient")
    BY DEF Decide
  <2>2. ASSUME NEW o \in Outcomes, Answer(r, o)
        PROVE  \E t \in Doing :
                 /\ Moves(r, t) /\ t.sid = Sid(r) /\ t.new = req[r].new
                 /\ t.victims = req[r].victims /\ t.victim = req[r].victim
                 /\ t.at = "answered" /\ t.out = o
    <3>1. PICK d \in Doing : d = req[r]
      BY DoingFields DEF SessionInv
    <3> DEFINE t == [d EXCEPT !.at = "answered", !.out = o]
    <3>2. /\ t \in Doing /\ t.at = "answered" /\ t.out = o /\ t.sid = d.sid /\ t.new = d.new
          /\ t.victims = d.victims /\ t.victim = d.victim
      BY DEF Doing
    <3>3. req' = [req EXCEPT ![r] = t]
      BY <2>2, <3>1 DEF Answer
    <3> HIDE DEF t
    <3> QED
      BY <3>1, <3>2, <3>3 DEF Moves
  <2>3. ASSUME NEW p \in Places, Goto(r, p)
        PROVE  \E t \in Doing :
                 /\ Moves(r, t) /\ t.sid = Sid(r) /\ t.new = req[r].new
                 /\ t.victims = req[r].victims /\ t.victim = req[r].victim
                 /\ t.at = p
    BY <2>3, Going DEF SessionInv
  <2> QED
    BY <2>1, <2>2, <2>3
<1>2. /\ At(r, "decide")
      /\ memory' = memory \/ (req[r].out = "found" /\ memory' = memory \cup {Sid(r)})
      /\ UNCHANGED <<overlap, unused, live, turbo, negative, store, shared, buffered,
                     deleting, rotated, cookie, lapses, failures, history>>
  BY DEF Decide
<1>3. req' \in [Requests -> Doing] /\ req'[r] = t
  BY <1>1, Moved DEF SessionInv
<1>4. TypeOK'
  <2>1. Sid(r) \in Sessions
    BY <1>2 DEF SessionInv, Apart
  <2>2. cooling' \subseteq Sessions /\ inflight' \subseteq Sessions
    BY <2>1 DEF Decide, SessionInv, TypeOK
  <2> QED
    BY <1>2, <1>3, <2>1, <2>2 DEF SessionInv, TypeOK
<1>5. Sid(r) \in ended \ overtaken => Fading(r)' /\ req[r].out = "missing"
  BY <1>1, <1>2, <1>3 DEF SessionInv, Forgotten, Fading
<1>6. Fresh' /\ Apart' /\ InvalidIsOver' /\ Looked' /\ Forgotten'
  BY <1>1, <1>2, <1>5, GoesOn
<1>7. SignedIn'
  BY <1>1, <1>2, StaysIn DEF Late
<1> QED
  BY <1>4, <1>6, <1>7 DEF SessionInv

LEMMA QueryInv ==
  ASSUME SessionInv, NEW r \in Requests, Query(r)
  PROVE  SessionInv'
<1>1. PICK t \in Doing :
        /\ Moves(r, t) /\ t.sid = Sid(r) /\ t.new = req[r].new /\ t.victims = req[r].victims
        /\ t.victim = req[r].victim /\ t.at = "validated"
        /\ \/ t.out = "found" /\ Sid(r) \in live
           \/ t.out = "missing" /\ Sid(r) \notin live
           \/ t.out = "transient"
  <2>1. req[r] \in Doing
    BY DoingFields DEF SessionInv
  <2>2. PICK o \in Outcomes :
          /\ req' = [req EXCEPT ![r] = [req[r] EXCEPT !.at = "validated", !.out = o]]
          /\ \/ o = "found" /\ Sid(r) \in live
             \/ o = "missing" /\ Sid(r) \notin live
             \/ o = "transient"
    BY DEF Query
  <2> DEFINE d == [req[r] EXCEPT !.at = "validated", !.out = o]
  <2>3. /\ d \in Doing /\ d.at = "validated" /\ d.out = o /\ d.sid = req[r].sid
        /\ d.new = req[r].new /\ d.victims = req[r].victims /\ d.victim = req[r].victim
    BY <2>1 DEF Doing
  <2>4. req' = [req EXCEPT ![r] = d]
    BY <2>2
  <2> HIDE DEF d
  <2> QED
    BY <2>2, <2>3, <2>4 DEF Moves
<1>2. /\ At(r, "validate") /\ failures' \in 0 .. MaxFailures
      /\ UNCHANGED <<overlap, unused, live, layers, timers, inflight, cookie, lapses, history>>
  BY DEF Query, MayFail, SessionInv, TypeOK
<1>3. req' \in [Requests -> Doing] /\ req'[r] = t
  BY <1>1, Moved DEF SessionInv
<1>4. TypeOK'
  BY <1>2, <1>3 DEF SessionInv, TypeOK
<1>5. Sid(r) \in ended \ overtaken => Fading(r)'
  BY <1>1, <1>2, <1>3 DEF SessionInv, Forgotten, Fading
<1>6. Fresh' /\ Apart' /\ InvalidIsOver' /\ Looked' /\ Forgotten'
  BY <1>1, <1>2, <1>5, GoesOn
<1>7. SignedIn'
  BY <1>1, <1>2, StaysIn DEF Late
<1> QED
  BY <1>4, <1>6, <1>7 DEF SessionInv

\* The outcome goes to whoever joined the validation, and to the layers.
LEMMA ValidatedInv ==
  ASSUME SessionInv, NEW r \in Requests, Validated(r)
  PROVE  SessionInv'
<1> USE DEF SessionInv
<1>1. PICK o \in {"ok", "invalid", "transient"} : o = Resolved(r)
  BY DEF Resolved
<1>2. /\ o = "ok" <=> req[r].out = "found"
      /\ o = "invalid" <=> req[r].out = "missing"
  BY <1>1 DEF Resolved
<1>3. /\ At(r, "validated") /\ Sid(r) \in Sessions
      /\ memory' = (IF o = "ok" THEN memory \cup {Sid(r)} ELSE memory)
      /\ shared' = (IF o = "ok" THEN shared \cup {Sid(r)} ELSE shared)
      /\ buffered' = (IF o = "ok" THEN buffered \cup {Sid(r)} ELSE buffered)
      /\ negative' = (IF o = "invalid" THEN negative \cup {Sid(r)} ELSE negative)
      /\ UNCHANGED <<overlap, unused, live, turbo, store, deleting, rotated, cookie, lapses,
                     failures, history>>
  BY <1>1 DEF Validated, Apart
<1>4. cooling' \subseteq cooling /\ inflight' \subseteq inflight
  BY DEF Validated, Settled
<1>5. ASSUME NEW q \in Requests
      PROVE  /\ req'[q] \in Doing /\ req'[q].sid = req[q].sid /\ req'[q].new = req[q].new
             /\ req'[q].victims = req[q].victims /\ req'[q].victim = req[q].victim
             /\ \/ req'[q] = req[q] /\ q # r
                \/ /\ req'[q].at = "answered" /\ req'[q].out = o /\ req[q].sid = Sid(r)
                   /\ req[q].at \in {"validated", "joined"}
  <2>1. req'[q] = IF q = r \/ (At(q, "joined") /\ Sid(q) = Sid(r))
                    THEN [req[q] EXCEPT !.at = "answered", !.out = o] ELSE req[q]
    BY <1>1 DEF Validated
  <2>2. req[q] \in Doing /\ "answered" \in Places /\ o \in Outcomes
    BY DoingFields
  <2> DEFINE t == [req[q] EXCEPT !.at = "answered", !.out = o]
  <2>3. /\ t \in Doing /\ t.at = "answered" /\ t.out = o
        /\ t.sid = req[q].sid /\ t.new = req[q].new
        /\ t.victims = req[q].victims /\ t.victim = req[q].victim
    BY <2>2 DEF Doing
  <2> HIDE DEF t
  <2>4. req'[q] = IF q = r \/ (At(q, "joined") /\ Sid(q) = Sid(r)) THEN t ELSE req[q]
    BY <2>1 DEF t
  <2> QED
    BY <1>3, <2>2, <2>3, <2>4
<1>6. TypeOK'
  <2>1. req' \in [Requests -> Doing]
    <3>1. req' = [q \in Requests |-> req'[q]]
      BY DEF Validated
    <3> QED
      BY <1>5, <3>1
  <2> QED
    BY <1>3, <1>4, <2>1 DEF TypeOK
<1>7. Fresh'
  BY <1>3, <1>5 DEF Fresh
<1>8. Apart'
  BY <1>5 DEF Apart, Victims
<1>9. o = "invalid" => Sid(r) \notin live
  BY <1>2, <1>3 DEF Looked
<1>10. InvalidIsOver' /\ Looked'
  BY <1>3, <1>5, <1>9 DEF InvalidIsOver, Looked
<1>11. Forgotten'
  <2> SUFFICES ASSUME NEW s \in ended \ overtaken
               PROVE  /\ s \notin live \cup turbo \cup memory' \cup store \cup buffered'
                      /\ s \in shared' => s \in deleting
                      /\ \A q \in Requests : req'[q].new # s /\ (Sid(q)' = s => Fading(q)')
    BY <1>3 DEF Forgotten
  <2>1. /\ s \notin live \cup turbo \cup memory \cup store \cup buffered
        /\ s \in shared => s \in deleting
        /\ \A q \in Requests : req[q].new # s /\ (Sid(q) = s => Fading(q))
    BY DEF Forgotten
  <2>2. o = "ok" => Sid(r) # s
    BY <1>2, <1>3, <2>1 DEF Fading
  <2>3. /\ s \notin memory' \cup buffered' /\ (s \in shared' => s \in deleting)
    BY <1>3, <2>1, <2>2
  <2>4. ASSUME NEW q \in Requests PROVE req'[q].new # s /\ (Sid(q)' = s => Fading(q)')
    <3>1. CASE req'[q] = req[q]
      BY <1>3, <1>5, <2>1, <3>1 DEF Fading
    <3>2. CASE req'[q].at = "answered" /\ req'[q].out = o /\ req[q].sid = Sid(r)
      BY <1>5, <2>1, <2>2, <3>2 DEF Fading
    <3> QED
      BY <1>5, <3>1, <3>2
  <2> QED
    BY <2>1, <2>3, <2>4
<1>12. SignedIn'
  BY <1>3, <1>5 DEF SignedIn, Late
<1> QED
  BY <1>6, <1>7, <1>8, <1>10, <1>11, <1>12

-----------------------------------------------------------------------------
(* Rotation.                                                               *)

\* A request that has its answer goes on to a rotation or the logout, or ends.
LEMMA IdleAgain ==
  ASSUME SessionInv, NEW r \in Requests, req' = [req EXCEPT ![r] = Idle],
         unused' \subseteq unused, live' \subseteq live \cup (unused \ unused'),
         UNCHANGED <<negative, memory, store, shared, buffered, deleting, ended, overtaken>>,
         cookie' \in {cookie, req[r].new},
         turbo' \cap (ended \ overtaken) = {}
  PROVE  /\ req' \in [Requests -> Doing] /\ Fresh' /\ Apart'
         /\ InvalidIsOver' /\ Looked' /\ Forgotten'
<1> USE DEF SessionInv
<1>1. /\ req' \in [Requests -> Doing] /\ req'[r] = Idle
      /\ \A q \in Requests \ {r} : req'[q] = req[q]
  BY IdleType, Moved DEF Moves
<1>2. /\ Idle.at = "idle" /\ Idle.sid = NoSession /\ Idle.new = NoSession
      /\ Idle.victims = {} /\ Idle.victim = NoSession /\ Idle.out = "none"
  BY DEF Idle
<1>3. Fresh'
  BY <1>1, <1>2 DEF Fresh, TypeOK
<1>4. Apart'
  BY <1>1, <1>2 DEF Apart, Victims
<1>5. InvalidIsOver' /\ Looked'
  BY <1>1, <1>2 DEF InvalidIsOver, Looked, Fresh
<1>6. ASSUME NEW s \in ended \ overtaken, NEW q \in Requests
      PROVE  req'[q].new # s /\ (Sid(q)' = s => Fading(q)')
  <2>1. CASE q = r
    BY <1>1, <1>2, <2>1 DEF TypeOK, Fading
  <2>2. CASE q # r
    BY <1>1, <2>2 DEF Forgotten, Fading
  <2> QED
    BY <2>1, <2>2
<1>7. Forgotten'
  BY <1>6 DEF Forgotten, Fresh
<1> QED
  BY <1>1, <1>3, <1>4, <1>5, <1>7

LEMMA ContinueInv ==
  ASSUME SessionInv, NEW r \in Requests, Continue(r) \/ LimiterThrows(r)
  PROVE  SessionInv'
<1>1. /\ At(r, "answered") /\ ~At(r, "idle") /\ ~Late(r)
      /\ UNCHANGED <<overlap, unused, live, negative, memory, store, shared, buffered,
                     deleting, timers, inflight, cookie, lapses, ended, overtaken>>
      /\ failures' \in 0 .. MaxFailures
  BY DEF Continue, LimiterThrows, MayFail, Late, SessionInv, TypeOK
<1>2. Sid(r) \in Sessions
  BY <1>1 DEF SessionInv, Apart
<1>3. Sid(r) \in ended \ overtaken => req[r].out # "ok"
  BY <1>1 DEF SessionInv, Forgotten, Fading
<1>4. turbo \cap (ended \ overtaken) = {}
  BY DEF SessionInv, Forgotten
<1>5. /\ turbo' \subseteq Sessions /\ turbo' \subseteq turbo \cup {Sid(r)}
      /\ req[r].out # "ok" => turbo' = turbo
      /\ signedOut' \in BOOLEAN
  BY <1>2 DEF Continue, LimiterThrows, SessionInv, TypeOK
<1>6. ASSUME req' \in [Requests -> Doing] PROVE TypeOK'
  BY <1>1, <1>5, <1>6 DEF SessionInv, TypeOK
<1>7. ASSUME req' = [req EXCEPT ![r] = Idle], UNCHANGED signedOut PROVE SessionInv'
  <2>1. turbo' \cap (ended \ overtaken) = {}
    BY <1>3, <1>4, <1>5
  <2>2. /\ req' \in [Requests -> Doing] /\ Fresh' /\ Apart'
        /\ InvalidIsOver' /\ Looked' /\ Forgotten'
    BY <1>1, <1>7, <2>1, IdleAgain
  <2>3. Moves(r, Idle) /\ Idle.at = "idle"
    BY <1>7, IdleType DEF Moves, Idle
  <2>4. SignedIn'
    BY <1>1, <1>7, <2>3, StaysIn
  <2> QED
    BY <1>6, <2>2, <2>4 DEF SessionInv
<1>8. ASSUME NEW p \in {"create", "end", "respond"}, Goto(r, p),
             p # "respond" => req[r].out = "ok",
             p = "create" => UNCHANGED signedOut, p = "end" => signedOut',
             p = "respond" => signedOut' \/ (req[r].out = "invalid" /\ UNCHANGED signedOut)
      PROVE  SessionInv'
  <2>1. PICK t \in Doing :
          /\ Moves(r, t) /\ t.at = p /\ t.sid = Sid(r) /\ t.out = req[r].out
          /\ t.new = req[r].new /\ t.victims = req[r].victims /\ t.victim = req[r].victim
    BY <1>8, Going DEF SessionInv
  <2>2. /\ req' \in [Requests -> Doing] /\ req'[r] = t
        /\ \A q \in Requests \ {r} : req'[q] = req[q]
    BY <2>1, Moved DEF SessionInv
  <2>3. Sid(r) \in ended \ overtaken => Fading(r)'
    BY <1>3, <1>8, <2>1, <2>2 DEF Fading
  <2>4. Fresh' /\ Apart' /\ InvalidIsOver' /\ Looked' /\ Forgotten'
    BY <1>1, <1>3, <1>5, <1>8, <2>1, <2>3, GoesOn
  <2>5. SignedIn'
    <3>1. CASE p = "create"
      BY <1>1, <1>8, <2>1, <3>1, StaysIn
    <3>2. CASE p = "end"
      BY <1>1, <1>8, <2>1, <2>2, <3>2 DEF SessionInv, SignedIn
    <3>3. CASE p = "respond" /\ signedOut'
      BY <1>1, <1>8, <2>1, <2>2, <3>3 DEF SessionInv, SignedIn
    <3>4. CASE p = "respond" /\ ~signedOut'
      <4>1. Sid(r) \notin live
        BY <1>1, <1>8, <3>4 DEF SessionInv, InvalidIsOver
      <4>2. overlap \/ signedOut
        BY <1>1, <4>1 DEF SessionInv, SignedIn, Late
      <4> QED
        BY <1>1, <1>8, <2>1, <2>2, <3>4, <4>2 DEF SessionInv, SignedIn
    <3> QED
      BY <3>1, <3>2, <3>3, <3>4
  <2> QED
    BY <1>6, <2>2, <2>4, <2>5 DEF SessionInv
<1>9. \/ req' = [req EXCEPT ![r] = Idle] /\ UNCHANGED signedOut
      \/ Goto(r, "create") /\ UNCHANGED signedOut /\ req[r].out = "ok"
      \/ Goto(r, "end") /\ signedOut' /\ req[r].out = "ok"
      \/ Goto(r, "respond") /\ UNCHANGED signedOut /\ req[r].out = "invalid"
      \/ Goto(r, "respond") /\ signedOut'
  BY DEF Continue, LimiterThrows
<1> QED
  BY <1>7, <1>8, <1>9

\* The new session is one that was never handed out.
LEMMA CreateInv ==
  ASSUME SessionInv, NEW r \in Requests, Create(r)
  PROVE  SessionInv'
<1> USE DEF SessionInv
<1>1. PICK s \in unused :
        /\ unused' = unused \ {s} /\ live' = live \cup {s}
        /\ req' = [req EXCEPT ![r].at = "created", ![r].new = s]
  BY DEF Create
<1>2. PICK t \in Doing :
        /\ Moves(r, t) /\ t.at = "created" /\ t.new = s /\ t.sid = req[r].sid
        /\ t.victims = req[r].victims /\ t.victim = req[r].victim
  <2>1. PICK d \in Doing : d = req[r]
    BY DoingFields
  <2> DEFINE t == [d EXCEPT !.at = "created", !.new = s]
  <2>2. s \in Sessions
    BY DEF TypeOK
  <2>3. /\ t \in Doing /\ t.at = "created" /\ t.new = s /\ t.sid = d.sid
        /\ t.victims = d.victims /\ t.victim = d.victim
    BY <2>2 DEF Doing
  <2>4. req' = [req EXCEPT ![r] = t]
    BY <1>1, <2>1
  <2> HIDE DEF t
  <2> QED
    BY <2>1, <2>3, <2>4 DEF Moves
<1>3. /\ req' \in [Requests -> Doing] /\ req'[r] = t
      /\ \A q \in Requests \ {r} : req'[q] = req[q]
  BY <1>2, Moved
<1>4. /\ At(r, "create")
      /\ UNCHANGED <<overlap, layers, timers, inflight, cookie, lapses, failures, history>>
  BY DEF Create
<1>5. /\ s \notin live /\ s \notin negative /\ s \notin ended /\ s # cookie
      /\ \A q \in Requests : /\ req[q].sid # s /\ req[q].new # s /\ req[q].victim # s
                             /\ s \notin req[q].victims
  BY <1>1 DEF Fresh
<1>6. TypeOK'
  BY <1>1, <1>3, <1>4 DEF TypeOK
<1>7. Fresh'
  BY <1>1, <1>2, <1>3, <1>4, <1>5 DEF Fresh
<1>8. Apart'
  <2>1. /\ s \in Sessions /\ s # req[r].sid /\ s \notin req[r].victims
        /\ req[r].sid \in Sessions
    BY <1>4, <1>5 DEF Apart, TypeOK
  <2>2. /\ req'[r].sid \in Sessions /\ req'[r].new \in Sessions
        /\ req'[r].new # req'[r].sid /\ req'[r].new \notin req'[r].victims
        /\ req'[r].at # "forget"
    BY <1>2, <1>3, <2>1
  <2> QED
    BY <1>3, <2>2 DEF Apart, Victims
<1>9. InvalidIsOver' /\ Looked'
  BY <1>1, <1>2, <1>3, <1>4, <1>5 DEF InvalidIsOver, Looked
<1>10. Forgotten'
  <2> SUFFICES ASSUME NEW e \in ended \ overtaken
               PROVE  /\ e \notin live' \cup turbo \cup memory \cup store \cup buffered
                      /\ e \in shared => e \in deleting
                      /\ \A q \in Requests : req'[q].new # e /\ (Sid(q)' = e => Fading(q)')
    BY <1>4 DEF Forgotten
  <2>1. e # s
    BY <1>5
  <2>2. /\ e \notin live' \cup turbo \cup memory \cup store \cup buffered
        /\ e \in shared => e \in deleting
    BY <1>1, <2>1 DEF Forgotten
  <2>3. \A q \in Requests \ {r} : req'[q].new # e /\ (Sid(q)' = e => Fading(q)')
    BY <1>3, <1>4 DEF Forgotten, Fading
  <2>4. req'[r].new # e /\ Sid(r)' # e
    BY <1>2, <1>3, <1>4, <2>1 DEF Forgotten, Fading
  <2> QED
    BY <2>2, <2>3, <2>4
<1>11. SignedIn'
  BY <1>1, <1>2, <1>3, <1>4 DEF SignedIn, Late
<1> QED
  BY <1>6, <1>7, <1>8, <1>9, <1>10, <1>11

LEMMA CreateFailsInv ==
  ASSUME SessionInv, NEW r \in Requests, CreateFails(r)
  PROVE  SessionInv'
<1>1. /\ At(r, "create") /\ req' = [req EXCEPT ![r] = Idle] /\ failures' \in 0 .. MaxFailures
      /\ UNCHANGED <<overlap, layers, timers, inflight, cookie, lapses, history>>
      /\ unused' \subseteq unused /\ live' \subseteq live \cup (unused \ unused')
      /\ live \subseteq live'
  BY DEF CreateFails, MayFail, SessionInv, TypeOK
<1>2. turbo' \cap (ended \ overtaken) = {}
  BY <1>1 DEF SessionInv, Forgotten
<1>3. /\ req' \in [Requests -> Doing] /\ Fresh' /\ Apart'
      /\ InvalidIsOver' /\ Looked' /\ Forgotten'
  BY <1>1, <1>2, IdleAgain
<1>4. TypeOK'
  BY <1>1, <1>3 DEF SessionInv, TypeOK
<1>5. Moves(r, Idle) /\ Idle.at = "idle"
  BY <1>1, IdleType DEF Moves, Idle
<1>6. SignedIn'
  BY <1>1, <1>5, StaysIn DEF Late
<1> QED
  BY <1>3, <1>4, <1>6 DEF SessionInv

\* The sessions to be evicted are rows now; the new one is not among them.
LEMMA StoreNewInv ==
  ASSUME SessionInv, NEW r \in Requests, StoreNew(r)
  PROVE  SessionInv'
<1> USE DEF SessionInv
<1>1. PICK V \in {{}, Others(r)} : req' = [req EXCEPT ![r].at = "end", ![r].victims = V]
  BY DEF StoreNew
<1>2. V \in SUBSET Sessions /\ V \subseteq live /\ req[r].new \notin V
  BY <1>1 DEF Others, TypeOK
<1>3. PICK t \in Doing :
        /\ Moves(r, t) /\ t.at = "end" /\ t.new = req[r].new /\ t.sid = req[r].sid
        /\ t.victims = V /\ t.victim = req[r].victim
  <2>1. PICK d \in Doing : d = req[r]
    BY DoingFields
  <2> DEFINE t == [d EXCEPT !.at = "end", !.victims = V]
  <2>2. /\ t \in Doing /\ t.at = "end" /\ t.new = d.new /\ t.sid = d.sid
        /\ t.victims = V /\ t.victim = d.victim
    BY <1>2 DEF Doing
  <2>3. req' = [req EXCEPT ![r] = t]
    BY <1>1, <2>1
  <2> HIDE DEF t
  <2> QED
    BY <2>1, <2>2, <2>3 DEF Moves
<1>4. /\ req' \in [Requests -> Doing] /\ req'[r] = t
      /\ \A q \in Requests \ {r} : req'[q] = req[q]
  BY <1>3, Moved
<1>5. /\ At(r, "created") /\ store' = store \cup {req[r].new}
      /\ UNCHANGED <<overlap, unused, live, turbo, negative, memory, shared, buffered,
                     deleting, timers, inflight, cookie, lapses, failures, history>>
  BY DEF StoreNew
<1>6. TypeOK'
  BY <1>4, <1>5 DEF TypeOK, Apart
<1>7. Fresh'
  BY <1>2, <1>3, <1>4, <1>5 DEF Fresh
<1>8. Apart'
  <2> SUFFICES ASSUME NEW q \in Requests
               PROVE  /\ ~At(q, "idle")' => Sid(q)' \in Sessions /\ req'[q].new # Sid(q)'
                      /\ At(q, "created")' => req'[q].new \in Sessions
                      /\ req'[q].new \notin req'[q].victims
                      /\ At(q, "forget")' => req'[q].victim \in Victims(q)'
    BY DEF Apart
  <2>1. CASE q = r
    BY <1>2, <1>3, <1>4, <1>5, <2>1 DEF Apart
  <2>2. CASE q # r
    BY <1>4, <2>2 DEF Apart, Victims
  <2> QED
    BY <2>1, <2>2
<1>9. InvalidIsOver' /\ Looked'
  BY <1>3, <1>4, <1>5 DEF InvalidIsOver, Looked
<1>10. Forgotten'
  <2> SUFFICES ASSUME NEW e \in ended \ overtaken
               PROVE  /\ e \notin live \cup turbo \cup memory \cup store' \cup buffered
                      /\ e \in shared => e \in deleting
                      /\ \A q \in Requests : req'[q].new # e /\ (Sid(q)' = e => Fading(q)')
    BY <1>5 DEF Forgotten
  <2>1. /\ e \notin live \cup turbo \cup memory \cup store' \cup buffered
        /\ e \in shared => e \in deleting
    BY <1>5 DEF Forgotten
  <2>2. \A q \in Requests \ {r} : req'[q].new # e /\ (Sid(q)' = e => Fading(q)')
    BY <1>4, <1>5 DEF Forgotten, Fading
  <2>3. req'[r].new # e /\ (Sid(r)' = e => Fading(r)')
    BY <1>3, <1>4 DEF Forgotten, Fading
  <2> QED
    BY <2>1, <2>2, <2>3
<1>11. SignedIn'
  BY <1>3, <1>4, <1>5 DEF SignedIn, Late
<1> QED
  BY <1>6, <1>7, <1>8, <1>9, <1>10, <1>11

-----------------------------------------------------------------------------
(* The end of a session.                                                   *)

\* Whom a request ends is a session that was handed out, not the one it made.
LEMMA VictimsApart ==
  ASSUME TypeOK, Fresh, Apart, NEW r \in Requests, ~At(r, "idle"), NEW s \in Victims(r)
  PROVE  s \in Sessions /\ s \notin unused /\ s # req[r].new
BY DoingFields DEF Victims, Fresh, Apart

LEMMA EndRowInv ==
  ASSUME SessionInv, NEW r \in Requests, EndRow(r)
  PROVE  SessionInv'
<1> USE DEF SessionInv
<1>1. PICK s \in Victims(r) : req' = [req EXCEPT ![r].at = "forget", ![r].victim = s]
  BY DEF EndRow
<1>2. /\ At(r, "end")
      /\ UNCHANGED <<overlap, unused, layers, timers, inflight, cookie, lapses, history>>
  BY DEF EndRow
<1>3. s \in Sessions /\ s \notin unused /\ s # req[r].new
  BY <1>2, VictimsApart
<1>4. PICK t \in Doing :
        /\ Moves(r, t) /\ t.at = "forget" /\ t.new = req[r].new /\ t.sid = req[r].sid
        /\ t.victims = req[r].victims /\ t.victim = s
  <2>1. PICK d \in Doing : d = req[r]
    BY DoingFields
  <2> DEFINE t == [d EXCEPT !.at = "forget", !.victim = s]
  <2>2. /\ t \in Doing /\ t.at = "forget" /\ t.new = d.new /\ t.sid = d.sid
        /\ t.victims = d.victims /\ t.victim = s
    BY <1>3 DEF Doing
  <2>3. req' = [req EXCEPT ![r] = t]
    BY <1>1, <2>1
  <2> HIDE DEF t
  <2> QED
    BY <2>1, <2>2, <2>3 DEF Moves
<1>5. /\ req' \in [Requests -> Doing] /\ req'[r] = t
      /\ \A q \in Requests \ {r} : req'[q] = req[q]
  BY <1>4, Moved
<1>6. /\ live' = live \/ live' = live \ {s}
      /\ failures' \in 0 .. MaxFailures
  <2>1. req'[r].victim = s
    BY <1>4, <1>5
  <2>2. failures' \in 0 .. MaxFailures
    BY DEF EndRow, MayFail, TypeOK
  <2>3. live' = live \ {req'[r].victim} \/ live' = live
    BY DEF EndRow
  <2> QED
    BY <2>1, <2>2, <2>3
<1>7. TypeOK'
  BY <1>2, <1>5, <1>6 DEF TypeOK
<1>8. Fresh'
  BY <1>2, <1>3, <1>4, <1>5, <1>6 DEF Fresh
<1>9. Apart'
  BY <1>2, <1>4, <1>5 DEF Apart, Victims
<1>10. InvalidIsOver' /\ Looked'
  BY <1>2, <1>4, <1>5, <1>6 DEF InvalidIsOver, Looked
<1>11. Forgotten'
  <2> SUFFICES ASSUME NEW e \in ended \ overtaken
               PROVE  /\ e \notin live' \cup turbo \cup memory \cup store \cup buffered
                      /\ e \in shared => e \in deleting
                      /\ \A q \in Requests : req'[q].new # e /\ (Sid(q)' = e => Fading(q)')
    BY <1>2 DEF Forgotten
  <2>1. /\ e \notin live' \cup turbo \cup memory \cup store \cup buffered
        /\ e \in shared => e \in deleting
    BY <1>6 DEF Forgotten
  <2>2. \A q \in Requests \ {r} : req'[q].new # e /\ (Sid(q)' = e => Fading(q)')
    BY <1>2, <1>5 DEF Forgotten, Fading
  <2>3. req'[r].new # e /\ (Sid(r)' = e => Fading(r)')
    BY <1>4, <1>5 DEF Forgotten, Fading
  <2> QED
    BY <2>1, <2>2, <2>3
<1>12. SignedIn'
  <2>1. ASSUME req[r].new \in live PROVE req[r].new \in live'
    BY <1>3, <1>6, <2>1
  <2> QED
    BY <1>2, <1>4, <1>5, <2>1 DEF SignedIn, Late
<1> QED
  BY <1>7, <1>8, <1>9, <1>10, <1>11, <1>12

\* A session that nothing is under way for is forgotten by every layer.
LEMMA ForgetInv ==
  ASSUME SessionInv, NEW r \in Requests, Forget(r)
  PROVE  SessionInv'
<1> USE DEF SessionInv
<1>1. PICK s \in Victims(r) : s = req[r].victim
  BY DEF Forget, Apart
<1>2. At(r, "forget") /\ s \in Sessions /\ s \notin unused /\ s # req[r].new
  BY VictimsApart DEF Forget
<1>3. PICK N \in SUBSET Sessions : N = NewFor(r) /\ N \subseteq {req[r].new}
  <2>1. CASE IsLast(r) /\ ~IsLogout(r)
    <3>1. req[r].new \in Sessions
      BY <2>1, DoingFields DEF IsLogout
    <3>2. NewFor(r) = {req[r].new}
      BY <2>1 DEF NewFor
    <3> QED
      BY <3>1, <3>2
  <2>2. CASE ~(IsLast(r) /\ ~IsLogout(r))
    <3>1. NewFor(r) = {}
      BY <2>2 DEF NewFor
    <3> QED
      BY <3>1
  <2> QED
    BY <2>1, <2>2
<1>4. /\ store' = store \ {s} /\ memory' = (memory \ {s}) \cup N
      /\ rotated' = (rotated \ {s}) \cup N /\ cooling' = cooling \ {s}
      /\ negative' = negative \ {s} /\ turbo' = turbo \ {s}
      /\ deleting' = deleting \cup {s} /\ ended' = ended \cup ({s} \ live)
      /\ overtaken' = (IF UnderWay(r, s) THEN overtaken \cup {s} ELSE overtaken)
      /\ UNCHANGED <<overlap, unused, live, shared, buffered, inflight, cookie, lapses,
                     failures, signedOut>>
  BY <1>1, <1>3 DEF Forget, TurboWithout
<1>5. PICK t \in Doing :
        /\ Moves(r, t) /\ t.at \in {"end", "respond"} /\ t.new = req[r].new
        /\ t.sid = req[r].sid /\ t.victims = req[r].victims \ {s}
        /\ t.victim = req[r].victim
  <2>1. PICK d \in Doing : d = req[r]
    BY DoingFields
  <2>2. PICK p \in {"end", "respond"} : p = IF IsLast(r) THEN "respond" ELSE "end"
    OBVIOUS
  <2> DEFINE t == [d EXCEPT !.at = p, !.victims = @ \ {s}]
  <2>3. /\ t \in Doing /\ t.at = p /\ t.new = d.new /\ t.sid = d.sid
        /\ t.victims = d.victims \ {s} /\ t.victim = d.victim
    BY DEF Doing
  <2>4. req' = [req EXCEPT ![r] = t]
    BY <1>1, <2>1, <2>2 DEF Forget
  <2> HIDE DEF t
  <2> QED
    BY <2>1, <2>3, <2>4 DEF Moves
<1>6. /\ req' \in [Requests -> Doing] /\ req'[r] = t
      /\ \A q \in Requests \ {r} : req'[q] = req[q]
  BY <1>5, Moved
<1>7. TypeOK'
  BY <1>2, <1>3, <1>4, <1>6 DEF TypeOK
<1>8. Fresh'
  BY <1>2, <1>4, <1>5, <1>6 DEF Fresh
<1>9. Apart'
  <2>1. /\ req'[r].sid \in Sessions /\ req'[r].new # req'[r].sid
        /\ req'[r].new \notin req'[r].victims /\ req'[r].at \in {"end", "respond"}
    BY <1>2, <1>5, <1>6 DEF Apart
  <2> QED
    BY <1>6, <2>1 DEF Apart, Victims
<1>10. InvalidIsOver' /\ Looked'
  BY <1>4, <1>5, <1>6 DEF InvalidIsOver, Looked
<1>11. Forgotten'
  <2> SUFFICES ASSUME NEW e \in ended' \ overtaken'
               PROVE  /\ e \notin live \cup turbo' \cup memory' \cup store' \cup buffered
                      /\ e \in shared => e \in deleting'
                      /\ \A q \in Requests : req'[q].new # e /\ (Sid(q)' = e => Fading(q)')
    BY <1>4 DEF Forgotten
  <2>1. CASE e = s
    <3>1. ~UnderWay(r, s) /\ e \notin live
      BY <1>4, <2>1 DEF Forgotten
    <3>2. /\ e \notin buffered
          /\ \A q \in Requests \ {r} : req[q].sid # e /\ req[q].new # e
      BY <2>1, <3>1 DEF UnderWay
    <3>3. e \notin turbo' \cup memory' \cup store' /\ e \in deleting'
      BY <1>2, <1>3, <1>4, <2>1
    <3>4. req'[r].new # e /\ Fading(r)'
      BY <1>2, <1>5, <1>6, <2>1 DEF Fading
    <3> QED
      BY <1>6, <3>1, <3>2, <3>3, <3>4
  <2>2. CASE e # s
    <3>1. e \in ended \ overtaken
      BY <1>4, <2>2
    <3>2. /\ e \notin live \cup turbo \cup memory \cup store \cup buffered
          /\ e \in shared => e \in deleting
          /\ \A q \in Requests : req[q].new # e /\ (Sid(q) = e => Fading(q))
      BY <3>1 DEF Forgotten
    <3>3. /\ e \notin turbo' \cup memory' \cup store'
          /\ e \in shared => e \in deleting'
      BY <1>3, <1>4, <3>2
    <3>4. \A q \in Requests \ {r} : req'[q].new # e /\ (Sid(q)' = e => Fading(q)')
      BY <1>4, <1>6, <2>2, <3>2 DEF Fading
    <3>5. req'[r].new # e /\ Fading(r)'
      BY <1>5, <1>6, <3>2 DEF Fading
    <3> QED
      BY <3>2, <3>3, <3>4, <3>5
  <2> QED
    BY <2>1, <2>2
<1>12. SignedIn'
  BY <1>2, <1>4, <1>5, <1>6 DEF SignedIn, Late
<1> QED
  BY <1>7, <1>8, <1>9, <1>10, <1>11, <1>12

LEMMA RespondInv ==
  ASSUME SessionInv, NEW r \in Requests, Respond(r)
  PROVE  SessionInv'
<1>1. /\ At(r, "respond") /\ cookie' = req[r].new /\ req' = [req EXCEPT ![r] = Idle]
      /\ UNCHANGED <<overlap, unused, live, layers, timers, inflight, lapses, failures,
                     history>>
  BY DEF Respond
<1>2. turbo' \cap (ended \ overtaken) = {}
  BY <1>1 DEF SessionInv, Forgotten
<1>3. /\ req' \in [Requests -> Doing] /\ Fresh' /\ Apart'
      /\ InvalidIsOver' /\ Looked' /\ Forgotten'
  BY <1>1, <1>2, IdleAgain
<1>4. TypeOK'
  BY <1>1, <1>3, DoingFields DEF SessionInv, TypeOK
<1>5. SignedIn'
  <2>1. req'[r].at = "idle" /\ \A q \in Requests \ {r} : req'[q] = req[q]
    BY <1>1 DEF SessionInv, TypeOK, Idle
  <2> QED
    BY <1>1, <2>1 DEF SessionInv, SignedIn, Late
<1> QED
  BY <1>3, <1>4, <1>5 DEF SessionInv

-----------------------------------------------------------------------------
(* Redis and time.                                                         *)

\* What passes with time takes nothing from a browser but its session's row.
LEMMA TimePasses ==
  ASSUME SessionInv, TypeOK',
         UNCHANGED <<overlap, unused, req, cookie, ended, overtaken>>,
         live' \subseteq live, negative' \subseteq negative, turbo' \subseteq turbo,
         memory' \subseteq memory, store' \subseteq store, buffered' \subseteq buffered,
         deleting' \subseteq deleting,
         \A s \in ended \ overtaken : s \in shared' => s \in deleting',
         signedOut' \/ UNCHANGED <<live, signedOut>>
  PROVE  SessionInv'
<1>1. Fresh' /\ Apart'
  BY DEF SessionInv, Fresh, Apart, Victims
<1>2. InvalidIsOver' /\ Looked'
  BY DEF SessionInv, InvalidIsOver, Looked
<1>3. Forgotten'
  BY DEF SessionInv, Forgotten, Fading
<1>4. SignedIn'
  BY DEF SessionInv, SignedIn, Late
<1> QED
  BY <1>1, <1>2, <1>3, <1>4 DEF SessionInv

LEMMA TimeInv ==
  ASSUME SessionInv, NEW s \in Sessions,
         FinishDelete(s) \/ FlushEntry(s) \/ Lapse(s) \/ CoolDown(s) \/ Expire(s)
  PROVE  SessionInv'
<1>1. \A e \in ended \ overtaken : e \notin buffered /\ (e \in shared => e \in deleting)
  BY DEF SessionInv, Forgotten
<1>2. CASE FinishDelete(s)
  <2>1. TypeOK'
    BY <1>2 DEF FinishDelete, SessionInv, TypeOK
  <2> QED
    BY <1>1, <1>2, <2>1, TimePasses DEF FinishDelete
<1>3. CASE FlushEntry(s)
  <2>1. TypeOK'
    BY <1>3 DEF FlushEntry, SessionInv, TypeOK
  <2> QED
    BY <1>1, <1>3, <2>1, TimePasses DEF FlushEntry
<1>4. CASE Lapse(s)
  <2>1. /\ turbo' \subseteq turbo /\ negative' \subseteq negative
        /\ rotated' \subseteq rotated /\ memory' \subseteq memory
        /\ store' \subseteq store /\ shared' \subseteq shared
        /\ UNCHANGED <<overlap, unused, live, buffered, deleting, cooling, inflight, cookie,
                       req, failures, history>>
    BY <1>4 DEF Lapse, Gone
  <2>2. lapses' \in 0 .. MaxLapses
    BY <1>4 DEF Lapse, MayLapse, SessionInv, TypeOK
  <2>3. TypeOK'
    BY <2>1, <2>2 DEF SessionInv, TypeOK
  <2> QED
    BY <1>1, <2>1, <2>3, TimePasses
<1>5. CASE CoolDown(s)
  <2>1. TypeOK'
    BY <1>5 DEF CoolDown, Without, SessionInv, TypeOK
  <2> QED
    BY <1>1, <1>5, <2>1, TimePasses DEF CoolDown
<1>6. CASE Expire(s)
  <2>1. lapses' \in 0 .. MaxLapses
    BY <1>6 DEF Expire, MayLapse, SessionInv, TypeOK
  <2>2. TypeOK'
    BY <1>6, <2>1 DEF Expire, Without, SessionInv, TypeOK
  <2> QED
    BY <1>1, <1>6, <2>2, TimePasses DEF Expire, Without
<1> QED
  BY <1>2, <1>3, <1>4, <1>5, <1>6

-----------------------------------------------------------------------------
LEMMA NextInv == SessionInv /\ [Next]_vars => SessionInv'
<1> SUFFICES ASSUME SessionInv, [Next]_vars PROVE SessionInv'
  OBVIOUS
<1>1. CASE UNCHANGED vars
  <2>1. TypeOK'
    BY <1>1 DEF vars, SessionInv, TypeOK
  <2>2. \A e \in ended \ overtaken : e \in shared' => e \in deleting'
    BY <1>1 DEF vars, SessionInv, Forgotten
  <2> QED
    BY <1>1, <2>1, <2>2, TimePasses DEF vars
<1> QED
  BY <1>1, BeginInv, LookInv, DecideInv, QueryInv, ValidatedInv, ContinueInv, CreateInv,
     CreateFailsInv, StoreNewInv, EndRowInv, ForgetInv, RespondInv, TimeInv
     DEF Next, Serve, Resolve, Rotate, End

\* The layers, the requests and the cookie keep their types.
THEOREM TypeCorrect == Spec => []TypeOK
<1>1. SessionInv => TypeOK
  BY DEF SessionInv
<1> QED
  BY <1>1, InitInv, NextInv, PTL DEF Spec

\* getUserFromSession: no session is denied, now or for the next minute, while
\* its row validates.
THEOREM DeniedIsOver == Spec => []InvalidIsOver
<1>1. SessionInv => InvalidIsOver
  BY DEF SessionInv
<1> QED
  BY <1>1, InitInv, NextInv, PTL DEF Spec

\* invalidateSessionCache: no layer knows a session that was ended here, unless
\* something was still under way for it.
THEOREM EndedStaysForgotten == Spec => []EndedIsForgotten
<1>1. SessionInv => EndedIsForgotten
  BY DEF SessionInv, Forgotten, EndedIsForgotten
<1> QED
  BY <1>1, InitInv, NextInv, PTL DEF Spec

\* handleSessionRotation: a browser whose requests do not overlap is never
\* without a session that validates, however often it is rotated.
THEOREM BrowserStaysSignedIn == Spec => []StaysSignedIn
<1>1. SessionInv => StaysSignedIn
  BY DEF SessionInv, SignedIn, StaysSignedIn
<1> QED
  BY <1>1, InitInv, NextInv, PTL DEF Spec
===============================================================================
