--------------------------- MODULE ContainersProofs ---------------------------
(***************************************************************************)
(* What holds of the loopback bridges (AccessBridges) and of what is done  *)
(* to the containers of an environment (EnvironmentActions), whatever the  *)
(* services, containers, dependencies and requests there are.              *)
(***************************************************************************)
EXTENDS EnvironmentActions, AccessBridges, FiniteSetTheorems, SequenceTheorems, TLAPS

-----------------------------------------------------------------------------
(* Bridges: nobody holds a lock between reading and acting, so what is     *)
(* true of a request under way is only what it asks and what was made.     *)

\* What one that is alone may count on: nothing that runs reaches its service yet,
\* and the container it made is labelled with it.
Promised(r) ==
  /\ r.step \in {"create", "start"} => \A b \in Running : reaches[b] # r.service
  /\ r.step = "start" => \E b \in BridgeIds : r.list = {b} /\ reaches[b] = r.service

Alone ==
  /\ \A p, q \in UnderWay : p = q
  /\ \A b, c \in Running : reaches[b] = reaches[c] => b = c
  /\ \A q \in UnderWay : Promised(asked[q])

BridgesInv ==
  /\ BridgesTypeOK
  /\ \A q \in Requests : asked[q].step = "create" => asked[q].service \in Targets
  /\ \A q \in Requests : \A b \in asked[q].list : bridge[b] # "none"
  /\ ~overlapped => Alone

LEMMA InitBridges == BridgesInit => BridgesInv
<1> SUFFICES ASSUME BridgesInit PROVE BridgesInv
  OBVIOUS
<1>1. NotAsked \in BridgeRequest /\ NotAsked.step = "new" /\ NotAsked.list = {}
  BY DEF NotAsked, BridgeRequest, BridgeSteps, Answers
<1> QED
  BY <1>1 DEF BridgesInit, BridgesInv, BridgesTypeOK, Alone, UnderWay, Running

\* A request that arrives.
LEMMA ArriveKeeps ==
  ASSUME BridgesInv, NEW q \in Requests, NEW to \in BridgeRequest, Arrive(q, to),
         to.list \subseteq Listed, to.step # "start",
         to.step = "create" => to.service \in Targets /\ \A b \in Running : reaches[b] # to.service
  PROVE  BridgesInv'
<1>1. /\ asked' \in [Requests -> BridgeRequest] /\ asked'[q] = to
      /\ \A p \in Requests : p # q => asked'[p] = asked[p]
  BY DEF Arrive, BridgesInv, BridgesTypeOK
<1>2. UNCHANGED <<up, reaches, bridge, timed, late>>
  BY DEF Arrive
<1>3. BridgesTypeOK'
  BY <1>1, <1>2 DEF BridgesInv, BridgesTypeOK
<1>4. \A p \in Requests : /\ asked'[p].step = "create" => asked'[p].service \in Targets
                          /\ \A b \in asked'[p].list : bridge'[b] # "none"
  BY <1>1, <1>2 DEF BridgesInv, Listed
<1>5. ASSUME ~overlapped' PROVE Alone'
  <2>1. ~overlapped /\ UnderWay = {}
    BY <1>5 DEF Arrive
  <2>2. UnderWay' \subseteq {q}
    BY <1>1, <2>1 DEF UnderWay
  <2>3. Running' = Running
    BY <1>2 DEF Running
  <2>4. Promised(to)'
    BY <1>2, <2>3 DEF Promised
  <2> QED
    BY <1>1, <1>2, <2>1, <2>2, <2>3, <2>4 DEF Alone, BridgesInv, Promised
<1> QED
  BY <1>3, <1>4, <1>5 DEF BridgesInv

\* A request that goes on, whatever it does to the bridges.
LEMMA GoesKeeps ==
  ASSUME BridgesInv, NEW q \in UnderWay, NEW to \in BridgeRequest, Goes(q, to),
         to.step \in {"start", "settle", "remove", "done"},
         reaches' \in [BridgeIds -> Targets \cup {NoTarget}],
         bridge' \in [BridgeIds -> {"none", "created", "running", "exited", "gone"}],
         timed \subseteq timed', timed' \subseteq BridgeIds,
         \A b \in BridgeIds : bridge'[b] = "none" <=> reaches'[b] = NoTarget,
         \A b \in BridgeIds : bridge[b] # "none" => bridge'[b] # "none",
         \A b \in to.list : bridge'[b] # "none",
         ~overlapped => /\ \A b, c \in Running' : reaches'[b] = reaches'[c] => b = c
                        /\ Promised(to)'
  PROVE  BridgesInv'
<1>0. q \in Requests /\ asked \in [Requests -> BridgeRequest]
  BY DEF UnderWay, BridgesInv, BridgesTypeOK
<1>1. /\ asked' \in [Requests -> BridgeRequest] /\ asked'[q] = to
      /\ \A p \in Requests : p # q => asked'[p] = asked[p]
  BY <1>0 DEF Goes
<1>2. UNCHANGED <<up, late, overlapped>>
  BY DEF Goes
<1>3. BridgesTypeOK'
  BY <1>1, <1>2 DEF BridgesInv, BridgesTypeOK
<1>4. \A p \in Requests : /\ asked'[p].step = "create" => asked'[p].service \in Targets
                          /\ \A b \in asked'[p].list : bridge'[b] # "none"
  BY <1>0, <1>1 DEF BridgesInv, BridgeRequest
<1>5. ASSUME ~overlapped' PROVE Alone'
  <2>1. ~overlapped /\ \A p \in UnderWay : p = q
    BY <1>2, <1>5 DEF BridgesInv, Alone
  <2>2. UnderWay' \subseteq {q}
    BY <1>1, <2>1 DEF UnderWay
  <2> QED
    BY <1>1, <2>1, <2>2 DEF Alone, Promised
<1> QED
  BY <1>3, <1>4, <1>5 DEF BridgesInv

\* The fields of a request that is answered, or that arrives.
LEMMA RequestFields ==
  ASSUME NEW r \in BridgeRequest, NEW answer \in Answers
  PROVE  /\ Answered(r, answer) \in BridgeRequest
         /\ Answered(r, answer).step = "done" /\ Answered(r, answer).answer = answer
         /\ Answered(r, answer).list = r.list /\ Answered(r, answer).by = r.by
BY DEF BridgeRequest, Answered, BridgeSteps, Answers

LEMMA OpenAskedKeeps ==
  ASSUME BridgesInv, NEW q \in Requests, NEW by \in {"panel", "portta"}, NEW s \in Targets,
         NEW ttl \in BOOLEAN, OpenAsked(q, by, s, ttl)
  PROVE  /\ BridgesInv' /\ asked'[q].by = by
         /\ by = "portta" /\ asked'[q].answer = "opened" => \E b \in asked'[q].list : bridge'[b] = "running"
<1>0. PICK r : r = [NotAsked EXCEPT !.by = by, !.service = s, !.ttl = ttl]
  OBVIOUS
<1>1. /\ r \in BridgeRequest /\ r.step = "new" /\ r.list = {} /\ r.by = by /\ r.answer = "none"
      /\ r.service = s
  BY <1>0 DEF NotAsked, BridgeRequest, BridgeSteps, Answers
<1>2. ExistingBridges(by, s) \subseteq Listed
  BY DEF ExistingBridges, Listed, Running
<1>3. by = "portta" => ExistingBridges(by, s) \subseteq Running
  BY DEF ExistingBridges
<1>4. ExistingBridges(by, s) = {} => \A b \in Running : reaches[b] # s
  BY DEF ExistingBridges, Listed, Running
<1>5. \A to : Arrive(q, to) => asked'[q] = to /\ bridge' = bridge
  BY DEF Arrive, BridgesInv, BridgesTypeOK
<1>6. CASE Arrive(q, Answered(r, "failed"))
  <2>1. PICK to : to = Answered(r, "failed")
    OBVIOUS
  <2>2. to \in BridgeRequest /\ to.step = "done" /\ to.answer = "failed" /\ to.list = {} /\ to.by = by
    BY <1>1, <2>1, RequestFields DEF Answers
  <2>3. Arrive(q, to)
    BY <1>6, <2>1
  <2> QED
    BY <1>5, <2>2, <2>3, ArriveKeeps
<1>7. ASSUME NEW b \in ExistingBridges(by, s), Arrive(q, Answered([r EXCEPT !.list = {b}], "opened"))
      PROVE  BridgesInv' /\ asked'[q].by = by /\ (by = "portta" => \E c \in asked'[q].list : bridge'[c] = "running")
  <2>1. b \in Listed /\ b \in BridgeIds
    BY <1>2 DEF Listed
  <2>2. [r EXCEPT !.list = {b}] \in BridgeRequest /\ [r EXCEPT !.list = {b}].list = {b} /\ [r EXCEPT !.list = {b}].by = by
    BY <1>1, <2>1 DEF BridgeRequest
  <2>3. PICK to : to = Answered([r EXCEPT !.list = {b}], "opened")
    OBVIOUS
  <2>4. to \in BridgeRequest /\ to.step = "done" /\ to.list = {b} /\ to.by = by
    BY <2>2, <2>3, RequestFields DEF Answers
  <2>5. Arrive(q, to)
    BY <1>7, <2>3
  <2>6. BridgesInv'
    BY <2>1, <2>4, <2>5, ArriveKeeps
  <2> QED
    BY <1>3, <1>5, <2>4, <2>5, <2>6 DEF Running
<1>8. CASE ExistingBridges(by, s) = {} /\ Arrive(q, [r EXCEPT !.step = "create"])
  <2>1. PICK to : to = [r EXCEPT !.step = "create"]
    OBVIOUS
  <2>2. /\ to \in BridgeRequest /\ to.step = "create" /\ to.list = {} /\ to.service = s
        /\ to.answer = "none" /\ to.by = by
    BY <1>1, <2>1 DEF BridgeRequest, BridgeSteps
  <2>3. Arrive(q, to)
    BY <1>8, <2>1
  <2>4. BridgesInv'
    BY <1>4, <1>8, <2>2, <2>3, ArriveKeeps
  <2> QED
    BY <1>5, <2>2, <2>3, <2>4
<1>9. \/ Arrive(q, Answered(r, "failed"))
      \/ \E b \in ExistingBridges(by, s) : Arrive(q, Answered([r EXCEPT !.list = {b}], "opened"))
      \/ ExistingBridges(by, s) = {} /\ Arrive(q, [r EXCEPT !.step = "create"])
  BY <1>0, Zenon DEF OpenAsked
<1> QED
  BY <1>6, <1>7, <1>8, <1>9

LEMMA CloseAskedKeeps ==
  ASSUME BridgesInv, NEW q \in Requests,
         (\E by \in {"panel", "portta"} : CloseAsked(q, by)) \/ CollectAsked(q)
  PROVE  BridgesInv' /\ asked'[q].answer # "opened"
<1>1. PICK by \in {"panel", "portta"}, chosen \in SUBSET Listed,
           step \in {"done", "remove"}, answer \in {"failed", "closed"} :
        Arrive(q, [NotAsked EXCEPT !.by = by, !.list = chosen, !.step = step, !.answer = answer])
  BY DEF CloseAsked, CollectAsked, Stale
<1>2. PICK to : to = [NotAsked EXCEPT !.by = by, !.list = chosen, !.step = step, !.answer = answer]
  OBVIOUS
<1>3. chosen \subseteq BridgeIds
  BY DEF Listed
<1>4. to \in BridgeRequest /\ to.list = chosen /\ to.step = step /\ to.answer = answer
  BY <1>2, <1>3 DEF NotAsked, BridgeRequest, BridgeSteps, Answers
<1>5. Arrive(q, to)
  BY <1>1, <1>2
<1>6. asked'[q] = to
  BY <1>5 DEF Arrive, BridgesInv, BridgesTypeOK
<1> QED
  BY <1>4, <1>5, <1>6, ArriveKeeps

\* What a request under way is, and what one that is alone may count on.
LEMMA AskedUnderWay ==
  ASSUME BridgesInv, NEW q \in Requests, asked[q].step \notin {"new", "done"}
  PROVE  /\ q \in UnderWay /\ asked[q] \in BridgeRequest /\ asked[q].list \subseteq BridgeIds
         /\ \A b \in asked[q].list : bridge[b] # "none"
         /\ asked[q].step = "create" => asked[q].service \in Targets
         /\ ~overlapped => /\ Promised(asked[q])
                           /\ \A b, c \in Running : reaches[b] = reaches[c] => b = c
<1>1. q \in UnderWay /\ asked[q] \in BridgeRequest
  BY DEF UnderWay, BridgesInv, BridgesTypeOK
<1> QED
  BY <1>1 DEF BridgesInv, BridgeRequest, Alone

\* A step that is answered without touching a bridge.
LEMMA AnsweredKeeps ==
  ASSUME BridgesInv, NEW q \in UnderWay, NEW answer \in Answers,
         Goes(q, Answered(asked[q], answer)), UNCHANGED <<bridge, reaches, timed>>
  PROVE  /\ BridgesInv' /\ asked'[q].answer = answer
         /\ asked'[q].list = asked[q].list /\ asked'[q].by = asked[q].by
<1>1. /\ q \in Requests /\ asked[q] \in BridgeRequest /\ \A b \in asked[q].list : bridge[b] # "none"
      /\ ~overlapped => \A b, c \in Running : reaches[b] = reaches[c] => b = c
  BY AskedUnderWay DEF UnderWay
<1>2. PICK to : to = Answered(asked[q], answer)
  OBVIOUS
<1>3. /\ to \in BridgeRequest /\ to.step = "done" /\ to.answer = answer
      /\ to.list = asked[q].list /\ to.by = asked[q].by
  BY <1>1, <1>2, RequestFields
<1>4. Goes(q, to)
  BY <1>2
<1>5. asked'[q] = to
  BY <1>1, <1>4 DEF Goes, BridgesInv, BridgesTypeOK
<1>6. Promised(to)' /\ Running' = Running
  BY <1>3 DEF Promised, Running
<1> QED
  BY <1>1, <1>3, <1>4, <1>5, <1>6, GoesKeeps DEF BridgesInv, BridgesTypeOK

LEMMA CreateKeeps ==
  ASSUME BridgesInv, NEW q \in Requests, Create(q)
  PROVE  BridgesInv' /\ (asked'[q].answer = "opened" => asked[q].answer = "opened")
<1>0. asked[q].step = "create"
  BY Zenon DEF Create
<1>1. /\ q \in UnderWay /\ asked[q] \in BridgeRequest /\ asked[q].service \in Targets
      /\ ~overlapped => /\ \A b \in Running : reaches[b] # asked[q].service
                        /\ \A b, c \in Running : reaches[b] = reaches[c] => b = c
  BY <1>0, AskedUnderWay DEF Promised
<1>2. CASE Goes(q, Answered(asked[q], "failed")) /\ UNCHANGED <<bridge, reaches, timed>>
  BY <1>1, <1>2, AnsweredKeeps DEF Answers
<1>3. ASSUME NEW b \in BridgeIds, bridge[b] = "none", bridge' = [bridge EXCEPT ![b] = "created"],
             reaches' = [reaches EXCEPT ![b] = asked[q].service],
             timed' = IF asked[q].ttl THEN timed \cup {b} ELSE timed,
             Goes(q, [asked[q] EXCEPT !.step = "start", !.list = {b}])
      PROVE  BridgesInv' /\ asked'[q].answer = asked[q].answer
  <2>1. PICK to : to = [asked[q] EXCEPT !.step = "start", !.list = {b}]
    OBVIOUS
  <2>2. /\ to \in BridgeRequest /\ to.step = "start" /\ to.list = {b} /\ to.service = asked[q].service
        /\ to.answer = asked[q].answer
    BY <1>1, <2>1 DEF BridgeRequest, BridgeSteps
  <2>3. Goes(q, to)
    BY <1>3, <2>1
  <2>4. asked'[q] = to
    BY <2>3 DEF Goes, BridgesInv, BridgesTypeOK
  <2>5. /\ bridge' \in [BridgeIds -> {"none", "created", "running", "exited", "gone"}]
        /\ reaches' \in [BridgeIds -> Targets \cup {NoTarget}]
        /\ bridge'[b] = "created" /\ reaches'[b] = asked[q].service
        /\ \A c \in BridgeIds : c # b => bridge'[c] = bridge[c] /\ reaches'[c] = reaches[c]
    BY <1>1, <1>3 DEF BridgesInv, BridgesTypeOK
  <2>6. \A c \in BridgeIds : bridge'[c] = "none" <=> reaches'[c] = NoTarget
    BY <1>1, <2>5, NoTargetAssumption DEF BridgesInv, BridgesTypeOK
  <2>7. timed \subseteq timed' /\ timed' \subseteq BridgeIds
    BY <1>3 DEF BridgesInv, BridgesTypeOK
  <2>8. Running' = Running /\ \A c \in Running : c \in BridgeIds /\ reaches'[c] = reaches[c]
    BY <1>3, <2>5 DEF Running
  <2>9. ~overlapped => /\ \A c, d \in Running' : reaches'[c] = reaches'[d] => c = d
                       /\ Promised(to)'
    BY <1>1, <2>2, <2>5, <2>8 DEF Promised
  <2> QED
    BY <1>1, <1>3, <2>2, <2>3, <2>4, <2>5, <2>6, <2>7, <2>9, GoesKeeps
<1>6. \/ Goes(q, Answered(asked[q], "failed")) /\ UNCHANGED <<bridge, reaches, timed>>
      \/ \E b \in BridgeIds :
           /\ bridge[b] = "none" /\ bridge' = [bridge EXCEPT ![b] = "created"]
           /\ reaches' = [reaches EXCEPT ![b] = asked[q].service]
           /\ timed' = IF asked[q].ttl THEN timed \cup {b} ELSE timed
           /\ Goes(q, [asked[q] EXCEPT !.step = "start", !.list = {b}])
  BY Zenon DEF Create
<1> QED
  BY <1>2, <1>3, <1>6, Zenon

LEMMA StartKeeps ==
  ASSUME BridgesInv, NEW q \in Requests, Start(q)
  PROVE  BridgesInv' /\ (asked'[q].answer = "opened" => asked[q].answer = "opened")
<1>0. asked[q].step = "start" /\ UNCHANGED <<reaches, timed>>
  BY Zenon DEF Start
<1>1. /\ q \in UnderWay /\ asked[q] \in BridgeRequest /\ asked[q].list \subseteq BridgeIds
      /\ \A b \in asked[q].list : bridge[b] # "none"
      /\ ~overlapped => /\ \A b \in Running : reaches[b] # asked[q].service
                        /\ \A b \in asked[q].list : reaches[b] = asked[q].service
                        /\ \A b, c \in Running : reaches[b] = reaches[c] => b = c
  BY <1>0, AskedUnderWay DEF Promised
<1>2. CASE Goes(q, Answered(asked[q], "failed")) /\ UNCHANGED bridge
  BY <1>0, <1>1, <1>2, AnsweredKeeps DEF Answers
<1>3. ASSUME NEW b \in asked[q].list, bridge[b] = "created", bridge' = [bridge EXCEPT ![b] = "running"],
             Goes(q, [asked[q] EXCEPT !.step = "settle"])
      PROVE  BridgesInv' /\ asked'[q].answer = asked[q].answer
  <2>1. PICK to : to = [asked[q] EXCEPT !.step = "settle"]
    OBVIOUS
  <2>2. to \in BridgeRequest /\ to.step = "settle" /\ to.list = asked[q].list /\ to.answer = asked[q].answer
    BY <1>1, <2>1 DEF BridgeRequest, BridgeSteps
  <2>3. Goes(q, to)
    BY <1>3, <2>1
  <2>4. asked'[q] = to
    BY <2>3 DEF Goes, BridgesInv, BridgesTypeOK
  <2>5. /\ b \in BridgeIds
        /\ bridge' \in [BridgeIds -> {"none", "created", "running", "exited", "gone"}]
        /\ bridge'[b] = "running" /\ \A c \in BridgeIds : c # b => bridge'[c] = bridge[c]
    BY <1>1, <1>3 DEF BridgesInv, BridgesTypeOK
  <2>6. Running' = Running \cup {b}
    BY <1>3, <2>5 DEF Running
  <2>7. ~overlapped => \A c, d \in Running' : reaches'[c] = reaches'[d] => c = d
    BY <1>0, <1>1, <2>6
  <2>8. Promised(to)'
    BY <2>2 DEF Promised
  <2>9. /\ reaches' \in [BridgeIds -> Targets \cup {NoTarget}] /\ timed \subseteq timed' /\ timed' \subseteq BridgeIds
        /\ \A c \in BridgeIds : bridge'[c] = "none" <=> reaches'[c] = NoTarget
        /\ \A c \in BridgeIds : bridge[c] # "none" => bridge'[c] # "none"
    BY <1>0, <1>3, <2>5 DEF BridgesInv, BridgesTypeOK
  <2> QED
    BY <1>1, <2>2, <2>3, <2>4, <2>5, <2>7, <2>8, <2>9, GoesKeeps
<1>4. \/ Goes(q, Answered(asked[q], "failed")) /\ UNCHANGED bridge
      \/ \E b \in asked[q].list :
           /\ bridge[b] = "created" /\ bridge' = [bridge EXCEPT ![b] = "running"]
           /\ Goes(q, [asked[q] EXCEPT !.step = "settle"])
  BY Zenon DEF Start
<1> QED
  BY <1>0, <1>1, <1>2, <1>3, <1>4, AnsweredKeeps DEF Answers

\* A bridge may go, and a request with it: whatever is removed.
LEMMA GonesKeeps ==
  ASSUME BridgesInv, NEW q \in UnderWay, NEW to \in BridgeRequest, Goes(q, to),
         to.step \in {"remove", "done"}, to.list \subseteq asked[q].list,
         NEW b \in asked[q].list, bridge' \in {bridge, [bridge EXCEPT ![b] = "gone"]},
         UNCHANGED <<reaches, timed>>
  PROVE  BridgesInv'
<1>1. /\ b \in BridgeIds /\ \A c \in asked[q].list : c \in BridgeIds /\ bridge[c] # "none"
      /\ ~overlapped => \A c, d \in Running : reaches[c] = reaches[d] => c = d
  BY DEF BridgesInv, BridgesTypeOK, UnderWay, BridgeRequest, Alone
<1>2. /\ bridge' \in [BridgeIds -> {"none", "created", "running", "exited", "gone"}]
      /\ \A c \in BridgeIds : bridge'[c] = bridge[c] \/ (c = b /\ bridge'[c] = "gone")
  BY <1>1 DEF BridgesInv, BridgesTypeOK
<1>3. Running' \subseteq Running
  BY <1>2 DEF Running
<1>4. Promised(to)'
  BY DEF Promised
<1>5. /\ reaches' \in [BridgeIds -> Targets \cup {NoTarget}] /\ timed \subseteq timed' /\ timed' \subseteq BridgeIds
      /\ \A c \in BridgeIds : bridge'[c] = "none" <=> reaches'[c] = NoTarget
      /\ \A c \in BridgeIds : bridge[c] # "none" => bridge'[c] # "none"
  BY <1>1, <1>2 DEF BridgesInv, BridgesTypeOK
<1> QED
  BY <1>1, <1>2, <1>3, <1>4, <1>5, GoesKeeps

LEMMA SettleKeeps ==
  ASSUME BridgesInv, NEW q \in Requests, Settle(q)
  PROVE  /\ BridgesInv'
         /\ asked'[q].answer = "opened" /\ asked'[q].by = "portta" =>
              \E b \in asked'[q].list : bridge'[b] = "running"
<1>0. asked[q].step = "settle" /\ UNCHANGED <<reaches, timed>>
  BY Zenon DEF Settle
<1>1. q \in UnderWay /\ asked[q] \in BridgeRequest
  BY <1>0, AskedUnderWay
<1>2. PICK b \in asked[q].list :
        \/ LooksOpen(asked[q].by, b) /\ Goes(q, Answered(asked[q], "opened")) /\ UNCHANGED bridge
        \/ /\ bridge' \in {bridge, [bridge EXCEPT ![b] = "gone"]}
           /\ Goes(q, Answered(asked[q], "failed"))
  BY Zenon DEF Settle
<1>3. CASE LooksOpen(asked[q].by, b) /\ Goes(q, Answered(asked[q], "opened")) /\ UNCHANGED bridge
  BY <1>0, <1>1, <1>2, <1>3, AnsweredKeeps DEF LooksOpen, Answers
<1>4. CASE /\ bridge' \in {bridge, [bridge EXCEPT ![b] = "gone"]}
           /\ Goes(q, Answered(asked[q], "failed"))
  <2>1. PICK to : to = Answered(asked[q], "failed")
    OBVIOUS
  <2>2. to \in BridgeRequest /\ to.step = "done" /\ to.answer = "failed" /\ to.list = asked[q].list
    BY <1>1, <2>1, RequestFields DEF Answers
  <2>3. Goes(q, to)
    BY <1>4, <2>1
  <2>4. asked'[q] = to
    BY <2>3 DEF Goes, BridgesInv, BridgesTypeOK
  <2> QED
    BY <1>0, <1>1, <1>4, <2>2, <2>3, <2>4, GonesKeeps
<1> QED
  BY <1>2, <1>3, <1>4

LEMMA RemoveListedKeeps ==
  ASSUME BridgesInv, NEW q \in Requests, RemoveListed(q)
  PROVE  BridgesInv' /\ (asked'[q].answer = "opened" => asked[q].answer = "opened")
<1>0. asked[q].step = "remove" /\ UNCHANGED <<reaches, timed>>
  BY Zenon DEF RemoveListed
<1>1. q \in UnderWay /\ asked[q] \in BridgeRequest
  BY <1>0, AskedUnderWay
<1>2. PICK b \in asked[q].list :
        /\ bridge' = [bridge EXCEPT ![b] = "gone"]
        /\ Goes(q, [asked[q] EXCEPT !.list = @ \ {b},
                      !.step = IF asked[q].list = {b} THEN "done" ELSE "remove",
                      !.answer = IF asked[q].by = "panel" /\ bridge[b] = "gone" THEN "failed" ELSE @])
  BY Zenon DEF RemoveListed
<1>3. PICK to : to = [asked[q] EXCEPT !.list = @ \ {b},
                       !.step = IF asked[q].list = {b} THEN "done" ELSE "remove",
                       !.answer = IF asked[q].by = "panel" /\ bridge[b] = "gone" THEN "failed" ELSE @]
  OBVIOUS
<1>4. PICK r, state : r = asked[q] /\ state = bridge[b] /\
        to = [r EXCEPT !.list = @ \ {b},
               !.step = IF r.list = {b} THEN "done" ELSE "remove",
               !.answer = IF r.by = "panel" /\ state = "gone" THEN "failed" ELSE @]
  BY <1>3, Zenon
<1>5. /\ to \in BridgeRequest /\ to.list \subseteq asked[q].list
      /\ to.step \in {"done", "remove"} /\ to.answer \in {asked[q].answer, "failed"}
  <2>1. r \in BridgeRequest
    BY <1>1, <1>4
  <2>2. to.list \subseteq r.list
    BY <1>4, <2>1 DEF BridgeRequest
  <2>3. to.step \in {"done", "remove"}
    BY <1>4, <2>1 DEF BridgeRequest
  <2>4. to.answer \in {r.answer, "failed"}
    BY <1>4, <2>1 DEF BridgeRequest
  <2>5. to \in BridgeRequest
    BY <1>4, <2>1, <2>2, <2>3, <2>4, Zenon DEF BridgeRequest, BridgeSteps, Answers
  <2> QED
    BY <1>4, <2>2, <2>3, <2>4, <2>5
<1>6. Goes(q, to)
  BY <1>2, <1>3, Zenon
<1>7. asked'[q] = to
  BY <1>6 DEF Goes, BridgesInv, BridgesTypeOK
<1> QED
  BY <1>0, <1>1, <1>2, <1>5, <1>6, <1>7, GonesKeeps

\* Services and bridges that start and end by themselves.
LEMMA OthersKeep ==
  ASSUME BridgesInv,
         \/ \E s \in Targets : ServiceTurns(s)
         \/ \E b \in BridgeIds : BridgeEnds(b) \/ DeadlinePasses(b)
  PROVE  BridgesInv' /\ asked' = asked
<1>1. /\ UNCHANGED <<reaches, timed, asked, overlapped>>
      /\ up' \subseteq Targets /\ late' \subseteq timed
      /\ \/ bridge' = bridge
         \/ \E b \in Running : bridge' = [bridge EXCEPT ![b] = "exited"]
  BY DEF ServiceTurns, BridgeEnds, DeadlinePasses, BridgesInv, BridgesTypeOK
<1>2. /\ bridge' \in [BridgeIds -> {"none", "created", "running", "exited", "gone"}]
      /\ \A b \in BridgeIds : bridge'[b] = bridge[b] \/ (b \in Running /\ bridge'[b] = "exited")
  BY <1>1 DEF Running, BridgesInv, BridgesTypeOK
<1>3. Running' \subseteq Running /\ UnderWay' = UnderWay
  BY <1>1, <1>2 DEF Running, UnderWay
<1>4. BridgesTypeOK'
  BY <1>1, <1>2 DEF BridgesInv, BridgesTypeOK, Running
<1>5. \A q \in Requests : \A b \in asked'[q].list : bridge'[b] # "none"
  <2> TAKE q \in Requests
  <2>1. asked[q].list \subseteq BridgeIds
    BY DEF BridgesInv, BridgesTypeOK, BridgeRequest
  <2> QED
    BY <1>1, <1>2, <2>1 DEF BridgesInv
<1>6. Alone => Alone'
  BY <1>1, <1>3 DEF Alone, Promised
<1> QED
  BY <1>1, <1>4, <1>5, <1>6 DEF BridgesInv

LEMMA BridgesStep == BridgesInv /\ [BridgesNext]_bridgeVars => BridgesInv'
<1> SUFFICES ASSUME BridgesInv, [BridgesNext]_bridgeVars PROVE BridgesInv'
  OBVIOUS
<1>1. CASE UNCHANGED bridgeVars
  BY <1>1 DEF bridgeVars, BridgesInv, BridgesTypeOK, Alone, UnderWay, Running, Promised
<1>2. CASE BridgesNext
  BY <1>2, OpenAskedKeeps, CloseAskedKeeps, CreateKeeps, StartKeeps, SettleKeeps, RemoveListedKeeps,
     OthersKeep DEF BridgesNext
<1> QED
  BY <1>1, <1>2

\* Docker's labels: a bridge names its service from the call that makes it, and only
\* one that was given a deadline has one, whatever the requests do to each other.
THEOREM BridgesTypes == BridgesSpec => []BridgesTypeOK
<1>1. BridgesInv => BridgesTypeOK
  BY DEF BridgesInv
<1> QED
  BY InitBridges, BridgesStep, <1>1, PTL DEF BridgesSpec

\* openBridge and portta access open: as long as no two requests overlap, a service is
\* reached by one running bridge, whichever of the two made it.
THEOREM OneBridgeRuns == BridgesSpec => []AloneOneRuns
<1>1. BridgesInv => AloneOneRuns
  BY DEF BridgesInv, Alone, AloneOneRuns
<1> QED
  BY InitBridges, BridgesStep, <1>1, PTL DEF BridgesSpec

Requested(q) ==
  \/ \E by \in {"panel", "portta"} :
       \/ \E s \in Targets, ttl \in BOOLEAN : OpenAsked(q, by, s, ttl)
       \/ CloseAsked(q, by)
  \/ CollectAsked(q) \/ Create(q) \/ Start(q) \/ Settle(q) \/ RemoveListed(q)

\* A request answers for itself.
LEMMA OwnAnswer ==
  ASSUME BridgesInv, NEW q \in Requests, Requested(q), NEW p \in Requests, p # q
  PROVE  asked'[p] = asked[p]
<1>1. ASSUME NEW by, NEW s, NEW ttl, OpenAsked(q, by, s, ttl) PROVE \E to : Arrive(q, to)
  BY <1>1, Zenon DEF OpenAsked
<1>2. ASSUME NEW by, CloseAsked(q, by) PROVE \E to : Arrive(q, to)
  BY <1>2, Zenon DEF CloseAsked
<1>3. CollectAsked(q) => \E to : Arrive(q, to)
  BY Zenon DEF CollectAsked
<1>4. Create(q) => \E to : Goes(q, to)
  BY Zenon DEF Create
<1>5. Start(q) => \E to : Goes(q, to)
  BY Zenon DEF Start
<1>6. Settle(q) => \E to : Goes(q, to)
  BY Zenon DEF Settle
<1>7. RemoveListed(q) => \E to : Goes(q, to)
  BY Zenon DEF RemoveListed
<1>8. \E to : Arrive(q, to) \/ Goes(q, to)
  BY <1>1, <1>2, <1>3, <1>4, <1>5, <1>6, <1>7 DEF Requested
<1>9. PICK to : asked' = [asked EXCEPT ![q] = to]
  BY <1>8, Zenon DEF Arrive, Goes
<1> QED
  BY <1>9 DEF BridgesInv, BridgesTypeOK

LEMMA OpenedRuns ==
  ASSUME BridgesInv, [BridgesNext]_bridgeVars
  PROVE  OpensForReal("portta")
<1> SUFFICES ASSUME NEW q \in Requests, SaysOpened(q), asked'[q].by = "portta"
             PROVE  \E b \in asked'[q].list : bridge'[b] = "running"
  BY DEF OpensForReal
<1>1. asked[q].answer # "opened" /\ asked'[q].answer = "opened" /\ asked' # asked
  BY DEF SaysOpened
<1>2. PICK p \in Requests : Requested(p)
  BY <1>1, OthersKeep DEF BridgesNext, Requested, bridgeVars
<1>3. p = q
  BY <1>1, <1>2, OwnAnswer
<1>4. ASSUME NEW by \in {"panel", "portta"}, NEW s \in Targets, NEW ttl \in BOOLEAN, OpenAsked(q, by, s, ttl)
      PROVE  \E b \in asked'[q].list : bridge'[b] = "running"
  BY <1>1, <1>4, OpenAskedKeeps
<1> QED
  BY <1>1, <1>2, <1>3, <1>4, CloseAskedKeeps, CreateKeeps, StartKeeps, SettleKeeps, RemoveListedKeeps
     DEF Requested

\* "A bridge that cannot reach its target should fail loudly, not look open": portta
\* says a bridge is open only while it runs, whoever stops or removes it meanwhile.
THEOREM PorttaBridgesRun == BridgesSpec => PorttaOpensForReal
<1>1. BridgesInv /\ [BridgesNext]_bridgeVars => [OpensForReal("portta")]_bridgeVars
  BY OpenedRuns
<1> QED
  BY InitBridges, BridgesStep, <1>1, PTL DEF BridgesSpec, PorttaOpensForReal

-----------------------------------------------------------------------------
(* Actions: about finite sets of naturals, and what a recursive function   *)
(* over 0..N comes to.                                                     *)

\* A family of finite subsets of S, and one of its sets that no other is inside.
Family(S, C) == C \subseteq SUBSET S /\ C # {} /\ \A A \in C : IsFiniteSet(A)
Minimal(C, A) == A \in C /\ \A B \in C : B \subseteq A => B = A

\* Any such family has one (which is what stands in for induction: a least
\* counterexample is a smallest of the finite sets of counterexamples).
LEMMA MinimalSubset ==
  ASSUME NEW S, NEW C, Family(S, C)
  PROVE  \E A : Minimal(C, A)
<1>1. IsWellFoundedOn(StrictSubsetOrdering(S), FiniteSubsetsOf(S))
  BY FS_StrictSubsetOrderingWellFounded
<1>2. C \subseteq FiniteSubsetsOf(S) /\ C # {}
  BY DEF FiniteSubsetsOf, Family
<1>3. PICK A \in C : \A B \in C : ~ (<<B, A>> \in StrictSubsetOrdering(S))
  BY <1>1, <1>2, WFMin
<1> QED
  BY <1>2, <1>3 DEF StrictSubsetOrdering, Minimal, Family

\* A finite set of naturals has a smallest and a largest member, which is what Min and
\* Max are.
LEMMA Extremes ==
  ASSUME NEW S \in SUBSET Nat, IsFiniteSet(S), S # {}
  PROVE  /\ Min(S) \in S /\ \A y \in S : Min(S) <= y
         /\ Max(S) \in S /\ \A y \in S : y <= Max(S)
<1>1. \E x \in S : \A y \in S : x <= y
  <2> DEFINE Below(x) == {y \in S : y <= x}
             C == {Below(x) : x \in S}
  <2>1. C \subseteq SUBSET S /\ C # {}
    OBVIOUS
  <2>2. \A A \in C : IsFiniteSet(A)
    BY <2>1, FS_Subset
  <2>3. Family(S, C)
    BY <2>1, <2>2 DEF Family
  <2>4. PICK A : Minimal(C, A)
    BY <2>3, MinimalSubset
  <2>5. PICK x \in S : A = Below(x)
    BY <2>4 DEF Minimal
  <2>6. ASSUME NEW y \in S, y < x PROVE FALSE
    <3>1. Below(y) \in C
      OBVIOUS
    <3>2. Below(y) \subseteq Below(x) /\ x \in Below(x) /\ x \notin Below(y)
      <4>1. \A z \in Nat : z <= y => z <= x
        BY <2>6
      <4>2. x <= x /\ ~(x <= y)
        BY <2>6
      <4> QED
        BY <4>1, <4>2
    <3> QED
      BY <2>4, <2>5, <3>1, <3>2 DEF Minimal
  <2> QED
    BY <2>6
<1>2. \E x \in S : \A y \in S : y <= x
  <2> DEFINE Above(x) == {y \in S : x <= y}
             C == {Above(x) : x \in S}
  <2>1. C \subseteq SUBSET S /\ C # {}
    OBVIOUS
  <2>2. \A A \in C : IsFiniteSet(A)
    BY <2>1, FS_Subset
  <2>3. Family(S, C)
    BY <2>1, <2>2 DEF Family
  <2>4. PICK A : Minimal(C, A)
    BY <2>3, MinimalSubset
  <2>5. PICK x \in S : A = Above(x)
    BY <2>4 DEF Minimal
  <2>6. ASSUME NEW y \in S, x < y PROVE FALSE
    <3>1. Above(y) \in C
      OBVIOUS
    <3>2. Above(y) \subseteq Above(x) /\ x \in Above(x) /\ x \notin Above(y)
      <4>1. \A z \in Nat : y <= z => x <= z
        BY <2>6
      <4>2. x <= x /\ ~(y <= x)
        BY <2>6
      <4> QED
        BY <4>1, <4>2
    <3> QED
      BY <2>4, <2>5, <3>1, <3>2 DEF Minimal
  <2> QED
    BY <2>6
<1> QED
  BY <1>1, <1>2 DEF Min, Max

\* What holds of 0 and of a number after each it holds of, holds up to n.
LEMMA UpTo ==
  ASSUME NEW n \in Nat, NEW T, 0 \in T, \A m \in 0..n - 1 : m \in T => m + 1 \in T
  PROVE  0..n \subseteq T
<1> SUFFICES ASSUME (0..n) \ T # {} PROVE FALSE
  OBVIOUS
<1> DEFINE U == (0..n) \ T
<1>1. U \in SUBSET Nat /\ IsFiniteSet(U)
  <2>1. IsFiniteSet(0..n)
    BY FS_Interval
  <2> QED
    BY <2>1, FS_Subset
<1>2. Min(U) \in U /\ \A y \in U : Min(U) <= y
  BY <1>1, Extremes
<1>3. PICK k \in U : \A y \in U : k <= y
  BY <1>2
<1>4. k \in 1..n /\ k - 1 \in 0..n - 1 /\ k - 1 \notin U
  BY <1>3
<1> QED
  BY <1>4

\* The function OrderedKeys is recursive over 0..N: there is one that satisfies its
\* equation.
LEMMA KahnDefined ==
  ASSUME NEW edges, NEW keys, NEW N \in Nat
  PROVE \E f : f = [n \in 0..N |-> IF n = 0 THEN <<>> ELSE Extended(edges, keys, f[n - 1])]
<1> DEFINE Upto(n, f) == f = [m \in 0..n |-> IF m = 0 THEN <<>> ELSE Extended(edges, keys, f[m - 1])]
           T == {n \in Nat : \E f : Upto(n, f)}
<1>1. 0 \in T
  <2>1. Upto(0, [m \in 0..0 |-> <<>>])
    OBVIOUS
  <2> QED
    BY <2>1
<1>2. ASSUME NEW n \in 0..N - 1, n \in T PROVE n + 1 \in T
  <2>1. PICK f : Upto(n, f)
    BY <1>2
  <2> DEFINE g == [m \in 0..n + 1 |-> IF m = 0 THEN <<>> ELSE Extended(edges, keys, f[m - 1])]
  <2>2. \A m \in 0..n : g[m] = f[m]
    BY <2>1
  <2>3. \A m \in 0..n + 1 : m # 0 => g[m - 1] = f[m - 1]
    <3>1. \A m \in 0..n + 1 : m # 0 => m - 1 \in 0..n
      OBVIOUS
    <3> QED
      BY <2>2, <3>1
  <2>4. g = [m \in 0..n + 1 |-> IF m = 0 THEN <<>> ELSE Extended(edges, keys, g[m - 1])]
    <3> HIDE DEF g
    <3> QED
      BY <2>3 DEF g
  <2>5. \E h : Upto(n + 1, h)
    <3> HIDE DEF g
    <3> QED
      BY <2>4
  <2> HIDE DEF g, Upto
  <2> QED
    BY <2>5
<1> HIDE DEF T
<1>3. N \in T
  BY <1>1, <1>2, UpTo
<1> QED
  BY <1>3 DEF T

\* So its values can be followed round by round.
Rounds(edges, keys, N, f) ==
  /\ f[0] = <<>>
  /\ \A n \in 1..N : f[n] = Extended(edges, keys, f[n - 1])
  /\ OrderedKeys(edges, keys) = f[N]

LEMMA KahnUnfolds ==
  ASSUME NEW edges, NEW keys, NEW N \in Nat, N = Cardinality(keys)
  PROVE  \E f : Rounds(edges, keys, N, f)
<1> DEFINE P(f) == f = [n \in 0..Cardinality(keys) |-> IF n = 0 THEN <<>> ELSE Extended(edges, keys, f[n - 1])]
<1>1. PICK f : f = CHOOSE g : P(g)
  OBVIOUS
<1>2. P(f)
  BY <1>1, KahnDefined
<1>3. OrderedKeys(edges, keys) = f[N]
  BY <1>1 DEF OrderedKeys
<1>4. f[0] = <<>> /\ \A n \in 1..N : f[n] = Extended(edges, keys, f[n - 1])
  <2>1. 0 \in 0..N /\ \A n \in 1..N : n \in 0..N /\ n # 0
    OBVIOUS
  <2> QED
    BY <1>2, <2>1
<1> QED
  BY <1>3, <1>4 DEF Rounds

-----------------------------------------------------------------------------
(* orderProjectServices.                                                   *)

\* What Kahn's algorithm has after n rounds: services, each once, each after
\* whatever holds it back, and one more with every round that found one.
Kahn(edges, keys, s, n) ==
  /\ s \in Seq(keys)
  /\ IsFiniteSet(ToSet(s)) /\ Cardinality(ToSet(s)) = Len(s)
  /\ \A i, j \in 1..Len(s) : s[i] = s[j] => i = j
  /\ \A i \in 1..Len(s) : \A e \in edges : e[2] = s[i] => \E j \in 1..i - 1 : s[j] = e[1]
  /\ Len(s) = n \/ Ready(edges, keys, ToSet(s)) = {}

\* One more round keeps what it has so far.
LEMMA KahnRound ==
  ASSUME NEW edges, NEW keys \in SUBSET Nat, IsFiniteSet(keys), NEW n \in Nat, NEW s,
         Kahn(edges, keys, s, n)
  PROVE  Kahn(edges, keys, Extended(edges, keys, s), n + 1)
<1> DEFINE next == Ready(edges, keys, ToSet(s))
<1>1. CASE next = {}
  BY <1>1 DEF Kahn, Extended
<1>2. CASE next # {}
  <2>1. next \subseteq keys /\ next \subseteq Nat
    BY DEF Ready
  <2>2. Min(next) \in next
    BY <1>2, <2>1, FS_Subset, Extremes
  <2>3. PICK k : k = Min(next)
    OBVIOUS
  <2>4. k \in keys /\ k \notin ToSet(s) /\ \A e \in edges : e[2] = k => e[1] \in ToSet(s)
    BY <2>2, <2>3 DEF Ready
  <2>5. PICK t : t = Append(s, k)
    OBVIOUS
  <2>6. Extended(edges, keys, s) = t
    BY <1>2, <2>3, <2>5 DEF Extended
  <2>7. s \in Seq(keys) /\ Len(s) \in Nat /\ DOMAIN s = 1..Len(s)
    BY DEF Kahn
  <2>8. /\ t \in Seq(keys) /\ Len(t) = Len(s) + 1 /\ t[Len(s) + 1] = k
        /\ \A i \in 1..Len(s) : t[i] = s[i]
    BY <2>4, <2>5, <2>7, AppendProperties
  <2>9. ToSet(t) = ToSet(s) \cup {k}
    <3>1. DOMAIN t = 1..Len(s) + 1
      BY <2>7, <2>8
    <3>2. 1..Len(s) + 1 = (1..Len(s)) \cup {Len(s) + 1}
      BY <2>7
    <3> QED
      BY <2>7, <2>8, <3>1, <3>2 DEF ToSet
  <2>10. IsFiniteSet(ToSet(t)) /\ Cardinality(ToSet(t)) = Len(t)
    <3>1. IsFiniteSet(ToSet(s)) /\ Cardinality(ToSet(s)) = Len(s)
      BY DEF Kahn
    <3>2. /\ IsFiniteSet(ToSet(s) \cup {k})
          /\ Cardinality(ToSet(s) \cup {k}) = Cardinality(ToSet(s)) + 1
      BY <2>4, <3>1, FS_AddElement
    <3> QED
      BY <2>8, <2>9, <3>1, <3>2
  <2>11. \A i \in 1..Len(s) : s[i] \in ToSet(s)
    BY <2>7 DEF ToSet
  <2>12. \A i \in 1..Len(t) : i \in 1..Len(s) \/ i = Len(s) + 1
    BY <2>7, <2>8
  <2>13. \A i, j \in 1..Len(t) : t[i] = t[j] => i = j
    BY <2>4, <2>8, <2>11, <2>12 DEF Kahn
  <2>14. ASSUME NEW i \in 1..Len(t), NEW e \in edges, e[2] = t[i]
         PROVE  \E j \in 1..i - 1 : t[j] = e[1]
    <3>1. CASE i \in 1..Len(s)
      <4>1. PICK j \in 1..i - 1 : s[j] = e[1]
        BY <2>8, <2>14, <3>1 DEF Kahn
      <4>2. j \in 1..Len(s)
        BY <2>7, <3>1, <4>1
      <4> QED
        BY <2>8, <4>1, <4>2
    <3>2. CASE i = Len(s) + 1
      <4>1. e[1] \in ToSet(s)
        BY <2>4, <2>8, <2>14, <3>2
      <4>2. PICK j \in 1..Len(s) : s[j] = e[1]
        BY <2>7, <4>1 DEF ToSet
      <4> QED
        BY <2>7, <2>8, <3>2, <4>2
    <3> QED
      BY <2>12, <3>1, <3>2
  <2>15. Len(s) = n
    BY <1>2 DEF Kahn
  <2>16. Kahn(edges, keys, t, n + 1)
    <3> HIDE DEF next
    <3>1. Len(t) = n + 1
      BY <2>8, <2>15
    <3> QED
      BY <2>8, <2>10, <2>13, <2>14, <3>1 DEF Kahn
  <2> QED
    BY <2>6, <2>16
<1> QED
  BY <1>1, <1>2

\* And what it ends with: nothing is ready that is not in it.
LEMMA KahnEnds ==
  ASSUME NEW edges, NEW keys \in SUBSET Nat, IsFiniteSet(keys)
  PROVE  /\ Kahn(edges, keys, OrderedKeys(edges, keys), Cardinality(keys))
         /\ Ready(edges, keys, ToSet(OrderedKeys(edges, keys))) = {}
<1>1. PICK N \in Nat : N = Cardinality(keys)
  BY FS_CardinalityType
<1>2. PICK f : Rounds(edges, keys, N, f)
  BY <1>1, KahnUnfolds
<1> DEFINE T == {n \in Nat : Kahn(edges, keys, f[n], n)}
<1>3. 0 \in T
  <2>1. <<>> \in Seq(keys) /\ Len(<<>>) = 0 /\ DOMAIN <<>> = {}
    OBVIOUS
  <2>2. ToSet(<<>>) = {}
    BY DEF ToSet
  <2>3. IsFiniteSet(ToSet(<<>>)) /\ Cardinality(ToSet(<<>>)) = Len(<<>>)
    BY <2>1, <2>2, FS_EmptySet
  <2>4. 1..Len(<<>>) = {}
    BY <2>1
  <2>5. Kahn(edges, keys, <<>>, 0)
    BY <2>1, <2>3, <2>4 DEF Kahn
  <2> QED
    BY <1>2, <2>5 DEF Rounds
<1>4. ASSUME NEW n \in 0..N - 1, n \in T PROVE n + 1 \in T
  <2>1. n \in Nat /\ n + 1 \in 1..N /\ (n + 1) - 1 = n
    OBVIOUS
  <2>2. f[n + 1] = Extended(edges, keys, f[n])
    BY <1>2, <2>1 DEF Rounds
  <2> QED
    BY <1>4, <2>1, <2>2, KahnRound
<1> HIDE DEF T
<1>5. N \in T
  BY <1>3, <1>4, UpTo
<1>6. Kahn(edges, keys, f[N], N)
  BY <1>5 DEF T
<1>7. CASE Len(f[N]) = N
  <2>1. ToSet(f[N]) \subseteq keys
    BY <1>6 DEF Kahn, ToSet
  <2>2. ToSet(f[N]) = keys
    BY <1>1, <1>6, <1>7, <2>1, FS_Subset DEF Kahn
  <2> QED
    BY <1>1, <1>2, <1>6, <2>2 DEF Ready, Rounds
<1>8. CASE Ready(edges, keys, ToSet(f[N])) = {}
  BY <1>1, <1>2, <1>6, <1>8 DEF Rounds
<1>9. Len(f[N]) = N \/ Ready(edges, keys, ToSet(f[N])) = {}
  BY <1>6 DEF Kahn
<1> QED
  BY <1>7, <1>8, <1>9

\* A service is spoken for by a container of it.
LEMMA RepresentativeSpeaks ==
  ASSUME service \in [Containers -> Nat], NEW edges, NEW members \in SUBSET Containers,
         NEW k \in Keys(members)
  PROVE  Representative(edges, members, k) \in members /\ Key(Representative(edges, members, k)) = k
<1> DEFINE replicas == {c \in members : Key(c) = k}
<1>1. replicas # {} /\ replicas \subseteq members
  BY DEF Keys
<1>2. replicas \in SUBSET Nat /\ IsFiniteSet(replicas)
  BY <1>1, ContainersAssumption, FS_Subset
<1>3. Min(replicas) \in replicas /\ Max(replicas) \in replicas
  BY <1>1, <1>2, Extremes
<1> QED
  BY <1>3 DEF Representative

\* Containers by name, of one service as Docker lists them: one is before the other,
\* and so each has a place of its own.
LEMMA ByNameLists ==
  ASSUME service \in [Containers -> Nat], NEW S \in SUBSET Containers
  PROVE  /\ ByName(S) \in Seq(S)
         /\ \A c \in S : \E i \in 1..Len(ByName(S)) : ByName(S)[i] = c
<1> DEFINE rank(c) == Cardinality(Before(S, c))
<1>1. S \subseteq Nat /\ IsFiniteSet(S) /\ \A c \in S : Key(c) \in Nat
  BY ContainersAssumption, FS_Subset DEF Key
<1>2. PICK N \in Nat : N = Cardinality(S)
  BY <1>1, FS_CardinalityType
<1>3. \A c \in S : IsFiniteSet(Before(S, c)) /\ rank(c) \in Nat /\ Before(S, c) \subseteq S
  BY <1>1, FS_Subset, FS_CardinalityType DEF Before
<1>4. ASSUME NEW c \in S, NEW T \in SUBSET S, Before(S, c) \subseteq T, c \in T, IsFiniteSet(T)
      PROVE  rank(c) + 1 <= Cardinality(T)
  <2>1. c \notin Before(S, c)
    BY <1>1 DEF Before
  <2>2. Cardinality(Before(S, c) \cup {c}) = rank(c) + 1
    BY <1>3, <2>1, FS_AddElement
  <2>3. Before(S, c) \cup {c} \in SUBSET T
    BY <1>4
  <2>4. Cardinality(Before(S, c) \cup {c}) <= Cardinality(T)
    BY <1>4, <2>3, FS_Subset
  <2> QED
    BY <2>2, <2>4
<1>5. \A c \in S : rank(c) + 1 \in 1..N
  <2> TAKE c \in S
  <2>1. rank(c) + 1 <= N
    BY <1>1, <1>2, <1>3, <1>4
  <2> QED
    BY <1>3, <2>1
<1>6. ASSUME NEW c \in S, NEW d \in S, c \in Before(S, d) PROVE rank(c) + 1 <= rank(d)
  <2>1. Before(S, c) \subseteq Before(S, d)
    <3>1. ASSUME NEW e \in Before(S, c) PROVE e \in Before(S, d)
      <4>1. /\ e \in S /\ Key(e) \in Nat /\ Key(c) \in Nat /\ Key(d) \in Nat
            /\ e \in Nat /\ c \in Nat /\ d \in Nat
            /\ Key(e) < Key(c) \/ (Key(e) = Key(c) /\ e < c)
            /\ Key(c) < Key(d) \/ (Key(c) = Key(d) /\ c < d)
        BY <1>1, <1>6, <3>1 DEF Before
      <4>2. Key(e) < Key(d) \/ (Key(e) = Key(d) /\ e < d)
        BY <4>1
      <4> QED
        BY <4>1, <4>2 DEF Before
    <3> QED
      BY <3>1
  <2> QED
    BY <1>3, <1>4, <1>6, <2>1
<1>7. ASSUME NEW c \in S, NEW d \in S, rank(c) = rank(d) PROVE c = d
  <2>1. c \notin Before(S, d)
    BY <1>3, <1>6, <1>7
  <2>2. d \notin Before(S, c)
    BY <1>3, <1>6, <1>7
  <2>3. /\ Key(c) \in Nat /\ Key(d) \in Nat /\ c \in Nat /\ d \in Nat
        /\ ~(Key(c) < Key(d) \/ (Key(c) = Key(d) /\ c < d))
        /\ ~(Key(d) < Key(c) \/ (Key(d) = Key(c) /\ d < c))
    BY <1>1, <2>1, <2>2 DEF Before
  <2> QED
    BY <2>3
<1>8. \A i \in 1..N : \E c \in S : rank(c) = i - 1
  <2> DEFINE place == [c \in S |-> rank(c) + 1]
  <2>1. place \in [S -> 1..N]
    BY <1>5
  <2>2. \A c, d \in S : place[c] = place[d] => c = d
    <3>1. \A c, d \in S : rank(c) + 1 = rank(d) + 1 => rank(c) = rank(d)
      BY <1>3
    <3> QED
      BY <1>7, <3>1
  <2>3. place \in Injection(S, 1..N)
    BY <2>1, <2>2 DEF Injection, IsInjective
  <2>4. IsFiniteSet(1..N) /\ Cardinality(1..N) = N
    BY FS_Interval
  <2>5. place \in Surjection(S, 1..N)
    BY <1>2, <2>3, <2>4, FS_Injection
  <2>6. \A i \in 1..N : \E c \in S : place[c] = i
    BY <2>5 DEF Surjection
  <2>7. \A i \in 1..N : \A c \in S : place[c] = i => rank(c) = i - 1
    BY <1>3
  <2> QED
    BY <2>6, <2>7
<1>9. \A i \in 1..N : LET d == CHOOSE c \in S : rank(c) = i - 1 IN d \in S /\ rank(d) = i - 1
  BY <1>8
<1>10. ByName(S) = [i \in 1..N |-> CHOOSE c \in S : rank(c) = i - 1]
  BY <1>2 DEF ByName
<1>11. /\ ByName(S) \in Seq(S) /\ Len(ByName(S)) = N
       /\ \A i \in 1..N : ByName(S)[i] \in S /\ rank(ByName(S)[i]) = i - 1
  BY <1>9, <1>10
<1>12. ASSUME NEW c \in S PROVE \E i \in 1..N : ByName(S)[i] = c
  <2>1. PICK i \in 1..N : i = rank(c) + 1
    BY <1>5
  <2>2. rank(ByName(S)[i]) = rank(c) /\ ByName(S)[i] \in S
    BY <1>3, <1>11, <2>1
  <2> QED
    BY <1>7, <2>2
<1> QED
  BY <1>11, <1>12

\* Without a circle, of any services one is needed by none of them, too: a circle is
\* one in both directions.
LEMMA OneIsNotNeeded ==
  ASSUME Acyclic, NEW U \in SUBSET Keys(Containers), U # {}, IsFiniteSet(U)
  PROVE  \E t \in U : \A s \in U : <<s, t>> \notin dependsOn
<1> SUFFICES ASSUME \A t \in U : \E s \in U : <<s, t>> \in dependsOn PROVE FALSE
  OBVIOUS
<1> DEFINE C == {A \in SUBSET U : A # {} /\ \A t \in A : \E s \in A : <<s, t>> \in dependsOn}
<1>1. Family(U, C)
  <2>1. U \in C
    OBVIOUS
  <2>2. \A A \in C : IsFiniteSet(A)
    BY FS_Subset
  <2> QED
    BY <2>1, <2>2 DEF Family
<1>2. PICK A : Minimal(C, A)
  BY <1>1, MinimalSubset
<1>3. A \in SUBSET U /\ A # {} /\ (\A t \in A : \E s \in A : <<s, t>> \in dependsOn)
  BY <1>2 DEF Minimal
<1>4. PICK x \in A : \A t \in A : <<x, t>> \notin dependsOn
  BY <1>3 DEF Acyclic
<1>5. A \ {x} \in C
  <2>1. A \ {x} \in SUBSET U
    BY <1>3
  <2>2. \A t \in A : \E s \in A \ {x} : <<s, t>> \in dependsOn
    BY <1>3, <1>4
  <2> QED
    BY <2>1, <2>2
<1>6. A \ {x} \subseteq A /\ A \ {x} # A
  OBVIOUS
<1> QED
  BY <1>2, <1>5, <1>6 DEF Minimal

\* The services that are there.
LEMMA KeysAreFinite ==
  ASSUME service \in [Containers -> Nat], NEW members \in SUBSET Containers
  PROVE  Keys(members) \in SUBSET Nat /\ IsFiniteSet(Keys(members))
<1>1. Keys(members) \in SUBSET Nat
  BY DEF Keys, Key
<1> DEFINE key == [c \in members |-> Key(c)]
<1>2. key \in Surjection(members, Keys(members))
  <2>1. key \in [members -> Keys(members)]
    BY DEF Keys
  <2>2. \A k \in Keys(members) : \E c \in members : key[c] = k
    BY DEF Keys
  <2> QED
    BY <2>1, <2>2 DEF Surjection
<1>3. IsFiniteSet(members)
  BY ContainersAssumption, FS_Subset
<1> QED
  BY <1>1, <1>2, <1>3, FS_Surjection

\* What holds a service back: what it needs for a start, what needs it for a stop.
LEMMA EdgesOf ==
  ASSUME dependsOn \in SUBSET (Nat \X Nat), NEW members, NEW direction \in {"start", "stop"}
  PROVE  /\ \A e \in Edges(members, direction) :
              e[1] \in Keys(members) /\ e[2] \in Keys(members) /\ e = <<e[1], e[2]>>
         /\ \A s, t \in Keys(members) :
              <<s, t>> \in Edges(members, direction) <=>
                (IF direction = "start" THEN <<t, s>> ELSE <<s, t>>) \in dependsOn
<1> DEFINE inside == {d \in dependsOn : {d[1], d[2]} \subseteq Keys(members)}
<1>1. \A d \in dependsOn : d = <<d[1], d[2]>>
  OBVIOUS
<1>2. CASE direction = "start"
  <2>1. Edges(members, direction) = {<<d[2], d[1]>> : d \in inside}
    BY <1>2 DEF Edges
  <2>2. \A s, t \in Keys(members) : <<s, t>> \in Edges(members, direction) <=> <<t, s>> \in dependsOn
    <3> TAKE s, t \in Keys(members)
    <3>1. <<t, s>> \in dependsOn => <<t, s>> \in inside /\ <<t, s>>[1] = t /\ <<t, s>>[2] = s
      OBVIOUS
    <3>2. ASSUME NEW d \in inside, <<s, t>> = <<d[2], d[1]>> PROVE <<t, s>> \in dependsOn
      BY <1>1, <3>2
    <3> QED
      BY <2>1, <3>1, <3>2
  <2> QED
    BY <1>2, <2>1, <2>2
<1>3. CASE direction = "stop"
  <2>1. Edges(members, direction) = {<<d[1], d[2]>> : d \in inside}
    BY <1>3 DEF Edges
  <2>2. \A s, t \in Keys(members) : <<s, t>> \in Edges(members, direction) <=> <<s, t>> \in dependsOn
    <3> TAKE s, t \in Keys(members)
    <3>1. <<s, t>> \in dependsOn => <<s, t>> \in inside /\ <<s, t>>[1] = s /\ <<s, t>>[2] = t
      OBVIOUS
    <3>2. ASSUME NEW d \in inside, <<s, t>> = <<d[1], d[2]>> PROVE <<s, t>> \in dependsOn
      BY <1>1, <3>2
    <3> QED
      BY <2>1, <3>1, <3>2
  <2> QED
    BY <1>3, <2>1, <2>2
<1> QED
  BY <1>2, <1>3

\* Without a circle, nobody is left over.
LEMMA NobodyLeftOver ==
  ASSUME service \in Layouts, dependsOn \in SUBSET (Nat \X Nat), Acyclic,
         NEW members \in SUBSET Containers, NEW direction \in {"start", "stop"}
  PROVE  Keys(members) \subseteq ToSet(OrderedKeys(Edges(members, direction), Keys(members)))
<1> DEFINE edges == Edges(members, direction)
           ordered == OrderedKeys(edges, Keys(members))
           U == Keys(members) \ ToSet(ordered)
<1> SUFFICES ASSUME U # {} PROVE FALSE
  OBVIOUS
<1>1. service \in [Containers -> Nat]
  BY LayoutsAssumption
<1>2. Keys(members) \in SUBSET Nat /\ IsFiniteSet(Keys(members))
  BY <1>1, KeysAreFinite
<1>3. Ready(edges, Keys(members), ToSet(ordered)) = {}
  BY <1>2, KahnEnds
<1>4. ASSUME NEW k \in U PROVE \E p \in U : <<p, k>> \in edges
  <2>1. PICK e \in edges : e[2] = k /\ e[1] \notin ToSet(ordered)
    BY <1>3, <1>4 DEF Ready
  <2>2. e[1] \in Keys(members) /\ e = <<e[1], e[2]>>
    BY EdgesOf
  <2> QED
    BY <2>1, <2>2
<1>5. Keys(members) \subseteq Keys(Containers)
  BY DEF Keys
<1>6. U \in SUBSET Keys(Containers) /\ IsFiniteSet(U)
  BY <1>2, <1>5, FS_Difference
<1> HIDE DEF U, edges
<1>7. CASE direction = "start"
  <2>1. PICK s \in U : \A t \in U : <<s, t>> \notin dependsOn
    BY <1>6 DEF Acyclic
  <2>2. PICK p \in U : <<p, s>> \in edges
    BY <1>4
  <2> QED
    BY <1>7, <2>1, <2>2, EdgesOf DEF U, edges
<1>8. CASE direction = "stop"
  <2>1. PICK t \in U : \A s \in U : <<s, t>> \notin dependsOn
    BY <1>6, OneIsNotNeeded
  <2>2. PICK p \in U : <<p, t>> \in edges
    BY <1>4
  <2> QED
    BY <1>8, <2>1, <2>2, EdgesOf DEF U, edges
<1> QED
  BY <1>7, <1>8

\* The order: containers of the environment, one at least of every service, and
\* without a circle nobody before what holds its service back.
LEMMA OrderIsWhole ==
  ASSUME service \in Layouts, dependsOn \in SUBSET (Nat \X Nat),
         NEW members \in SUBSET Containers, NEW direction \in {"start", "stop"}, NEW order,
         order = orderProjectServices(members, direction)
  PROVE  /\ order \in Seq(members)
         /\ \A k \in Keys(members) : \E i \in 1..Len(order) : Key(order[i]) = k
         /\ Acyclic => \A i, j \in 1..Len(order) :
              <<Key(order[i]), Key(order[j])>> \in Edges(members, direction) => i < j
<1> DEFINE edges == Edges(members, direction)
           keys == Keys(members)
           leftover == {c \in members : Key(c) \notin ToSet(OrderedKeys(edges, keys))}
<1>1. service \in [Containers -> Nat]
  BY LayoutsAssumption
<1>2. PICK ordered : ordered = OrderedKeys(edges, keys)
  OBVIOUS
<1>3. Kahn(edges, keys, ordered, Cardinality(keys))
  BY <1>1, <1>2, KeysAreFinite, KahnEnds
<1>4. ordered \in Seq(keys) /\ DOMAIN ordered = 1..Len(ordered) /\ Len(ordered) \in Nat
  BY <1>3 DEF Kahn
<1>5. PICK front : front = [i \in DOMAIN ordered |-> Representative(edges, members, ordered[i])]
  OBVIOUS
<1>6. \A i \in 1..Len(ordered) : /\ Representative(edges, members, ordered[i]) \in members
                                 /\ Key(Representative(edges, members, ordered[i])) = ordered[i]
  BY <1>1, <1>4, RepresentativeSpeaks
<1>7. /\ front \in Seq(members) /\ Len(front) = Len(ordered)
      /\ \A i \in 1..Len(ordered) : Key(front[i]) = ordered[i]
  BY <1>4, <1>5, <1>6
<1>8. PICK rest : rest = ByName(leftover)
  OBVIOUS
<1>9. /\ rest \in Seq(leftover)
      /\ \A c \in leftover : \E i \in 1..Len(rest) : rest[i] = c
  <2>1. leftover \in SUBSET Containers
    OBVIOUS
  <2> HIDE DEF leftover
  <2> QED
    BY <1>1, <1>8, <2>1, ByNameLists
<1>10. rest \in Seq(members) /\ Len(rest) \in Nat
  BY <1>9
<1>11. order = front \o rest
  BY <1>2, <1>5, <1>8 DEF orderProjectServices
<1>12. /\ order \in Seq(members) /\ Len(order) = Len(front) + Len(rest)
       /\ \A i \in 1..Len(front) : order[i] = front[i]
       /\ \A i \in 1..Len(rest) : order[Len(front) + i] = rest[i]
  <2>1. front \in Seq(members) /\ Len(front) \in Nat
    BY <1>4, <1>7
  <2>2. /\ order \in Seq(members) /\ Len(order) = Len(front) + Len(rest)
        /\ \A i \in 1..Len(front) + Len(rest) :
             order[i] = IF i <= Len(front) THEN front[i] ELSE rest[i - Len(front)]
    BY <1>10, <1>11, <2>1, ConcatProperties
  <2>3. \A i \in 1..Len(front) : i \in 1..Len(front) + Len(rest) /\ i <= Len(front)
    BY <1>10, <2>1
  <2>4. \A i \in 1..Len(rest) : /\ Len(front) + i \in 1..Len(front) + Len(rest)
                                /\ ~(Len(front) + i <= Len(front)) /\ (Len(front) + i) - Len(front) = i
    BY <1>10, <2>1
  <2> QED
    BY <2>2, <2>3, <2>4
<1>13. ASSUME NEW k \in keys PROVE \E i \in 1..Len(order) : Key(order[i]) = k
  <2>1. CASE k \in ToSet(ordered)
    <3>1. PICK i \in 1..Len(ordered) : ordered[i] = k
      BY <1>4, <2>1 DEF ToSet
    <3> QED
      BY <1>4, <1>7, <1>10, <1>12, <3>1
  <2>2. CASE k \notin ToSet(ordered)
    <3>1. PICK c \in leftover : Key(c) = k
      BY <1>2, <1>13, <2>2 DEF Keys
    <3>2. PICK i \in 1..Len(rest) : rest[i] = c
      BY <1>9
    <3> QED
      BY <1>4, <1>7, <1>10, <1>12, <3>1, <3>2
  <2> QED
    BY <2>1, <2>2
<1>14. ASSUME Acyclic, NEW i \in 1..Len(order), NEW j \in 1..Len(order),
              <<Key(order[i]), Key(order[j])>> \in edges
       PROVE  i < j
  <2>1. leftover = {}
    BY <1>14, NobodyLeftOver DEF Keys
  <2>2. Len(rest) = 0
    BY <1>9, <1>10, <2>1
  <2>3. i \in 1..Len(ordered) /\ j \in 1..Len(ordered)
    BY <1>7, <1>12, <2>2
  <2>4. Key(order[i]) = ordered[i] /\ Key(order[j]) = ordered[j]
    BY <1>7, <1>12, <2>3
  <2>5. PICK p \in 1..j - 1 : ordered[p] = ordered[i]
    BY <1>3, <1>14, <2>3, <2>4 DEF Kahn
  <2>6. p = i
    BY <1>3, <1>4, <2>3, <2>5 DEF Kahn
  <2> QED
    BY <2>3, <2>5, <2>6
<1> QED
  BY <1>12, <1>13, <1>14

\* A list of steps that does action to members: each service is in it with each verb
\* that the action stands for, and without a circle in the order of the dependencies.
Orderly(steps, members, action) ==
  /\ \A i \in 1..Len(steps) :
       steps[i].verb \in {"start", "stop"} /\ steps[i].container \in members /\ ~steps[i].force
  /\ \A k \in Keys(members), verb \in {"start", "stop"} :
       action \in {verb, "restart"} =>
         \E i \in 1..Len(steps) : steps[i].verb = verb /\ Key(steps[i].container) = k
  /\ Acyclic => \A i, j \in 1..Len(steps) :
       LET a == steps[i]  b == steps[j] IN
       /\ a.verb = "start" /\ b.verb = "start" /\ <<Key(b.container), Key(a.container)>> \in dependsOn => i < j
       /\ a.verb = "stop" /\ b.verb = "stop" /\ <<Key(a.container), Key(b.container)>> \in dependsOn => i < j
       /\ a.verb = "stop" /\ b.verb = "start" => i < j

\* s comes before t, for the one depends on the other.
HoldsBack(verb, s, t) == (IF verb = "start" THEN <<t, s>> ELSE <<s, t>>) \in dependsOn

\* One of its halves.
Half(steps, verb, members) ==
  /\ \A i \in 1..Len(steps) : steps[i].verb = verb /\ steps[i].container \in members /\ ~steps[i].force
  /\ \A k \in Keys(members) : \E i \in 1..Len(steps) : Key(steps[i].container) = k
  /\ Acyclic => \A i, j \in 1..Len(steps) :
       HoldsBack(verb, Key(steps[i].container), Key(steps[j].container)) => i < j

\* What orderProjectServices makes of the containers is an orderly half.
LEMMA HalfIsOrderly ==
  ASSUME service \in Layouts, dependsOn \in SUBSET (Nat \X Nat),
         NEW members \in SUBSET Containers, NEW verb \in {"start", "stop"}, NEW half,
         half = Steps(verb, orderProjectServices(members, verb))
  PROVE  half \in Seq(Step) /\ Half(half, verb, members)
<1>1. PICK order : order = orderProjectServices(members, verb)
  OBVIOUS
<1>2. /\ order \in Seq(members)
      /\ \A k \in Keys(members) : \E i \in 1..Len(order) : Key(order[i]) = k
      /\ Acyclic => \A i, j \in 1..Len(order) :
           <<Key(order[i]), Key(order[j])>> \in Edges(members, verb) => i < j
  BY <1>1, OrderIsWhole
<1>3. Len(order) \in Nat /\ DOMAIN order = 1..Len(order) /\ \A i \in 1..Len(order) : order[i] \in members
  BY <1>2
<1>4. half = [i \in 1..Len(order) |-> [verb |-> verb, container |-> order[i], force |-> FALSE]]
  BY <1>1, <1>3 DEF Steps
<1>5. /\ DOMAIN half = 1..Len(order)
      /\ \A i \in 1..Len(order) :
           /\ half[i] \in Step /\ half[i].verb = verb /\ half[i].container = order[i]
           /\ half[i].force = FALSE
  BY <1>3, <1>4 DEF Step, Verbs
<1>6. half \in Seq(Step) /\ Len(half) = Len(order)
  BY <1>3, <1>4, <1>5
<1>7. ASSUME Acyclic, NEW i \in 1..Len(half), NEW j \in 1..Len(half),
             HoldsBack(verb, Key(half[i].container), Key(half[j].container))
      PROVE  i < j
  <2>1. Key(order[i]) \in Keys(members) /\ Key(order[j]) \in Keys(members)
    BY <1>3, <1>6 DEF Keys
  <2>2. <<Key(order[i]), Key(order[j])>> \in Edges(members, verb)
    BY <1>5, <1>6, <1>7, <2>1, EdgesOf DEF HoldsBack
  <2> QED
    BY <1>2, <1>6, <1>7, <2>2
<1> QED
  BY <1>2, <1>3, <1>5, <1>6, <1>7 DEF Half

\* So a plan, of one half or of two, is orderly.
LEMMA PlanIsOrderly ==
  ASSUME service \in Layouts, dependsOn \in SUBSET (Nat \X Nat),
         NEW members \in SUBSET Containers, NEW action \in {"start", "stop", "restart"}
  PROVE  Plan(members, action) \in Seq(Step) /\ Orderly(Plan(members, action), members, action)
<1>1. PICK stops : stops = Steps("stop", orderProjectServices(members, "stop"))
  OBVIOUS
<1>2. PICK starts : starts = Steps("start", orderProjectServices(members, "start"))
  OBVIOUS
<1>3. stops \in Seq(Step) /\ Half(stops, "stop", members)
  BY <1>1, HalfIsOrderly
<1>4. starts \in Seq(Step) /\ Half(starts, "start", members)
  BY <1>2, HalfIsOrderly
<1>8. /\ \A i \in 1..Len(stops) : stops[i].verb = "stop" /\ stops[i].container \in members /\ ~stops[i].force
      /\ \A k \in Keys(members) : \E i \in 1..Len(stops) : Key(stops[i].container) = k
      /\ Acyclic => \A i, j \in 1..Len(stops) :
           <<Key(stops[i].container), Key(stops[j].container)>> \in dependsOn => i < j
  BY <1>3 DEF Half, HoldsBack
<1>9. /\ \A i \in 1..Len(starts) : starts[i].verb = "start" /\ starts[i].container \in members /\ ~starts[i].force
      /\ \A k \in Keys(members) : \E i \in 1..Len(starts) : Key(starts[i].container) = k
      /\ Acyclic => \A i, j \in 1..Len(starts) :
           <<Key(starts[j].container), Key(starts[i].container)>> \in dependsOn => i < j
  BY <1>4 DEF Half, HoldsBack
<1>5. CASE action = "stop"
  <2>1. Plan(members, action) = stops
    BY <1>1, <1>5 DEF Plan
  <2> QED
    BY <1>3, <1>8, <1>5, <2>1 DEF Orderly
<1>6. CASE action = "start"
  <2>1. Plan(members, action) = starts
    BY <1>2, <1>6 DEF Plan
  <2> QED
    BY <1>4, <1>9, <1>6, <2>1 DEF Orderly
<1>7. CASE action = "restart"
  <2>1. PICK p : p = stops \o starts
    OBVIOUS
  <2>2. Plan(members, action) = p
    BY <1>1, <1>2, <1>7, <2>1 DEF Plan
  <2>3. Len(stops) \in Nat /\ Len(starts) \in Nat
    BY <1>3, <1>4, <1>8, <1>9
  <2>4. /\ p \in Seq(Step) /\ Len(p) = Len(stops) + Len(starts)
        /\ \A i \in 1..Len(stops) + Len(starts) :
             p[i] = IF i <= Len(stops) THEN stops[i] ELSE starts[i - Len(stops)]
    BY <1>3, <1>4, <1>8, <1>9, <2>1, ConcatProperties
  <2>5. \A i \in 1..Len(p) :
          \/ i \in 1..Len(stops) /\ p[i] = stops[i]
          \/ i > Len(stops) /\ i - Len(stops) \in 1..Len(starts) /\ p[i] = starts[i - Len(stops)]
    BY <2>3, <2>4
  <2>6. \A i \in 1..Len(stops) : i \in 1..Len(p) /\ p[i] = stops[i]
    BY <2>3, <2>4
  <2>7. \A i \in 1..Len(starts) : Len(stops) + i \in 1..Len(p) /\ p[Len(stops) + i] = starts[i]
    BY <2>3, <2>4
  <2>8. \A i \in 1..Len(p) :
          p[i].verb \in {"start", "stop"} /\ p[i].container \in members /\ ~p[i].force
    BY <1>3, <1>4, <1>8, <1>9, <2>5
  <2>9. ASSUME NEW k \in Keys(members), NEW verb \in {"start", "stop"}
        PROVE  \E i \in 1..Len(p) : p[i].verb = verb /\ Key(p[i].container) = k
    <3>1. CASE verb = "stop"
      BY <1>8, <2>6, <3>1
    <3>2. CASE verb = "start"
      BY <1>9, <2>7, <3>2
    <3> QED
      BY <3>1, <3>2
  <2>10. ASSUME Acyclic, NEW i \in 1..Len(p), NEW j \in 1..Len(p)
         PROVE  /\ p[i].verb = "start" /\ p[j].verb = "start"
                     /\ <<Key(p[j].container), Key(p[i].container)>> \in dependsOn => i < j
                /\ p[i].verb = "stop" /\ p[j].verb = "stop"
                     /\ <<Key(p[i].container), Key(p[j].container)>> \in dependsOn => i < j
                /\ p[i].verb = "stop" /\ p[j].verb = "start" => i < j
    <3>1. CASE i \in 1..Len(stops) /\ p[i] = stops[i]
      <4>1. CASE j \in 1..Len(stops) /\ p[j] = stops[j]
        BY <1>8, <2>10, <3>1, <4>1
      <4>2. CASE j > Len(stops) /\ j - Len(stops) \in 1..Len(starts) /\ p[j] = starts[j - Len(stops)]
        BY <1>3, <1>4, <1>8, <1>9, <2>3, <3>1, <4>2
      <4> QED
        BY <2>5, <4>1, <4>2
    <3>2. CASE i > Len(stops) /\ i - Len(stops) \in 1..Len(starts) /\ p[i] = starts[i - Len(stops)]
      <4>1. CASE j \in 1..Len(stops) /\ p[j] = stops[j]
        BY <1>3, <1>4, <1>8, <1>9, <3>2, <4>1
      <4>2. CASE j > Len(stops) /\ j - Len(stops) \in 1..Len(starts) /\ p[j] = starts[j - Len(stops)]
        <5>1. i - Len(stops) < j - Len(stops) => i < j
          BY <2>3
        <5> QED
          BY <1>9, <2>10, <3>2, <4>2, <5>1
      <4> QED
        BY <2>5, <4>1, <4>2
    <3> QED
      BY <2>5, <3>1, <3>2
  <2> QED
    BY <2>2, <2>4, <2>8, <2>9, <2>10 DEF Orderly
<1> QED
  BY <1>5, <1>6, <1>7

-----------------------------------------------------------------------------
(* One request and what happens meanwhile.                                 *)

\* The containers a request on the environment is for.
Chosen == {c \in Containers : before[c] # "gone" /\ (request.by = "panel" => kind[c] # "oneOff")}

\* What was answered and what is left are the two parts of one orderly list.
OnPlan ==
  \E whole \in Seq(Step) :
    /\ Orderly(whole, Chosen, request.action)
    /\ Len(whole) = Len(results) + Len(plan)
    /\ \A i \in 1..Len(results) :
         results[i].verb = whole[i].verb /\ results[i].container = whole[i].container
    /\ \A i \in 1..Len(plan) : plan[i] = whole[Len(results) + i]

\* The last answer for a container is so, if it was a success.
LastAnswersAreTrue ==
  \A i \in 1..Len(results) :
    results[i].ok /\ (\A j \in 1..Len(results) : j > i => results[j].container # results[i].container) =>
      docker[results[i].container] = Becomes(results[i].verb)

\* What holds as long as nothing else touched a container.
Untouched ==
  /\ seen = docker
  /\ \A i \in 1..Len(plan) : docker[plan[i].container] # "gone"
  /\ LastAnswersAreTrue
  /\ OnEnvironment /\ request.by = "panel" =>
       \A c \in Containers : kind[c] = "oneOff" /\ before[c] = "exited" => docker[c] = "exited"

EnvironmentInv ==
  /\ EnvironmentTypeOK
  /\ request = Nobody => plan = <<>> /\ results = <<>>
  /\ OnEnvironment => OnPlan
  /\ \A i \in 1..Len(plan) : plan[i].force => request.action = "force"
  /\ Len(plan) <= 1 \/ \A i \in 1..Len(plan) : plan[i].verb \in {"start", "stop"}
  /\ disturbed = 0 => Untouched

\* Nobody asked for anything yet.
LEMMA InitEnvironment == EnvironmentInit => EnvironmentInv
<1> SUFFICES ASSUME EnvironmentInit PROVE EnvironmentInv
  OBVIOUS
<1>1. /\ plan = <<>> /\ results = <<>> /\ Len(plan) = 0 /\ Len(results) = 0
      /\ plan \in Seq(Step) /\ results \in Seq(Result)
  BY DEF EnvironmentInit
<1>2. request.by = "nobody" /\ request.action = "none"
  BY DEF EnvironmentInit, Nobody
<1>3. EnvironmentTypeOK
  BY <1>1, <1>2, MaxDisturbedAssumption DEF EnvironmentInit, EnvironmentTypeOK, ContainerStates
<1>4. ~OnEnvironment
  BY <1>2 DEF OnEnvironment
<1>5. Untouched
  BY <1>1, <1>4 DEF Untouched, LastAnswersAreTrue, EnvironmentInit
<1> QED
  BY <1>1, <1>3, <1>4, <1>5 DEF EnvironmentInv

\* Of the state only the services and what they need say whether a list is orderly.
LEMMA OrderlyOfLayout ==
  ASSUME NEW steps, NEW members, NEW action, Orderly(steps, members, action),
         UNCHANGED <<service, dependsOn>>
  PROVE  Orderly(steps, members, action)'
<1>1. /\ \A c : Key(c)' = Key(c)
      /\ Keys(members)' = Keys(members) /\ Keys(Containers)' = Keys(Containers)
  BY DEF Key, Keys
<1>2. Acyclic' = Acyclic
  BY <1>1 DEF Acyclic
<1> QED
  BY <1>1, <1>2 DEF Orderly

\* A request that is accepted, with its steps.
LEMMA AcceptKeeps ==
  ASSUME EnvironmentInv, request = Nobody,
         NEW by \in {"panel", "portta"}, NEW action, NEW steps \in Seq(Step), Accept(by, action, steps),
         \A i \in 1..Len(steps) : docker[steps[i].container] # "gone",
         \A i \in 1..Len(steps) : steps[i].force => action = "force",
         Len(steps) <= 1 \/ \A i \in 1..Len(steps) : steps[i].verb \in {"start", "stop"},
         action \in {"start", "stop", "restart"} => Orderly(steps, Members(by), action)
  PROVE  EnvironmentInv'
<1>1. /\ request' = [by |-> by, action |-> action] /\ plan' = steps /\ seen' = docker /\ before' = docker
      /\ UNCHANGED <<service, dependsOn, kind, docker, results, disturbed>>
      /\ results = <<>>
  BY DEF Accept, layout, EnvironmentInv
<1>2. request'.by = by /\ request'.action = action /\ request' # Nobody
  BY <1>1 DEF Nobody
<1>3. EnvironmentTypeOK'
  BY <1>1, <1>2 DEF EnvironmentInv, EnvironmentTypeOK
<1>4. ASSUME OnEnvironment' PROVE OnPlan'
  <2>1. Orderly(steps, Members(by), action)
    BY <1>2, <1>4 DEF OnEnvironment
  <2>2. Members(by) = Chosen'
    BY <1>1, <1>2 DEF Members, Existing, Chosen
  <2>3. Orderly(steps, Chosen, request.action)'
    <3>1. PICK chosen : chosen = Members(by)
      OBVIOUS
    <3>2. Orderly(steps, chosen, action)
      BY <2>1, <3>1
    <3>3. Orderly(steps, chosen, action)'
      BY <1>1, <3>2, OrderlyOfLayout
    <3> QED
      BY <1>2, <2>2, <3>1, <3>3 DEF Orderly
  <2>4. /\ Len(results') = 0 /\ Len(steps) \in Nat /\ Len(steps) = Len(results') + Len(plan')
        /\ \A i \in 1..Len(plan') : plan'[i] = steps[Len(results') + i]
    BY <1>1
  <2> QED
    BY <2>3, <2>4 DEF OnPlan
<1>5. disturbed' = 0 => Untouched'
  BY <1>1 DEF Untouched, LastAnswersAreTrue, EnvironmentInv
<1> QED
  BY <1>1, <1>2, <1>3, <1>4, <1>5 DEF EnvironmentInv

\* What the invariant says of each variable, one by one.
LEMMA Types ==
  ASSUME EnvironmentInv
  PROVE  /\ service \in Layouts /\ service \in [Containers -> Nat] /\ dependsOn \in SUBSET (Nat \X Nat)
         /\ docker \in [Containers -> ContainerStates] /\ seen \in [Containers -> ContainerStates]
         /\ plan \in Seq(Step) /\ Len(plan) \in Nat /\ results \in Seq(Result) /\ Len(results) \in Nat
         /\ disturbed \in 0..MaxDisturbed
BY LayoutsAssumption, GraphsAssumption DEF EnvironmentInv, EnvironmentTypeOK

\* Each of the requests is accepted with steps that satisfy what AcceptKeeps asks for.
LEMMA RequestKeeps ==
  ASSUME EnvironmentInv,
         \/ \E by \in {"panel", "portta"}, action \in {"start", "stop", "restart"} : RunProjectAction(by, action)
         \/ \E c \in Containers, action \in {"start", "stop", "restart"} : RunContainerAction(c, action)
         \/ \E c \in Containers, force \in BOOLEAN : RemoveContainer(c, force)
  PROVE  EnvironmentInv'
<1>1. ASSUME NEW by \in {"panel", "portta"}, NEW action \in {"start", "stop", "restart"},
             RunProjectAction(by, action)
      PROVE  EnvironmentInv'
  <2>1. PICK steps : steps = Plan(Members(by), action)
    OBVIOUS
  <2>2. request = Nobody /\ Accept(by, action, steps)
    BY <1>1, <2>1 DEF RunProjectAction
  <2>3. Members(by) \in SUBSET Containers /\ \A c \in Members(by) : docker[c] # "gone"
    BY DEF Members, Existing
  <2>4. steps \in Seq(Step) /\ Orderly(steps, Members(by), action)
    BY <2>1, <2>3, Types, PlanIsOrderly
  <2>5. \A i \in 1..Len(steps) :
          steps[i].verb \in {"start", "stop"} /\ docker[steps[i].container] # "gone" /\ ~steps[i].force
    BY <2>3, <2>4 DEF Orderly
  <2> QED
    BY <2>2, <2>4, <2>5, AcceptKeeps
<1>2. ASSUME NEW c \in Containers, NEW action \in {"start", "stop", "restart"}, RunContainerAction(c, action)
      PROVE  EnvironmentInv'
  <2>1. PICK step : step = [verb |-> action, container |-> c, force |-> FALSE]
    OBVIOUS
  <2>2. request = Nobody /\ docker[c] # "gone" /\ Accept("panel", "one", <<step>>)
    BY <1>2, <2>1 DEF RunContainerAction, Existing
  <2>3. step \in Step /\ step.container = c /\ step.force = FALSE
    BY <2>1 DEF Step, Verbs
  <2>4. PICK steps : steps = <<step>>
    OBVIOUS
  <2>5. steps \in Seq(Step) /\ Len(steps) = 1 /\ \A i \in 1..Len(steps) : steps[i] = step
    BY <2>3, <2>4
  <2>6. \A i \in 1..Len(steps) : docker[steps[i].container] # "gone" /\ ~steps[i].force
    BY <2>2, <2>3, <2>5
  <2>7. PICK by, one : by = "panel" /\ one = "one" /\ by \in {"panel", "portta"}
    OBVIOUS
  <2>8. Accept(by, one, steps) /\ one \notin {"start", "stop", "restart"}
    BY <2>2, <2>4, <2>7
  <2>9. Len(steps) <= 1
    BY <2>5
  <2> QED
    BY <2>2, <2>5, <2>6, <2>7, <2>8, <2>9, AcceptKeeps
<1>3. ASSUME NEW c \in Containers, NEW force \in BOOLEAN, RemoveContainer(c, force)
      PROVE  EnvironmentInv'
  <2>1. PICK step : step = [verb |-> "remove", container |-> c, force |-> docker[c] = "running"]
    OBVIOUS
  <2>2. PICK action : action = IF force THEN "force" ELSE "remove"
    OBVIOUS
  <2>3. /\ request = Nobody /\ docker[c] # "gone" /\ Accept("panel", action, <<step>>)
        /\ docker[c] = "running" => force
    BY <1>3, <2>1, <2>2 DEF RemoveContainer, Existing
  <2>4. step \in Step /\ step.container = c /\ (step.force => action = "force")
    BY <2>1, <2>2, <2>3 DEF Step, Verbs
  <2>5. PICK steps : steps = <<step>>
    OBVIOUS
  <2>6. steps \in Seq(Step) /\ Len(steps) = 1 /\ \A i \in 1..Len(steps) : steps[i] = step
    BY <2>4, <2>5
  <2>7. \A i \in 1..Len(steps) : docker[steps[i].container] # "gone" /\ (steps[i].force => action = "force")
    BY <2>3, <2>4, <2>6
  <2>8. PICK by \in {"panel", "portta"} : by = "panel"
    OBVIOUS
  <2>9. Accept(by, action, steps) /\ action \notin {"start", "stop", "restart"} /\ Len(steps) <= 1
    BY <2>2, <2>3, <2>5, <2>6, <2>8
  <2> QED
    BY <2>3, <2>6, <2>7, <2>9, AcceptKeeps
<1> QED
  BY <1>1, <1>2, <1>3

\* Orderly does not depend on what Docker does.
LEMMA OrderlyStays ==
  ASSUME NEW whole, Orderly(whole, Chosen, request.action),
         UNCHANGED <<service, dependsOn, kind, request, before>>
  PROVE  Orderly(whole, Chosen, request.action)'
<1>1. PICK chosen, action : chosen = Chosen /\ action = request.action
  OBVIOUS
<1>2. Chosen' = Chosen
  BY DEF Chosen
<1>3. Orderly(whole, chosen, action)
  BY <1>1
<1>4. Orderly(whole, chosen, action)'
  BY <1>3, OrderlyOfLayout
<1> QED
  BY <1>1, <1>2, <1>4 DEF Orderly

\* What is answered and left stays orderly when neither changes.
LEMMA PlanStays ==
  ASSUME OnPlan, UNCHANGED <<service, dependsOn, kind, request, plan, results, before>>
  PROVE  OnPlan'
<1>1. PICK whole \in Seq(Step) :
        /\ Orderly(whole, Chosen, request.action)
        /\ Len(whole) = Len(results) + Len(plan)
        /\ \A i \in 1..Len(results) :
             results[i].verb = whole[i].verb /\ results[i].container = whole[i].container
        /\ \A i \in 1..Len(plan) : plan[i] = whole[Len(results) + i]
  BY DEF OnPlan
<1>2. Orderly(whole, Chosen, request.action)'
  BY <1>1, OrderlyStays
<1> QED
  BY <1>1, <1>2 DEF OnPlan

\* One step: what it answers is added, and what it did is remembered.
Acted(step, ok) ==
  \/ /\ CanDo(step) /\ ok
     /\ docker' = [docker EXCEPT ![step.container] = Becomes(step.verb)]
     /\ seen' = [seen EXCEPT ![step.container] = Becomes(step.verb)]
  \/ UNCHANGED <<docker, seen>> /\ (ok => Skips(step))

\* Act, its branches made one.
LEMMA ActIs ==
  ASSUME EnvironmentInv, Act
  PROVE  \E step \in Step, answer \in Result :
           /\ answer.verb = step.verb /\ answer.container = step.container /\ Acted(step, answer.ok)
           /\ Len(plan) >= 1 /\ step = plan[1]
           /\ plan' \in Seq(Step) /\ Len(plan') = Len(plan) - 1
           /\ \A i \in 1..Len(plan') : plan'[i] = plan[i + 1]
           /\ results' \in Seq(Result) /\ Len(results') = Len(results) + 1
           /\ results'[Len(results) + 1] = answer /\ \A i \in 1..Len(results) : results'[i] = results[i]
           /\ UNCHANGED <<service, dependsOn, kind, request, disturbed, before>>
<1>1. PICK step : step = Head(plan)
  OBVIOUS
<1>2. plan \in Seq(Step) /\ results \in Seq(Result) /\ plan # <<>> /\ plan' = Tail(plan)
  BY Types DEF Act
<1>3. /\ step \in Step /\ step = plan[1] /\ Len(plan) >= 1
      /\ plan' \in Seq(Step) /\ Len(plan') = Len(plan) - 1
      /\ \A i \in 1..Len(plan') : plan'[i] = plan[i + 1]
  BY <1>1, <1>2, HeadTailProperties
<1>4. PICK ok \in BOOLEAN, skipped \in BOOLEAN : Answer(ok, skipped) /\ Acted(step, ok)
  <2>1. CASE Skips(step)
    BY <1>1, <2>1 DEF Act, Acted
  <2>2. CASE ~Skips(step)
    BY <1>1, <2>2 DEF Act, Acted
  <2> QED
    BY <2>1, <2>2
<1>5. PICK answer : answer = [verb |-> step.verb, container |-> step.container, ok |-> ok, skipped |-> skipped]
  OBVIOUS
<1>6. /\ answer \in Result /\ answer.verb = step.verb /\ answer.container = step.container
      /\ answer.ok = ok
  BY <1>3, <1>5 DEF Step, Result
<1>7. results' = Append(results, answer)
  BY <1>1, <1>4, <1>5 DEF Answer
<1>8. /\ results' \in Seq(Result) /\ Len(results') = Len(results) + 1
      /\ results'[Len(results) + 1] = answer /\ \A i \in 1..Len(results) : results'[i] = results[i]
  BY <1>2, <1>6, <1>7, AppendProperties
<1>9. UNCHANGED <<service, dependsOn, kind, request, disturbed, before>>
  BY DEF Act, layout
<1> QED
  BY <1>3, <1>4, <1>6, <1>8, <1>9

\* Only a removal makes a container gone.
LEMMA BecomesState ==
  ASSUME NEW verb \in Verbs
  PROVE  Becomes(verb) \in ContainerStates /\ (Becomes(verb) = "gone" => verb = "remove")
BY DEF Becomes, Verbs, ContainerStates

\* A step.  Nothing else touched the containers: the snapshot is still true, and so is
\* the last answer for each container, the new one or an earlier one of another.
LEMMA ActKeeps ==
  ASSUME EnvironmentInv, Act
  PROVE  EnvironmentInv'
<1>1. PICK step \in Step, answer \in Result :
        /\ answer.verb = step.verb /\ answer.container = step.container /\ Acted(step, answer.ok)
        /\ Len(plan) >= 1 /\ step = plan[1]
        /\ plan' \in Seq(Step) /\ Len(plan') = Len(plan) - 1
        /\ \A i \in 1..Len(plan') : plan'[i] = plan[i + 1]
        /\ results' \in Seq(Result) /\ Len(results') = Len(results) + 1
        /\ results'[Len(results) + 1] = answer /\ \A i \in 1..Len(results) : results'[i] = results[i]
        /\ UNCHANGED <<service, dependsOn, kind, request, disturbed, before>>
  BY ActIs
<1>2. /\ Len(plan) \in Nat /\ Len(results) \in Nat
      /\ docker \in [Containers -> ContainerStates] /\ seen \in [Containers -> ContainerStates]
  BY Types
<1>3. step.verb \in Verbs /\ step.container \in Containers
  BY DEF Step
<1>4. PICK verb \in Verbs, c \in Containers : verb = step.verb /\ c = step.container
  BY <1>3
<1>5. \/ docker' = [docker EXCEPT ![c] = Becomes(verb)] /\ seen' = [seen EXCEPT ![c] = Becomes(verb)]
      \/ UNCHANGED <<docker, seen>>
  BY <1>1, <1>4 DEF Acted
<1>6. docker' \in [Containers -> ContainerStates] /\ seen' \in [Containers -> ContainerStates]
  BY <1>2, <1>5, BecomesState
<1>7. EnvironmentTypeOK'
  BY <1>1, <1>6 DEF EnvironmentInv, EnvironmentTypeOK
<1>8. request # Nobody
  <2>1. plan # <<>>
    BY <1>1
  <2> QED
    BY <2>1 DEF EnvironmentInv
<1>9. \A i \in 1..Len(plan') : i + 1 \in 1..Len(plan)
  BY <1>1, <1>2
<1>10. ASSUME OnEnvironment' PROVE OnPlan'
  <2>1. OnEnvironment
    BY <1>1, <1>10 DEF OnEnvironment
  <2>2. PICK whole \in Seq(Step) :
          /\ Orderly(whole, Chosen, request.action)
          /\ Len(whole) = Len(results) + Len(plan)
          /\ \A i \in 1..Len(results) :
               results[i].verb = whole[i].verb /\ results[i].container = whole[i].container
          /\ \A i \in 1..Len(plan) : plan[i] = whole[Len(results) + i]
    BY <2>1 DEF EnvironmentInv, OnPlan
  <2>3. Chosen' = Chosen
    BY <1>1 DEF Chosen
  <2>4. Orderly(whole, Chosen, request.action)'
    BY <1>1, <2>2, OrderlyStays
  <2>5. Len(whole) = Len(results') + Len(plan')
    BY <1>1, <1>2, <2>2
  <2>6. step = whole[Len(results) + 1]
    BY <1>1, <1>2, <2>2
  <2>7. \A i \in 1..Len(results') :
          results'[i].verb = whole[i].verb /\ results'[i].container = whole[i].container
    <3>1. \A i \in 1..Len(results') : i \in 1..Len(results) \/ i = Len(results) + 1
      BY <1>1, <1>2
    <3> QED
      BY <1>1, <2>2, <2>6, <3>1
  <2>8. \A i \in 1..Len(plan') : plan'[i] = whole[Len(results') + i]
    <3>1. \A i \in 1..Len(plan') : Len(results') + i = Len(results) + (i + 1)
      BY <1>1, <1>2
    <3> QED
      BY <1>1, <1>9, <2>2, <3>1
  <2> QED
    BY <2>4, <2>5, <2>7, <2>8 DEF OnPlan
<1>11. \A i \in 1..Len(plan') : plan'[i].force => request'.action = "force"
  BY <1>1, <1>9 DEF EnvironmentInv
<1>12. Len(plan') <= 1 \/ \A i \in 1..Len(plan') : plan'[i].verb \in {"start", "stop"}
  <2>1. CASE Len(plan) <= 1
    BY <1>1, <1>2, <2>1
  <2>2. CASE \A i \in 1..Len(plan) : plan[i].verb \in {"start", "stop"}
    BY <1>1, <1>9, <2>2
  <2> QED
    BY <2>1, <2>2 DEF EnvironmentInv
<1>13. ASSUME disturbed' = 0 PROVE Untouched'
  <2>1. Untouched
    BY <1>1, <1>13 DEF EnvironmentInv
  <2>2. seen' = docker'
    BY <1>5, <2>1 DEF Untouched
  <2>3. \A d \in Containers : d # c => docker'[d] = docker[d]
    BY <1>2, <1>5
  <2>4. docker[c] # "gone"
    BY <1>1, <1>4, <2>1 DEF Untouched
  <2>5. ASSUME NEW i \in 1..Len(plan') PROVE docker'[plan'[i].container] # "gone"
    <3>1. plan'[i] = plan[i + 1] /\ i + 1 \in 1..Len(plan) /\ plan[i + 1] \in Step
      BY <1>1, <1>9, Types
    <3>2. docker[plan[i + 1].container] # "gone" /\ plan[i + 1].container \in Containers
      BY <2>1, <3>1 DEF Untouched, Step
    <3>3. verb \in {"start", "stop"}
      <4>1. Len(plan) > 1 /\ 1 \in 1..Len(plan)
        BY <1>1, <1>2, <2>5
      <4> QED
        BY <1>1, <1>2, <1>4, <4>1 DEF EnvironmentInv
    <3>4. docker'[c] # "gone"
      BY <1>2, <1>5, <2>4, <3>3, BecomesState
    <3> QED
      BY <2>3, <3>1, <3>2, <3>4
  <2>6. answer.ok => docker'[c] = Becomes(verb)
    <3>1. CASE docker' = [docker EXCEPT ![c] = Becomes(verb)]
      BY <1>2, <3>1
    <3>2. CASE UNCHANGED <<docker, seen>> /\ (answer.ok => Skips(step))
      <4>1. docker[c] \in {"running", "exited"} /\ seen[c] = docker[c]
        BY <1>2, <2>1, <2>4 DEF ContainerStates, Untouched
      <4> QED
        BY <1>4, <3>2, <4>1 DEF Skips, Becomes
    <3> QED
      BY <1>1, <1>4, <3>1, <3>2 DEF Acted
  <2>7. LastAnswersAreTrue'
    <3> SUFFICES ASSUME NEW i \in 1..Len(results'), results'[i].ok,
                        \A j \in 1..Len(results') : j > i => results'[j].container # results'[i].container
                 PROVE  docker'[results'[i].container] = Becomes(results'[i].verb)
      BY DEF LastAnswersAreTrue
    <3>1. CASE i = Len(results) + 1
      BY <1>1, <1>4, <2>6, <3>1
    <3>2. CASE i \in 1..Len(results)
      <4>1. /\ Len(results) + 1 \in 1..Len(results') /\ Len(results) + 1 > i
            /\ \A j \in 1..Len(results) : j \in 1..Len(results')
        BY <1>1, <1>2, <3>2
      <4>2. results'[i] = results[i] /\ results[i].container # c
        BY <1>1, <1>4, <3>2, <4>1
      <4>3. docker[results[i].container] = Becomes(results[i].verb)
        <5>1. results[i].ok
          BY <4>2
        <5>2. \A j \in 1..Len(results) : j > i => results[j].container # results[i].container
          BY <1>1, <4>1, <4>2
        <5> QED
          BY <2>1, <3>2, <5>1, <5>2 DEF Untouched, LastAnswersAreTrue
      <4>4. results[i].container \in Containers
        <5>1. results \in Seq(Result) /\ results[i] \in Result
          BY <3>2, Types
        <5> QED
          BY <5>1 DEF Result
      <4> QED
        BY <2>3, <4>2, <4>3, <4>4
    <3> QED
      BY <1>1, <1>2, <3>1, <3>2
  <2>8. ASSUME OnEnvironment', request'.by = "panel", NEW d \in Containers,
               kind'[d] = "oneOff", before'[d] = "exited"
        PROVE  docker'[d] = "exited"
    <3>1. OnEnvironment /\ request.by = "panel" /\ kind[d] = "oneOff" /\ before[d] = "exited"
      BY <1>1, <2>8 DEF OnEnvironment
    <3>2. c \in Chosen
      <4>1. PICK whole \in Seq(Step) : /\ Orderly(whole, Chosen, request.action)
                                       /\ Len(whole) = Len(results) + Len(plan)
                                       /\ \A i \in 1..Len(plan) : plan[i] = whole[Len(results) + i]
        BY <3>1 DEF EnvironmentInv, OnPlan
      <4>2. 1 \in 1..Len(plan) /\ Len(results) + 1 \in 1..Len(whole)
        BY <1>1, <1>2, <4>1
      <4>3. step = whole[Len(results) + 1]
        BY <1>1, <4>1, <4>2
      <4> QED
        BY <1>4, <4>1, <4>2, <4>3 DEF Orderly
    <3>3. d # c
      BY <3>1, <3>2 DEF Chosen
    <3> QED
      BY <2>1, <2>3, <3>1, <3>3 DEF Untouched
  <2> QED
    BY <2>2, <2>5, <2>7, <2>8 DEF Untouched
<1> QED
  BY <1>1, <1>7, <1>8, <1>10, <1>11, <1>12, <1>13 DEF EnvironmentInv

\* What others do changes docker alone, and from then on the answers may be wrong.
LEMMA DisturbKeeps ==
  ASSUME EnvironmentInv, NEW c \in Containers, NEW state \in ContainerStates, Disturb(c, state)
  PROVE  EnvironmentInv'
<1>1. /\ request # Nobody /\ disturbed < MaxDisturbed /\ disturbed' = disturbed + 1
      /\ docker' = [docker EXCEPT ![c] = state]
      /\ UNCHANGED <<service, dependsOn, kind, seen, request, plan, results, before>>
  BY DEF Disturb, layout
<1>2. docker' \in [Containers -> ContainerStates]
  BY <1>1, Types
<1>3. disturbed' \in 0..MaxDisturbed /\ disturbed' # 0
  BY <1>1, Types, MaxDisturbedAssumption
<1>4. EnvironmentTypeOK'
  BY <1>1, <1>2, <1>3 DEF EnvironmentInv, EnvironmentTypeOK
<1>5. ASSUME OnEnvironment' PROVE OnPlan'
  <2>1. OnEnvironment
    BY <1>1, <1>5 DEF OnEnvironment
  <2> QED
    BY <1>1, <2>1, PlanStays DEF EnvironmentInv
<1> QED
  BY <1>1, <1>3, <1>4, <1>5 DEF EnvironmentInv

\* Every step.
LEMMA EnvironmentStep ==
  ASSUME EnvironmentInv, [EnvironmentNext]_environmentVars
  PROVE  EnvironmentInv'
<1>1. CASE Act
  BY <1>1, ActKeeps
<1>2. CASE \E c \in Containers, state \in ContainerStates : Disturb(c, state)
  BY <1>2, DisturbKeeps
<1>3. CASE UNCHANGED environmentVars
  <2>1. UNCHANGED <<service, dependsOn, kind, docker, seen, request, plan, results, disturbed, before>>
    BY <1>3 DEF environmentVars, layout
  <2>2. EnvironmentTypeOK'
    BY <2>1 DEF EnvironmentInv, EnvironmentTypeOK
  <2>3. OnEnvironment' => OnPlan'
    BY <2>1, PlanStays DEF EnvironmentInv, OnEnvironment
  <2>4. disturbed' = 0 => Untouched'
    BY <2>1 DEF EnvironmentInv, Untouched, LastAnswersAreTrue, OnEnvironment
  <2> QED
    BY <2>1, <2>2, <2>3, <2>4 DEF EnvironmentInv
<1> QED
  BY <1>1, <1>2, <1>3, RequestKeeps DEF EnvironmentNext

\* What the invariant of the requests says holds in every state they reach.
LEMMA EnvironmentInvariant == EnvironmentSpec => []EnvironmentInv
<1>1. EnvironmentInv /\ [EnvironmentNext]_environmentVars => EnvironmentInv'
  BY EnvironmentStep
<1> QED
  BY InitEnvironment, <1>1, PTL DEF EnvironmentSpec

\* Every variable of the requests keeps its type.
THEOREM EnvironmentTypes == EnvironmentSpec => []EnvironmentTypeOK
<1>1. EnvironmentInv => EnvironmentTypeOK
  BY DEF EnvironmentInv
<1> QED
  BY EnvironmentInvariant, <1>1, PTL

\* When a request on the environment is through, every service was answered for
\* with every verb it asked for, whatever cycles there are and whatever failed.
THEOREM EveryServiceIsAnswered == EnvironmentSpec => []EveryServiceIsAnsweredFor
<1>1. ASSUME EnvironmentInv PROVE EveryServiceIsAnsweredFor
  <2> SUFFICES ASSUME OnEnvironment, Done, NEW k \in Keys(Chosen), NEW verb \in {"start", "stop"}, Asked(verb)
               PROVE  \E i \in DOMAIN results : results[i].verb = verb /\ Key(results[i].container) = k
    BY DEF EveryServiceIsAnsweredFor, Chosen
  <2>1. PICK whole \in Seq(Step) :
          /\ Orderly(whole, Chosen, request.action)
          /\ Len(whole) = Len(results) + Len(plan)
          /\ \A i \in 1..Len(results) :
               results[i].verb = whole[i].verb /\ results[i].container = whole[i].container
    BY <1>1 DEF EnvironmentInv, OnPlan
  <2>2. plan = <<>> /\ Len(plan) = 0 /\ results \in Seq(Result) /\ DOMAIN results = 1..Len(results)
    BY <1>1, Types DEF Done
  <2>3. Len(whole) = Len(results)
    BY <1>1, <2>1, <2>2, Types
  <2>4. verb = request.action \/ request.action = "restart"
    BY DEF Asked
  <2>5. PICK i \in 1..Len(whole) : whole[i].verb = verb /\ Key(whole[i].container) = k
    BY <2>1, <2>4 DEF Orderly
  <2> QED
    BY <2>1, <2>2, <2>3, <2>5
<1> QED
  BY EnvironmentInvariant, <1>1, PTL

\* Without a cycle, a dependency is started before what needs it and stopped after
\* it, and a restart stops everything first.
THEOREM DependenciesKeepOrder == EnvironmentSpec => []DependenciesKeepTheirOrder
<1>1. ASSUME EnvironmentInv PROVE DependenciesKeepTheirOrder
  <2> SUFFICES ASSUME OnEnvironment, Acyclic, NEW i \in DOMAIN results, NEW j \in DOMAIN results
               PROVE  /\ results[i].verb = "start" /\ results[j].verb = "start"
                           /\ <<Key(results[j].container), Key(results[i].container)>> \in dependsOn => i < j
                      /\ results[i].verb = "stop" /\ results[j].verb = "stop"
                           /\ <<Key(results[i].container), Key(results[j].container)>> \in dependsOn => i < j
                      /\ results[i].verb = "stop" /\ results[j].verb = "start" => i < j
    BY DEF DependenciesKeepTheirOrder
  <2>1. PICK whole \in Seq(Step) :
          /\ Orderly(whole, Chosen, request.action)
          /\ Len(whole) = Len(results) + Len(plan)
          /\ \A m \in 1..Len(results) :
               results[m].verb = whole[m].verb /\ results[m].container = whole[m].container
    BY <1>1 DEF EnvironmentInv, OnPlan
  <2>2. /\ results \in Seq(Result) /\ DOMAIN results = 1..Len(results)
        /\ Len(results) \in Nat /\ Len(plan) \in Nat
    BY <1>1, Types
  <2>3. i \in 1..Len(whole) /\ j \in 1..Len(whole)
    BY <2>1, <2>2
  <2>4. /\ whole[i].verb = "start" /\ whole[j].verb = "start"
             /\ <<Key(whole[j].container), Key(whole[i].container)>> \in dependsOn => i < j
        /\ whole[i].verb = "stop" /\ whole[j].verb = "stop"
             /\ <<Key(whole[i].container), Key(whole[j].container)>> \in dependsOn => i < j
        /\ whole[i].verb = "stop" /\ whole[j].verb = "start" => i < j
    BY <2>1, <2>3 DEF Orderly
  <2> QED
    BY <2>1, <2>2, <2>4
<1> QED
  BY EnvironmentInvariant, <1>1, PTL

\* What the last answer for a container says was done is so when the request is
\* through and nothing else touched a container.
THEOREM SuccessesAreTrue == EnvironmentSpec => []SuccessIsTrue
<1>1. ASSUME EnvironmentInv PROVE SuccessIsTrue
  <2> SUFFICES ASSUME Done, disturbed = 0, NEW c \in {results[i].container : i \in DOMAIN results},
                      results[Max({i \in DOMAIN results : results[i].container = c})].ok
               PROVE  docker[c] = Becomes(results[Max({i \in DOMAIN results : results[i].container = c})].verb)
    BY DEF SuccessIsTrue
  <2>1. PICK answers : answers = {i \in DOMAIN results : results[i].container = c}
    OBVIOUS
  <2>2. results \in Seq(Result) /\ DOMAIN results = 1..Len(results) /\ Len(results) \in Nat
    BY <1>1, Types
  <2>3. IsFiniteSet(1..Len(results)) /\ answers \subseteq 1..Len(results) /\ answers # {} /\ answers \subseteq Nat
    <3>1. IsFiniteSet(1..Len(results))
      BY <2>2, FS_Interval
    <3>2. answers \subseteq 1..Len(results) /\ answers # {}
      BY <2>1, <2>2
    <3> QED
      BY <3>1, <3>2
  <2>4. PICK last : last = Max(answers)
    OBVIOUS
  <2>5. last \in answers /\ \A i \in answers : i <= last
    BY <2>3, <2>4, FS_Subset, Extremes
  <2>6. last \in 1..Len(results) /\ results[last].container = c /\ results[last].ok
    BY <2>1, <2>2, <2>4, <2>5
  <2>7. \A j \in 1..Len(results) : j > last => results[j].container # c
    BY <2>1, <2>2, <2>5, <2>6
  <2>8. docker[c] = Becomes(results[last].verb)
    BY <1>1, <2>6, <2>7 DEF EnvironmentInv, Untouched, LastAnswersAreTrue
  <2> QED
    BY <2>1, <2>4, <2>8
<1> QED
  BY EnvironmentInvariant, <1>1, PTL

\* The panel never reruns what `compose run` left behind when it acts on the whole
\* environment.
THEOREM OneOffsAreLeft == EnvironmentSpec => []PanelLeavesOneOffs
<1>1. EnvironmentInv => PanelLeavesOneOffs
  BY DEF EnvironmentInv, Untouched, PanelLeavesOneOffs
<1> QED
  BY EnvironmentInvariant, <1>1, PTL

\* No step of the panel takes away what runs unless the removal was confirmed.
THEOREM RemovalsAreConfirmed == EnvironmentSpec => RemovalOfRunningIsConfirmed
<1> DEFINE Confirmed ==
      \A c \in Containers :
        docker[c] = "running" /\ docker'[c] = "gone" /\ UNCHANGED disturbed => request.action = "force"
<1>1. ASSUME EnvironmentInv, Act PROVE Confirmed
  <2>1. PICK step, ok : step \in Step /\ Acted(step, ok) /\ Len(plan) >= 1 /\ step = plan[1]
    BY <1>1, ActIs
  <2>2. Len(plan) \in Nat /\ docker \in [Containers -> ContainerStates]
    BY <1>1, Types
  <2>3. PICK verb \in Verbs, d \in Containers, force \in BOOLEAN :
          verb = step.verb /\ d = step.container /\ force = step.force
    BY <2>1 DEF Step
  <2>4. force => request.action = "force"
    <3>1. 1 \in 1..Len(plan)
      BY <2>1, <2>2
    <3> QED
      BY <1>1, <2>1, <2>3, <3>1 DEF EnvironmentInv
  <2> SUFFICES ASSUME NEW c \in Containers, docker[c] = "running", docker'[c] = "gone"
               PROVE  request.action = "force"
    OBVIOUS
  <2>5. CanDo(step) /\ docker' = [docker EXCEPT ![d] = Becomes(verb)]
    BY <2>1, <2>3 DEF Acted
  <2>6. c = d /\ Becomes(verb) = "gone"
    BY <2>2, <2>5
  <2>7. verb = "remove"
    BY <2>6, BecomesState
  <2>8. force
    BY <2>3, <2>5, <2>6, <2>7 DEF CanDo
  <2> QED
    BY <2>4, <2>8
<1>2. ASSUME EnvironmentInv, EnvironmentNext, ~Act PROVE Confirmed
  <2>1. UNCHANGED docker \/ disturbed' = disturbed + 1
    BY <1>2 DEF EnvironmentNext, RunProjectAction, RunContainerAction, RemoveContainer, Accept, Disturb
  <2>2. disturbed \in Nat
    BY <1>2, Types
  <2> QED
    BY <2>1, <2>2
<1>3. EnvironmentInv /\ [EnvironmentNext]_environmentVars => [Confirmed]_environmentVars
  BY <1>1, <1>2
<1> QED
  BY EnvironmentInvariant, <1>3, PTL DEF EnvironmentSpec, RemovalOfRunningIsConfirmed
=============================================================================
