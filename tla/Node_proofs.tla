------------------------------ MODULE Node_proofs ------------------------------
(***************************************************************************)
(* Proofs about parts of a node: the message queue, the migration of an    *)
(* older outbox, the signaling broker, the trust stores, the identity      *)
(* backup and the chunked file transfer, each for any constants its        *)
(* assumption allows.                                                      *)
(***************************************************************************)
EXTENDS MCNode, FiniteSetTheorems, TLAPS

-------------------------------------------------------------------------------
(* The message queue.  A mail leaves a Trace with one agent at most: a     *)
(* file, or a drainer that is about to write one.  What is still listed in *)
(* the shared directory has no trace with an agent, so two agents never    *)
(* adopt the same mail; what one of them is moving still lies in the       *)
(* shared directory.                                                       *)

Putting  == {"putEnv", "putMeta"}
Doings   == [step : JobSteps, aim : Aims, todo : SUBSET Mails, mail : Mails]
Sightings   == [step : {"visit"}, aim : Aims, todo : SUBSET Mails]
Puts     == [step : Putting, mail : Mails]

Has(d, S, m) == job[d].step \in S /\ job[d].mail = m
Every    == JobSteps \cup Putting
Trace(p, m)  == \/ m \in env[p] \/ m \in Listed(p)
                \/ \E d \in Drainers : Home(d) = p /\ Has(d, Every, m)

OneAgent(m)  == \A p, q \in Agents : Trace(p, m) /\ Trace(q, m) => p = q
OnlyShared(m) == m \in Listed(Shared) => m \in env[Shared] /\ \A p \in Agents : ~Trace(p, m)
OldOnes(m)   ==
  /\ \A p \in Places : m \in Listed(p) => m \in stored
  /\ \A d \in Drainers : Has(d, JobSteps, m) => m \in stored
  /\ m \in env[Shared] \cup over => m \in stored
NewOnes(m)   ==
  /\ \A d \in Drainers : Has(d, Putting, m) => m \notin stored
  /\ \A d, e \in Drainers : Has(d, Putting, m) /\ Has(e, Putting, m) => d = e
  /\ \A d \in Drainers : Has(d, {"putMeta"}, m) => m \in env[Home(d)]
MovesOn(m)   ==
  /\ \A d \in Drainers : Has(d, {"move"}, m) =>
       m \in env[Shared] /\ (m \notin over => m \in Listed(Home(d)))
  /\ \A d, e \in Drainers : Has(d, {"move"}, m) /\ Has(e, {"move"}, m) => d = e
RemovesOver(m) == \A d \in Drainers : Has(d, {"unlinkEnv", "unlinkMeta"}, m) => m \in over

Tidy(m) == OneAgent(m) /\ OnlyShared(m) /\ OldOnes(m) /\ NewOnes(m) /\ MovesOn(m) /\ RemovesOver(m)

QueueShape ==
  /\ home \in [Drainers -> Agents] /\ env \in [Places -> SUBSET Mails]
  /\ meta = [p \in Places |-> meta[p]] /\ (\A p \in Places : Listed(p) \subseteq Mails) /\ job \in [Drainers -> Jobs]
  /\ stored \subseteq Mails /\ over \subseteq Mails
  /\ died \in 0..QueueCrashes /\ sends \in [Mails -> Nat]

LEMMA JobFacts ==
  /\ NoJob.step = "none" /\ NoJob \in Jobs
  /\ \A j \in Jobs : j.step = "none" => j = NoJob
  /\ \A j \in Jobs : j.step = "visit" => j \in Sightings
  /\ \A j \in Jobs : j.step \in JobSteps => j \in Doings
  /\ \A j \in Jobs : j.step \in Putting => j \in Puts
  /\ \A j \in Jobs : j.step \in {"none", "visit"} \cup JobSteps \cup Putting
  /\ Sightings \cup Doings \cup Puts \subseteq Jobs
  /\ \A j \in Sightings : j.step = "visit" /\ j.aim \in Aims /\ j.todo \subseteq Mails
  /\ \A j \in Doings : j.step \in JobSteps /\ j.aim \in Aims /\ j.todo \subseteq Mails /\ j.mail \in Mails
  /\ \A j \in Puts : j.step \in Putting /\ j.mail \in Mails
<1>1. NoJob.step = "none" /\ NoJob \in Jobs
  BY DEF NoJob, Jobs
<1>2. \A j \in Sightings : j.step = "visit" /\ j.aim \in Aims /\ j.todo \subseteq Mails
  BY DEF Sightings
<1>3. \A j \in Doings : j.step \in JobSteps /\ j.aim \in Aims /\ j.todo \subseteq Mails /\ j.mail \in Mails
  BY DEF Doings
<1>4. \A j \in Puts : j.step \in Putting /\ j.mail \in Mails
  BY DEF Puts
<1>5. Jobs = {NoJob} \cup Sightings \cup Doings \cup Puts
  BY DEF Jobs, Sightings, Doings, Puts, Putting
<1>6. /\ "none" \notin JobSteps \cup Putting /\ "visit" \notin JobSteps \cup Putting
      /\ JobSteps \cap Putting = {}
  BY DEF JobSteps, Putting
<1> QED BY <1>1, <1>2, <1>3, <1>4, <1>5, <1>6

LEMMA SameDoing ==
  ASSUME NEW j \in Doings, NEW s \in JobSteps
  PROVE  LET k == [j EXCEPT !.step = s] IN
           k \in Doings /\ k.step = s /\ k.aim = j.aim /\ k.todo = j.todo /\ k.mail = j.mail
BY DEF Doings

LEMMA FewerMails ==
  ASSUME NEW j \in Sightings, NEW m
  PROVE  LET k == [j EXCEPT !.todo = @ \ {m}] IN
           k \in Sightings /\ k.step = "visit" /\ k.aim = j.aim /\ k.todo = j.todo \ {m}
BY DEF Sightings

LEMMA WritesMeta ==
  ASSUME NEW f, NEW m, NEW v
  PROVE  DOMAIN With(f, m, v) = DOMAIN f \cup {m} /\ DOMAIN Less(f, m) = DOMAIN f \ {m}
BY DEF With, Less

\* A step of one drainer: its next job, and nobody else's.
Next1(d, j) == /\ job' \in [Drainers -> Jobs] /\ job'[d] = j
               /\ \A e \in Drainers \ {d} : job'[e] = job[e]

LEMMA DoJob ==
  ASSUME QueueShape, NEW d \in Drainers, NEW j \in Jobs, Do(d, j)
  PROVE  Next1(d, j)
BY DEF Do, QueueShape, Next1

\* A mail that the drainer of the step does not work on any longer.
LEMMA TidyOther ==
  ASSUME QueueShape, NEW m, Tidy(m), NEW d \in Drainers, home' = home, \A e \in Drainers \ {d} : job'[e] = job[e],
         \A p \in Places : (m \in env'[p] <=> m \in env[p]) /\ (m \in Listed(p)' <=> m \in Listed(p)),
         m \in stored' <=> m \in stored, m \in over' <=> m \in over, ~Has(d, Every, m)'
  PROVE  Tidy(m)'
<1>0. /\ \A e \in Drainers, S \in SUBSET Every : Has(e, S, m)' => Has(e, S, m)
      /\ JobSteps \in SUBSET Every /\ Putting \in SUBSET Every /\ {"move"} \in SUBSET Every
      /\ {"putMeta"} \in SUBSET Every /\ {"unlinkEnv", "unlinkMeta"} \in SUBSET Every
      /\ Every \in SUBSET Every /\ Shared \in Places /\ Agents \subseteq Places /\ \A e \in Drainers : Home(e) \in Places /\ Home(e)' = Home(e)
  BY DEF Has, Every, JobSteps, Putting, Places, QueueShape, Home
<1>1. \A p \in Agents : Trace(p, m)' => Trace(p, m)
  BY <1>0 DEF Trace
<1>2. OneAgent(m)' /\ OnlyShared(m)'
  BY <1>0, <1>1 DEF Tidy, OneAgent, OnlyShared
<1>3. OldOnes(m)'
  BY <1>0 DEF Tidy, OldOnes
<1>4. NewOnes(m)'
  BY <1>0 DEF Tidy, NewOnes
<1>5. MovesOn(m)'
  BY <1>0 DEF Tidy, MovesOn
<1>6. RemovesOver(m)'
  BY <1>0 DEF Tidy, RemovesOver
<1> QED BY <1>2, <1>3, <1>4, <1>5, <1>6 DEF Tidy

\* The next step of the work on a mail.
LEMMA StepJob ==
  ASSUME QueueShape, NEW d \in Drainers, job[d].step \in JobSteps, NEW s \in JobSteps, Step(d, s)
  PROVE  /\ job' \in [Drainers -> Jobs] /\ \A e \in Drainers \ {d} : job'[e] = job[e]
         /\ job'[d].step = s /\ job'[d].aim = job[d].aim /\ job'[d].mail = job[d].mail
<1> DEFINE k == [job[d] EXCEPT !.step = s]
<1>0. job[d] \in Doings
  BY JobFacts DEF QueueShape
<1>1. k \in Doings /\ k.step = s /\ k.aim = job[d].aim /\ k.mail = job[d].mail
  BY <1>0, SameDoing
<1>2. Do(d, k) /\ k \in Jobs
  BY <1>1, JobFacts DEF Step
<1> HIDE DEF k
<1> QED BY <1>1, <1>2, DoJob DEF Next1

LEMMA GoOnJob ==
  ASSUME QueueShape, NEW d \in Drainers, job[d].step \in JobSteps, GoOn(d)
  PROVE  /\ job' \in [Drainers -> Jobs] /\ \A e \in Drainers \ {d} : job'[e] = job[e]
         /\ job'[d].step = "visit"
<1> DEFINE k == [step |-> "visit", aim |-> job[d].aim, todo |-> job[d].todo]
<1>0. job[d].aim \in Aims /\ job[d].todo \subseteq Mails
  BY JobFacts DEF QueueShape
<1>1. k \in Sightings /\ k.step = "visit"
  BY <1>0 DEF Sightings
<1>2. Do(d, k) /\ k \in Jobs
  BY <1>1, JobFacts DEF GoOn
<1> HIDE DEF k
<1> QED BY <1>1, <1>2, DoJob DEF Next1

LEMMA UnlinkJob ==
  ASSUME QueueShape, NEW d \in Drainers, UnlinkEnv(d) \/ UnlinkMeta(d)
  PROVE  /\ job' \in [Drainers -> Jobs] /\ \A e \in Drainers \ {d} : job'[e] = job[e]
         /\ job'[d].step \in {"unlinkMeta", "visit", "none"}
         /\ job'[d].step = "unlinkMeta" => job'[d].mail = job[d].mail
<1>1. job[d].step \in JobSteps /\ "unlinkMeta" \in JobSteps
  BY DEF UnlinkEnv, UnlinkMeta, Doing, JobSteps
<1>2. CASE Step(d, "unlinkMeta")
  BY <1>1, <1>2, StepJob
<1>3. CASE GoOn(d)
  BY <1>1, <1>3, GoOnJob
<1>4. CASE Do(d, NoJob)
  BY <1>4, JobFacts, DoJob DEF Next1
<1> QED BY <1>2, <1>3, <1>4 DEF UnlinkEnv, UnlinkMeta, UnlinkRaises

LEMMA OnToJob ==
  ASSUME QueueShape, NEW d \in Drainers, job[d].step = "visit", NEW s \in JobSteps, NEW m \in Mails, OnTo(d, s, m)
  PROVE  /\ job' \in [Drainers -> Jobs] /\ \A e \in Drainers \ {d} : job'[e] = job[e]
         /\ job'[d].step = s /\ job'[d].aim = job[d].aim /\ job'[d].mail = m
<1> DEFINE k == [step |-> s, aim |-> job[d].aim, todo |-> job[d].todo \ {m}, mail |-> m]
<1>0. job[d].aim \in Aims /\ job[d].todo \subseteq Mails
  BY JobFacts DEF QueueShape
<1>1. k \in Doings /\ k.step = s /\ k.aim = job[d].aim /\ k.mail = m
  BY <1>0 DEF Doings
<1>2. Do(d, k) /\ k \in Jobs
  BY <1>1, JobFacts DEF OnTo
<1> HIDE DEF k
<1> QED BY <1>1, <1>2, DoJob DEF Next1

LEMMA SkipJob ==
  ASSUME QueueShape, NEW d \in Drainers, job[d].step = "visit", NEW m, SkipMail(d, m)
  PROVE  /\ job' \in [Drainers -> Jobs] /\ \A e \in Drainers \ {d} : job'[e] = job[e]
         /\ job'[d].step = "visit"
<1> DEFINE k == [job[d] EXCEPT !.todo = @ \ {m}]
<1>1. k \in Sightings /\ k.step = "visit"
  BY JobFacts, FewerMails DEF QueueShape
<1>2. Do(d, k) /\ k \in Jobs
  BY <1>1, JobFacts DEF SkipMail
<1> HIDE DEF k
<1> QED BY <1>1, <1>2, DoJob DEF Next1

\* The jobs between two mails.
LEMMA IdleJob ==
  ASSUME QueueShape, NEW d \in Drainers, OpenQueue(d) \/ Finished(d) \/ Die(d)
  PROVE  /\ job' \in [Drainers -> Jobs] /\ \A e \in Drainers \ {d} : job'[e] = job[e]
         /\ job'[d].step \in {"none", "visit"}
<1>1. ASSUME Do(d, NoJob)
      PROVE  /\ job' \in [Drainers -> Jobs] /\ \A e \in Drainers \ {d} : job'[e] = job[e]
             /\ job'[d].step \in {"none", "visit"}
  BY <1>1, JobFacts, DoJob DEF Next1
<1>2. ASSUME NEW aim \in Aims, Begins(d, aim), Listing(aim, d) \subseteq Mails
      PROVE  /\ job' \in [Drainers -> Jobs] /\ \A e \in Drainers \ {d} : job'[e] = job[e]
             /\ job'[d].step \in {"none", "visit"}
  <2> DEFINE k == [step |-> "visit", aim |-> aim, todo |-> Listing(aim, d)]
  <2>1. k \in Sightings /\ k.step = "visit"
    BY <1>2 DEF Sightings
  <2>2. Do(d, k) /\ k \in Jobs
    BY <1>2, <2>1, JobFacts DEF Begins
  <2> HIDE DEF k
  <2> QED BY <2>1, <2>2, DoJob DEF Next1
<1>3. \A aim \in Aims : Listing(aim, d) \subseteq Mails
  <2>1. Home(d) \in Places /\ Shared \in Places
    BY DEF QueueShape, Home, Places
  <2>2. Listed(Shared) \subseteq Mails /\ Listed(Home(d)) \subseteq Mails
    BY <2>1 DEF QueueShape
  <2> QED BY <2>2 DEF Listing, Legible, Aims
<1> QED BY <1>1, <1>2, <1>3 DEF OpenQueue, Finished, Die, Aims

LEMMA TidyQueue ==
  ASSUME QueueShape, NEW m \in Mails, Tidy(m), NEW d \in Drainers, Queue(d, m)
  PROVE  Tidy(m)'
<1> DEFINE j == [step |-> "putEnv", mail |-> m]
<1>1. j \in Puts /\ j.step = "putEnv" /\ j.mail = m
  BY DEF Puts, Putting
<1>2. Do(d, j) /\ j \in Jobs
  BY <1>1, JobFacts DEF Queue
<1> HIDE DEF j
<1>3. /\ job'[d].step = "putEnv" /\ job'[d].mail = m /\ \A e \in Drainers \ {d} : job'[e] = job[e]
      /\ UNCHANGED <<home, env, meta, stored, over>>
  BY <1>1, <1>2, DoJob DEF Next1, Queue, Files, Histories
<1>4. /\ m \notin stored /\ (\A p \in Places : m \notin env[p]) /\ \A e \in Drainers : ~Has(e, Putting, m)
  BY DEF Queue, Has, Putting
<1>5. /\ \A p \in Places : m \notin Listed(p)
      /\ m \notin over /\ \A e \in Drainers : ~Has(e, JobSteps, m)
  BY <1>4 DEF Tidy, OldOnes
<1>6. Agents \subseteq Places /\ Shared \in Places
  BY DEF Places
<1>7. \A e \in Drainers : (Has(e, Every, m)' => e = d) /\ (Has(e, Putting, m)' => e = d)
  BY <1>3, <1>4, <1>5 DEF Has, Every
<1>8. \A e \in Drainers : ~Has(e, JobSteps, m)' /\ ~Has(e, {"putMeta"}, m)' /\ ~Has(e, {"move"}, m)'
                         /\ ~Has(e, {"unlinkEnv", "unlinkMeta"}, m)'
  BY <1>3, <1>4, <1>5 DEF Has, JobSteps, Putting
<1>9. \A p \in Agents : Trace(p, m)' => p = Home(d)
  BY <1>3, <1>4, <1>5, <1>6, <1>7 DEF Trace, Home, Listed
<1>10. OneAgent(m)' /\ OnlyShared(m)' /\ OldOnes(m)'
  BY <1>3, <1>4, <1>5, <1>6, <1>7, <1>8, <1>9 DEF OneAgent, OnlyShared, OldOnes, Listed
<1>11. NewOnes(m)' /\ MovesOn(m)' /\ RemovesOver(m)'
  BY <1>3, <1>4, <1>7, <1>8 DEF NewOnes, MovesOn, RemovesOver
<1> QED BY <1>10, <1>11 DEF Tidy

LEMMA TidyPut ==
  ASSUME QueueShape, NEW d \in Drainers, PutEnv(d) \/ PutMeta(d), NEW m, m = job[d].mail, Tidy(m)
  PROVE  /\ Tidy(m)' /\ job' \in [Drainers -> Jobs] /\ home' = home
         /\ \A e \in Drainers \ {d} : job'[e] = job[e]
         /\ job'[d].step \in {"none", "putMeta"} /\ (job'[d].step = "putMeta" => job'[d].mail = m)
<1>1. m \in Mails /\ Has(d, Putting, m) /\ Home(d) \in Agents /\ Home(d) # Shared
  BY JobFacts, QueueAssumption DEF PutEnv, PutMeta, Doing, Has, Putting, QueueShape, Home
<1>2. /\ m \notin stored /\ \A e \in Drainers : ~Has(e, JobSteps, m) /\ (Has(e, Putting, m) => e = d)
      /\ m \notin over /\ \A p \in Places : m \notin Listed(p)
  BY <1>1 DEF Tidy, OldOnes, NewOnes
<1>3. Agents \subseteq Places /\ Shared \in Places /\ Trace(Home(d), m)
  BY <1>1 DEF Places, Trace, Has, Every
<1>4. \A p \in Agents : Trace(p, m) => p = Home(d)
  BY <1>1, <1>3 DEF Tidy, OneAgent
<1>5. JobSteps \subseteq Every /\ Putting \subseteq Every /\ "putMeta" \notin JobSteps /\ "none" \notin Every
      /\ {"move"} \subseteq JobSteps /\ {"unlinkEnv", "unlinkMeta"} \subseteq JobSteps
      /\ "putMeta" \in Putting /\ "putMeta" \notin {"move", "unlinkEnv", "unlinkMeta"}
  BY DEF Every, JobSteps, Putting
<1>6. CASE PutEnv(d)
  <2> DEFINE j == [job[d] EXCEPT !.step = "putMeta"]
  <2>1. j \in Puts /\ j.step = "putMeta" /\ j.mail = m
    <3>1. job[d] \in Puts
      BY <1>6, JobFacts DEF PutEnv, Doing, QueueShape, Putting
    <3> QED BY <3>1 DEF Puts, Putting
  <2>2. Do(d, j) /\ j \in Jobs
    BY <1>6, <2>1, JobFacts DEF PutEnv, Step
  <2> HIDE DEF j
  <2>3. /\ job'[d].step = "putMeta" /\ job'[d].mail = m /\ (\A e \in Drainers \ {d} : job'[e] = job[e])
        /\ job' \in [Drainers -> Jobs] /\ UNCHANGED <<home, meta, stored, over>>
        /\ \A p \in Places : env'[p] = IF p = Home(d) THEN env[p] \cup {m} ELSE env[p]
    BY <1>6, <2>1, <2>2, DoJob DEF Next1, PutEnv, Histories, QueueShape
  <2>4. \A e \in Drainers : (Has(e, Every, m)' => e = d) /\ (Has(e, Putting, m)' => e = d)
                           /\ (Has(e, {"putMeta"}, m)' => e = d)
                           /\ ~Has(e, JobSteps, m)' /\ ~Has(e, {"move"}, m)'
                           /\ ~Has(e, {"unlinkEnv", "unlinkMeta"}, m)'
    BY <1>2, <1>5, <2>3 DEF Has, Every
  <2>5. \A p \in Agents : Trace(p, m)' => p = Home(d)
    <3> SUFFICES ASSUME NEW p \in Agents, p # Home(d), Trace(p, m)' PROVE FALSE
      OBVIOUS
    <3>1. m \notin env[p] /\ m \notin Listed(p)
      BY <1>2, <1>3, <1>4 DEF Trace
    <3> QED BY <1>3, <2>3, <2>4, <3>1 DEF Trace, Home, Listed
  <2>6. OneAgent(m)' /\ OnlyShared(m)' /\ OldOnes(m)'
    BY <1>1, <1>2, <1>3, <2>3, <2>4, <2>5 DEF OneAgent, OnlyShared, OldOnes, Tidy, Listed
  <2>7. NewOnes(m)' /\ MovesOn(m)' /\ RemovesOver(m)'
    BY <1>1, <1>2, <1>3, <1>5, <2>3, <2>4 DEF NewOnes, MovesOn, RemovesOver, Home, Has
  <2> QED BY <2>3, <2>6, <2>7 DEF Tidy
<1>7. CASE PutMeta(d)
  <2>1. /\ job'[d].step = "none" /\ (\A e \in Drainers \ {d} : job'[e] = job[e])
        /\ job' \in [Drainers -> Jobs] /\ UNCHANGED <<home, env, over>>
    BY <1>7, JobFacts, DoJob DEF Next1, PutMeta
  <2>2. stored' = stored \cup {m} /\ \A p \in Places : Listed(p)' = IF p = Home(d) THEN Listed(p) \cup {m} ELSE Listed(p)
    <3>1. /\ meta'[Home(d)] = With(meta[Home(d)], m, "ready") /\ stored' = stored \cup {m}
          /\ \A p \in Places \ {Home(d)} : meta'[p] = meta[p]
      BY <1>1, <1>3, <1>7 DEF PutMeta, QueueShape
    <3>2. DOMAIN meta'[Home(d)] = DOMAIN meta[Home(d)] \cup {m}
      BY <3>1 DEF With
    <3> QED BY <3>1, <3>2 DEF Listed, Home
  <2>3. \A e \in Drainers, S \in SUBSET Every : Has(e, S, m)' => Has(e, S, m) /\ e # d
    BY <1>5, <2>1 DEF Has
  <2>4. \A e \in Drainers : ~Has(e, Every, m)'
    BY <1>2, <2>3, <1>5 DEF Has, Every
  <2>5. \A p \in Agents : Trace(p, m)' => p = Home(d)
    <3> SUFFICES ASSUME NEW p \in Agents, p # Home(d), Trace(p, m)' PROVE FALSE
      OBVIOUS
    <3>1. m \notin env[p] /\ m \notin Listed(p)
      BY <1>2, <1>3, <1>4 DEF Trace
    <3> QED BY <1>3, <2>1, <2>2, <2>4, <3>1 DEF Trace, Home
  <2>6. OneAgent(m)' /\ OnlyShared(m)' /\ OldOnes(m)'
    BY <1>1, <1>2, <1>3, <2>1, <2>2, <2>4, <2>5 DEF OneAgent, OnlyShared, OldOnes
  <2>7. NewOnes(m)' /\ MovesOn(m)' /\ RemovesOver(m)'
    BY <1>5, <2>4 DEF NewOnes, MovesOn, RemovesOver, Has
  <2> QED BY <2>1, <2>6, <2>7 DEF Tidy
<1> QED BY <1>6, <1>7

\* A step of the work on a mail, and the mail.
LEMMA TidyWork ==
  ASSUME QueueShape, NEW d \in Drainers, NEW m, Tidy(m), Has(d, JobSteps, m),
         MoveEnv(d) \/ Sent(d) \/ NotSent(d) \/ UpdateMeta(d) \/ ReplaceMeta(d) \/ UnlinkEnv(d) \/ UnlinkMeta(d)
  PROVE  Tidy(m)'
<1>0. /\ job[d].step \in JobSteps /\ job[d].mail = m /\ m \in Mails /\ Home(d) \in Agents /\ Home(d) \in Places
      /\ Home(d) # Shared /\ Agents \subseteq Places /\ Shared \in Places /\ home' = home
  BY JobFacts, QueueAssumption DEF Has, QueueShape, Home, Places, MoveEnv, Sent, NotSent, UpdateMeta, ReplaceMeta, UnlinkEnv,
     UnlinkMeta, Files
<1>1. /\ Trace(Home(d), m) /\ m \in stored /\ m \notin Listed(Shared)
      /\ \A e \in Drainers : ~Has(e, Putting, m) /\ ~Has(e, {"putMeta"}, m)
      /\ \A p \in Agents : Trace(p, m) => p = Home(d)
  <2>1. Trace(Home(d), m) /\ m \in stored
    BY <1>0 DEF Trace, Every, Has, Tidy, OldOnes
  <2>2. \A e \in Drainers : Has(e, {"putMeta"}, m) => Has(e, Putting, m)
    BY DEF Has, Putting
  <2> QED BY <1>0, <2>1, <2>2 DEF Tidy, OnlyShared, NewOnes, OneAgent
<1>2. /\ (\A e \in Drainers \ {d} : job'[e] = job[e]) /\ stored' = stored
      /\ job'[d].step \in {"none", "visit", "unlinkEnv", "update", "replace", "unlinkMeta"}
      /\ job'[d].step \notin {"none", "visit"} => job'[d].mail = m
  <2>1. CASE MoveEnv(d) \/ ReplaceMeta(d)
    BY <1>0, <2>1, GoOnJob DEF MoveEnv, ReplaceMeta, Histories
  <2>2. CASE Sent(d)
    BY <1>0, <2>2, StepJob DEF Sent, JobSteps
  <2>3. CASE NotSent(d) \/ UpdateMeta(d)
    BY <1>0, <2>3, StepJob DEF NotSent, UpdateMeta, JobSteps, Histories
  <2>4. CASE UnlinkEnv(d) \/ UnlinkMeta(d)
    BY <1>0, <2>4, UnlinkJob DEF UnlinkEnv, UnlinkMeta, Histories
  <2> QED BY <2>1, <2>2, <2>3, <2>4
<1>3. /\ over' \in {over, over \cup {m}}
      /\ job'[d].step \in {"unlinkEnv", "unlinkMeta"} => m \in over'
  <2>1. CASE MoveEnv(d) \/ UpdateMeta(d) \/ ReplaceMeta(d) \/ NotSent(d)
    <3>1. over' = over
      BY <2>1 DEF MoveEnv, UpdateMeta, ReplaceMeta, NotSent, Histories
    <3>2. job'[d].step \in {"visit", "update", "replace"}
      BY <1>0, <2>1, GoOnJob, StepJob DEF MoveEnv, UpdateMeta, ReplaceMeta, NotSent, JobSteps
    <3> QED BY <3>1, <3>2
  <2>2. CASE Sent(d)
    BY <1>0, <2>2 DEF Sent
  <2>3. CASE UnlinkEnv(d) \/ UnlinkMeta(d)
    <3>1. over' = over /\ Has(d, {"unlinkEnv", "unlinkMeta"}, m)
      BY <1>0, <2>3 DEF UnlinkEnv, UnlinkMeta, Histories, Has, Doing
    <3> QED BY <3>1 DEF Tidy, RemovesOver
  <2> QED BY <2>1, <2>2, <2>3
<1>4. /\ \A p \in Places \ {Home(d), Shared} : m \in env'[p] <=> m \in env[p]
      /\ m \in env'[Shared] => m \in env[Shared]
      /\ job[d].step # "move" => (m \in env'[Shared] <=> m \in env[Shared])
  BY <1>0 DEF MoveEnv, Sent, NotSent, UpdateMeta, ReplaceMeta, UnlinkEnv, UnlinkMeta, Files, QueueShape, Doing
<1>5. /\ \A p \in Places \ {Home(d)} : Listed(p)' = Listed(p)
      /\ m \in Listed(Home(d))' \/ m \notin Listed(Home(d)) \/ m \in over
  <2>1. CASE MoveEnv(d) \/ Sent(d) \/ NotSent(d) \/ UpdateMeta(d) \/ UnlinkEnv(d)
    <3>1. meta' = meta
      BY <2>1 DEF MoveEnv, Sent, NotSent, UpdateMeta, UnlinkEnv, Files
    <3> QED BY <1>0, <3>1 DEF Listed, Home
  <2>2. CASE ReplaceMeta(d)
    <3>1. PICK v : /\ meta'[Home(d)] = With(meta[Home(d)], m, v)
                   /\ \A p \in Places \ {Home(d)} : meta'[p] = meta[p]
      BY <1>0, <2>2 DEF ReplaceMeta, QueueShape
    <3>2. DOMAIN meta'[Home(d)] = DOMAIN meta[Home(d)] \cup {m}
      BY <3>1 DEF With
    <3> QED BY <1>0, <3>1, <3>2 DEF Listed, Home
  <2>3. CASE UnlinkMeta(d)
    <3>1. \A p \in Places \ {Home(d)} : meta'[p] = meta[p]
      BY <1>0, <2>3 DEF UnlinkMeta, QueueShape
    <3>2. m \in over
      BY <1>0, <2>3 DEF UnlinkMeta, Doing, Has, Tidy, RemovesOver
    <3> QED BY <1>0, <3>1, <3>2 DEF Listed, Home
  <2> QED BY <2>1, <2>2, <2>3
<1>6. /\ \A e \in Drainers : (Has(e, Every, m)' => Has(e, Every, m)) /\ ~Has(e, Putting, m)' /\ ~Has(e, {"putMeta"}, m)'
      /\ \A e \in Drainers : Has(e, {"move"}, m)' => e # d /\ Has(e, {"move"}, m)
      /\ \A e \in Drainers : Has(e, {"unlinkEnv", "unlinkMeta"}, m)' => e = d \/ Has(e, {"unlinkEnv", "unlinkMeta"}, m)
  BY <1>0, <1>1, <1>2 DEF Has, Every, JobSteps, Putting
<1>7. \A p \in Agents : Trace(p, m)' => p = Home(d)
  <2> SUFFICES ASSUME NEW p \in Agents, p # Home(d), Trace(p, m)' PROVE FALSE
    OBVIOUS
  <2>1. ~Trace(p, m) /\ p \in Places /\ p # Shared
    BY <1>0, <1>1, QueueAssumption
  <2>2. m \notin env'[p] /\ m \notin Listed(p)'
    BY <1>4, <1>5, <2>1 DEF Trace
  <2> QED BY <1>0, <1>6, <2>1, <2>2 DEF Trace, Home
<1>8. OneAgent(m)' /\ OnlyShared(m)' /\ OldOnes(m)' /\ NewOnes(m)'
  BY <1>0, <1>1, <1>2, <1>3, <1>5, <1>6, <1>7 DEF OneAgent, OnlyShared, OldOnes, NewOnes
<1>9. MovesOn(m)'
  <2> SUFFICES ASSUME NEW e \in Drainers, Has(e, {"move"}, m)'
               PROVE  /\ m \in env'[Shared] /\ (m \notin over' => m \in Listed(Home(e))')
                      /\ \A f \in Drainers : Has(f, {"move"}, m)' => e = f
    BY DEF MovesOn, Home
  <2>1. e # d /\ Has(e, {"move"}, m) /\ m \in env[Shared] /\ (m \notin over => m \in Listed(Home(e)))
        /\ \A f \in Drainers : Has(f, {"move"}, m) => e = f
    BY <1>6 DEF Tidy, MovesOn
  <2>2. job[d].step # "move"
    BY <1>0, <2>1 DEF Has
  <2>3. Home(e) = Home(d)
    <3>1. Has(e, Every, m) /\ Home(e) \in Agents
      BY <2>1 DEF Has, Every, JobSteps, Home, QueueShape
    <3> QED BY <1>1, <3>1 DEF Trace
  <2> QED BY <1>0, <1>3, <1>4, <1>5, <1>6, <2>1, <2>2, <2>3 DEF Home
<1>10. RemovesOver(m)'
  BY <1>3, <1>6, <1>0, <1>2 DEF RemovesOver, Tidy, Has
<1> QED BY <1>8, <1>9, <1>10 DEF Tidy

\* A listed mail is taken up.
LEMMA TidyTaken ==
  ASSUME QueueShape, NEW d \in Drainers, NEW m \in Mails, Tidy(m),
         \/ ClaimMeta(d, m) /\ m \in Listed(Shared) /\ m \notin Listed(Home(d))
         \/ VisitPurge(d, m) /\ OnTo(d, "unlinkEnv", m)
         \/ VisitDrain(d, m) /\ Readable(Home(d), m)
  PROVE  Tidy(m)'
<1>0. /\ job[d].step = "visit" /\ Home(d) \in Agents /\ Home(d) \in Places
      /\ Home(d) # Shared /\ Agents \subseteq Places /\ Shared \in Places /\ home' = home
  BY QueueAssumption DEF QueueShape, Home, Places, ClaimMeta, VisitPurge, VisitDrain, Doing, Files
<1>1. CASE ClaimMeta(d, m) /\ m \in Listed(Shared) /\ m \notin Listed(Home(d))
  <2>1. /\ (\A e \in Drainers \ {d} : job'[e] = job[e]) /\ job'[d].step = "move" /\ job'[d].mail = m
        /\ UNCHANGED <<env, stored, over>>
    <3>1. OnTo(d, "move", m)
      BY <1>1 DEF ClaimMeta
    <3> QED BY <1>0, <1>1, <3>1, OnToJob DEF ClaimMeta, Histories, JobSteps
  <2>2. m \in Listed(Home(d))' /\ m \notin Listed(Shared)'
        /\ \A p \in Places \ {Home(d), Shared} : Listed(p)' = Listed(p)
    <3>1. /\ meta'[Home(d)] = With(meta[Home(d)], m, meta[Shared][m]) /\ meta'[Shared] = Less(meta[Shared], m)
          /\ \A p \in Places \ {Home(d), Shared} : meta'[p] = meta[p]
      BY <1>0, <1>1 DEF ClaimMeta, QueueShape
    <3>2. m \in DOMAIN meta'[Home(d)]
      BY <3>1 DEF With
    <3>3. m \notin DOMAIN meta'[Shared]
      BY <3>1 DEF Less
    <3> QED BY <1>0, <3>1, <3>2, <3>3 DEF Listed, Home
  <2>3. m \in env[Shared] /\ m \in stored /\ \A p \in Agents : ~Trace(p, m)
    BY <1>0, <1>1 DEF Tidy, OnlyShared, OldOnes
  <2>4. \A e \in Drainers : ~Has(e, Every, m) /\ Home(e) \in Agents
    BY <2>3 DEF Trace, QueueShape, Home
  <2>5. /\ \A e \in Drainers : (Has(e, Every, m)' => e = d) /\ ~Has(e, Putting, m)' /\ ~Has(e, {"putMeta"}, m)'
        /\ \A e \in Drainers : (Has(e, {"move"}, m)' => e = d) /\ ~Has(e, {"unlinkEnv", "unlinkMeta"}, m)'
    BY <2>1, <2>4 DEF Has, Every, JobSteps, Putting
  <2>6. \A p \in Agents : Trace(p, m)' => p = Home(d)
    <3> SUFFICES ASSUME NEW p \in Agents, p # Home(d), Trace(p, m)' PROVE FALSE
      OBVIOUS
    <3>1. m \notin env[p] /\ m \notin Listed(p) /\ p # Shared /\ p \in Places
      BY <1>0, <2>3, QueueAssumption DEF Trace
    <3>2. m \notin env'[p] /\ m \notin Listed(p)'
      BY <2>1, <2>2, <3>1
    <3> QED BY <1>0, <2>5, <3>2 DEF Trace, Home
  <2>7. OneAgent(m)' /\ OnlyShared(m)' /\ OldOnes(m)' /\ NewOnes(m)'
    BY <1>0, <2>1, <2>2, <2>3, <2>5, <2>6 DEF OneAgent, OnlyShared, OldOnes, NewOnes
  <2>8. MovesOn(m)' /\ RemovesOver(m)'
    BY <1>0, <2>1, <2>2, <2>3, <2>5 DEF MovesOn, RemovesOver, Home
  <2> QED BY <2>7, <2>8 DEF Tidy
<1>2. CASE (VisitPurge(d, m) /\ OnTo(d, "unlinkEnv", m)) \/ (VisitDrain(d, m) /\ Readable(Home(d), m))
  <2>1. PICK s \in {"unlinkEnv", "send"} :
             /\ job'[d].step = s /\ job'[d].mail = m /\ \A e \in Drainers \ {d} : job'[e] = job[e]
             /\ UNCHANGED <<env, meta, stored>> /\ over' \in {over, over \cup {m}}
             /\ s = "unlinkEnv" => m \in over'
             /\ m \in Listed(Home(d))
    <3>1. CASE VisitPurge(d, m) /\ OnTo(d, "unlinkEnv", m)
      <4>1. m \in Listed(Home(d)) /\ over' = over \cup {m}
        <5>1. job'[d].step = "unlinkEnv"
          BY <1>0, <3>1, OnToJob DEF JobSteps
        <5>2. ~SkipMail(d, m)
          BY <1>0, <5>1, SkipJob
        <5> QED BY <3>1, <5>2 DEF VisitPurge
      <4> QED BY <1>0, <3>1, <4>1, OnToJob DEF VisitPurge, JobSteps, Files
    <3>2. CASE VisitDrain(d, m) /\ Readable(Home(d), m)
      <4>1. OnTo(d, "send", m)
        BY <3>2 DEF VisitDrain
      <4> QED BY <1>0, <3>2, <4>1, OnToJob DEF VisitDrain, JobSteps, Files, Histories, Readable, Pair
    <3> QED BY <1>2, <3>1, <3>2
  <2>2. m \in stored /\ Trace(Home(d), m) /\ m \notin Listed(Shared)
    BY <1>0, <2>1 DEF Tidy, OldOnes, OnlyShared, Trace
  <2>3. /\ \A e \in Drainers : ~Has(e, Putting, m) /\ ~Has(e, {"putMeta"}, m)
        /\ \A p \in Agents : Trace(p, m) => p = Home(d)
    <3>1. \A e \in Drainers : Has(e, {"putMeta"}, m) => Has(e, Putting, m)
      BY DEF Has, Putting
    <3> QED BY <1>0, <2>2, <3>1 DEF Tidy, NewOnes, OneAgent
  <2>4. /\ \A e \in Drainers : (Has(e, Every, m)' => e = d \/ Has(e, Every, m)) /\ ~Has(e, Putting, m)' /\ ~Has(e, {"putMeta"}, m)'
        /\ \A e \in Drainers : (Has(e, {"move"}, m)' => Has(e, {"move"}, m))
        /\ \A e \in Drainers : Has(e, {"unlinkEnv", "unlinkMeta"}, m)' => (e = d /\ m \in over') \/ Has(e, {"unlinkEnv", "unlinkMeta"}, m)
    BY <2>1, <2>3 DEF Has, Every, JobSteps, Putting
  <2>5. \A p \in Places : Listed(p)' = Listed(p)
    BY <2>1 DEF Listed
  <2>6. \A p \in Agents : Trace(p, m)' => p = Home(d)
    <3> SUFFICES ASSUME NEW p \in Agents, p # Home(d), Trace(p, m)' PROVE FALSE
      OBVIOUS
    <3> QED BY <1>0, <2>1, <2>3, <2>4, <2>5 DEF Trace, Home
  <2>7. OneAgent(m)' /\ OnlyShared(m)' /\ OldOnes(m)' /\ NewOnes(m)'
    BY <1>0, <2>1, <2>2, <2>4, <2>5, <2>6 DEF OneAgent, OnlyShared, OldOnes, NewOnes
  <2>8. \A e \in Drainers : Home(e) \in Places
    BY <1>0 DEF QueueShape, Home
  <2>9. MovesOn(m)' /\ RemovesOver(m)'
    BY <1>0, <2>1, <2>4, <2>5, <2>8 DEF MovesOn, RemovesOver, Home, Tidy
  <2> QED BY <2>7, <2>9 DEF Tidy
<1> QED BY <1>1, <1>2

\* What a step about mail m leaves of the others.
SameOf(n) ==
  /\ \A p \in Places : (n \in env'[p] <=> n \in env[p]) /\ (n \in Listed(p)' <=> n \in Listed(p))
  /\ (n \in stored' <=> n \in stored) /\ (n \in over' <=> n \in over) /\ sends'[n] = sends[n]
FilesShape ==
  /\ env \in [Places -> SUBSET Mails] /\ meta = [p \in Places |-> meta[p]]
  /\ \A p \in Places : Listed(p) \subseteq Mails
Works(d) == MoveEnv(d) \/ Sent(d) \/ NotSent(d) \/ UpdateMeta(d) \/ ReplaceMeta(d) \/ UnlinkEnv(d) \/ UnlinkMeta(d)
Takes(d, m) ==
  \/ (ClaimMeta(d, m) /\ m \in Listed(Shared) /\ m \notin Listed(Home(d)))
  \/ (VisitPurge(d, m) /\ OnTo(d, "unlinkEnv", m))
  \/ (VisitDrain(d, m) /\ Readable(Home(d), m))

\* The three kinds of step: about one mail, between two mails, and about no job.
About(d, m) ==
  \/ Queue(d, m)
  \/ m = job[d].mail /\ (PutEnv(d) \/ PutMeta(d) \/ (job[d].step \in JobSteps /\ Works(d)))
  \/ Takes(d, m)
Idles(d) ==
  /\ UNCHANGED <<home, env, stored, over, sends>>
  /\ FilesShape' /\ \A p \in Places : Listed(p)' = Listed(p)
  /\ job' \in [Drainers -> Jobs] /\ \A e \in Drainers \ {d} : job'[e] = job[e]
  /\ job'[d].step \in {"none", "visit"}
  /\ \/ died' = died /\ job[d].step \notin (JobSteps \ {"replace"}) \cup Putting
     \/ died' = died + 1 /\ died' \in 0..QueueCrashes
Still ==
  /\ UNCHANGED <<home, env, job, died, stored, over, sends>>
  /\ FilesShape' /\ \A p \in Places : Listed(p)' = Listed(p)

LEMMA OneEnv ==
  ASSUME QueueShape, NEW m \in Mails, NEW q \in Places, NEW put, meta' = meta,
         put = env[q] \cup {m} \/ put = env[q] \ {m} \/ put = env[q], env' = [env EXCEPT ![q] = put]
  PROVE  /\ FilesShape'
         /\ \A n \in Mails \ {m}, p \in Places : (n \in env'[p] <=> n \in env[p]) /\ Listed(p)' = Listed(p)
<1>1. env' = [p \in Places |-> IF p = q THEN put ELSE env[p]] /\ put \in SUBSET Mails
  BY DEF QueueShape
<1>2. \A p \in Places : Listed(p)' = Listed(p)
  BY DEF Listed
<1> QED BY <1>1, <1>2 DEF QueueShape, FilesShape

LEMMA OneMeta ==
  ASSUME QueueShape, NEW m \in Mails, NEW q \in Places, NEW f, env' = env,
         DOMAIN f = DOMAIN meta[q] \cup {m} \/ DOMAIN f = DOMAIN meta[q] \ {m} \/ DOMAIN f = DOMAIN meta[q],
         meta' = [meta EXCEPT ![q] = f]
  PROVE  /\ FilesShape' /\ Listed(q)' = DOMAIN f /\ \A p \in Places \ {q} : Listed(p)' = Listed(p)
         /\ \A n \in Mails \ {m}, p \in Places : (n \in env'[p] <=> n \in env[p]) /\ (n \in Listed(p)' <=> n \in Listed(p))
<1>1. meta' = [p \in Places |-> IF p = q THEN f ELSE meta[p]]
  BY DEF QueueShape
<1>2. Listed(q)' = DOMAIN f /\ \A p \in Places \ {q} : Listed(p)' = Listed(p)
  BY <1>1 DEF Listed
<1>3. DOMAIN f \subseteq Mails /\ \A n \in Mails \ {m} : n \in DOMAIN f <=> n \in Listed(q)
  BY DEF QueueShape, Listed
<1>4. meta' = [p \in Places |-> meta'[p]]
  BY <1>1
<1> QED BY <1>2, <1>3, <1>4 DEF QueueShape, FilesShape

LEMMA NoFile ==
  ASSUME QueueShape, env' = env, meta' = meta
  PROVE  /\ FilesShape' /\ \A p \in Places : Listed(p)' = Listed(p)
<1>1. \A p \in Places : Listed(p)' = Listed(p)
  BY DEF Listed
<1> QED BY <1>1 DEF QueueShape, FilesShape

LEMMA OneTouched ==
  ASSUME QueueShape, NEW d \in Drainers, NEW m \in Mails, About(d, m)
  PROVE  QueueShape' /\ (\A n \in Mails \ {m} : SameOf(n)) /\ home' = home /\ died' = died
         /\ (\A e \in Drainers \ {d} : job'[e] = job[e]) /\ (job'[d].step \in Every => job'[d].mail = m)
<1>0. Home(d) \in Places /\ Shared \in Places /\ Home(d) # Shared
  BY QueueAssumption DEF QueueShape, Home, Places
<1>1. /\ job' \in [Drainers -> Jobs] /\ \A e \in Drainers \ {d} : job'[e] = job[e]
      /\ job'[d].step \in Every => job'[d].mail = m
  <2>0. "visit" \notin Every /\ "none" \notin Every /\ "putMeta" \in Every
    BY DEF Every, JobSteps, Putting
  <2>1. CASE Queue(d, m)
    <3> DEFINE j == [step |-> "putEnv", mail |-> m]
    <3>1. j \in Puts /\ j.mail = m
      BY DEF Puts, Putting
    <3>2. Do(d, j) /\ j \in Jobs
      BY <2>1, <3>1, JobFacts DEF Queue
    <3> HIDE DEF j
    <3> QED BY <3>1, <3>2, DoJob DEF Next1
  <2>2. CASE m = job[d].mail /\ PutEnv(d)
    <3> DEFINE j == [job[d] EXCEPT !.step = "putMeta"]
    <3>1. job[d] \in Puts
      BY <2>2, JobFacts DEF PutEnv, Doing, QueueShape, Putting
    <3>2. j \in Puts /\ j.mail = m
      BY <2>2, <3>1 DEF Puts, Putting
    <3>3. Do(d, j) /\ j \in Jobs
      BY <2>2, <3>2, JobFacts DEF PutEnv, Step
    <3> HIDE DEF j
    <3> QED BY <3>2, <3>3, DoJob DEF Next1
  <2>3. CASE m = job[d].mail /\ PutMeta(d)
    BY <2>0, <2>3, JobFacts, DoJob DEF Next1, PutMeta
  <2>4. CASE m = job[d].mail /\ job[d].step \in JobSteps /\ (MoveEnv(d) \/ ReplaceMeta(d))
    BY <2>0, <2>4, GoOnJob DEF MoveEnv, ReplaceMeta
  <2>5. CASE m = job[d].mail /\ job[d].step \in JobSteps /\ (Sent(d) \/ NotSent(d) \/ UpdateMeta(d))
    BY <2>0, <2>5, StepJob DEF Sent, NotSent, UpdateMeta, JobSteps
  <2>8. CASE m = job[d].mail /\ (UnlinkEnv(d) \/ UnlinkMeta(d))
    BY <2>0, <2>8, UnlinkJob
  <2>6. ASSUME NEW s \in JobSteps, OnTo(d, s, m), job[d].step = "visit"
        PROVE  /\ job' \in [Drainers -> Jobs] /\ \A e \in Drainers \ {d} : job'[e] = job[e]
               /\ job'[d].step \in Every => job'[d].mail = m
    BY <2>0, <2>6, OnToJob
  <2>7. CASE Takes(d, m)
    BY <2>6, <2>7 DEF Takes, ClaimMeta, VisitPurge, VisitDrain, Doing, JobSteps
  <2> QED BY <2>1, <2>2, <2>3, <2>4, <2>5, <2>7, <2>8 DEF About, Works
<1>2. /\ stored' \in {stored, stored \cup {m}} /\ over' \in {over, over \cup {m}} /\ home' = home /\ died' = died
      /\ sends' \in [Mails -> Nat] /\ \A n \in Mails \ {m} : sends'[n] = sends[n]
  <2>1. CASE sends' = sends
    BY <2>1 DEF About, Queue, PutEnv, PutMeta, Works, Takes, MoveEnv, Sent, NotSent, UpdateMeta, ReplaceMeta, UnlinkEnv, UnlinkMeta,
       ClaimMeta, VisitPurge, VisitDrain, Files, Histories, QueueShape
  <2>2. CASE Sent(d) /\ m = job[d].mail
    BY <2>2, QueueAssumption, FS_CardinalityType DEF Sent, Files, QueueShape
  <2> QED BY <2>1, <2>2 DEF About, Queue, PutEnv, PutMeta, Works, Takes, MoveEnv, NotSent, UpdateMeta, ReplaceMeta, UnlinkEnv,
     UnlinkMeta, ClaimMeta, VisitPurge, VisitDrain, Histories
<1>3. FilesShape' /\ \A n \in Mails \ {m}, p \in Places :
        (n \in env'[p] <=> n \in env[p]) /\ (n \in Listed(p)' <=> n \in Listed(p))
  <2>1. CASE env' = env /\ meta' = meta
    BY <2>1, NoFile
  <2>2. CASE m = job[d].mail /\ (PutEnv(d) \/ UnlinkEnv(d))
    BY <1>0, <2>2, OneEnv DEF PutEnv, UnlinkEnv
  <2>3. CASE m = job[d].mail /\ (PutMeta(d) \/ ReplaceMeta(d) \/ UnlinkMeta(d))
    <3>1. PICK f, v : /\ meta' = [meta EXCEPT ![Home(d)] = f] /\ env' = env
                      /\ f \in {With(meta[Home(d)], m, v), Less(meta[Home(d)], m)}
      BY <2>3 DEF PutMeta, ReplaceMeta, UnlinkMeta
    <3>2. DOMAIN f = DOMAIN meta[Home(d)] \cup {m} \/ DOMAIN f = DOMAIN meta[Home(d)] \ {m}
      BY <3>1 DEF With, Less
    <3> QED BY <1>0, <3>1, <3>2, OneMeta
  <2>4. CASE m = job[d].mail /\ MoveEnv(d)
    <3> DEFINE B == [p \in Places |-> CASE p = Shared -> env[Shared] \ {m}
                                       [] p = Home(d) -> env[Home(d)] \cup {m} [] OTHER -> env[p]]
    <3>1. env' = env \/ env' = B
      BY <1>0, <2>4 DEF MoveEnv, QueueShape
    <3>2. meta' = meta /\ \A p \in Places : Listed(p)' = Listed(p)
      BY <2>4 DEF MoveEnv, Listed
    <3>3. env' \in [Places -> SUBSET Mails] /\ \A n \in Mails \ {m}, p \in Places : n \in env'[p] <=> n \in env[p]
      BY <1>0, <3>1 DEF QueueShape
    <3> QED BY <3>2, <3>3 DEF FilesShape, QueueShape
  <2>5. CASE ClaimMeta(d, m) /\ m \in Listed(Shared) /\ m \notin Listed(Home(d))
    <3>1. /\ meta' = [p \in Places |-> IF p = Home(d) THEN With(meta[Home(d)], m, meta[Shared][m])
                                       ELSE IF p = Shared THEN Less(meta[Shared], m) ELSE meta[p]]
          /\ env' = env
      BY <1>0, <2>5 DEF ClaimMeta, QueueShape, Files
    <3>2. Listed(Home(d))' = Listed(Home(d)) \cup {m}
      <4>1. meta'[Home(d)] = With(meta[Home(d)], m, meta[Shared][m])
        BY <1>0, <3>1
      <4>2. DOMAIN meta'[Home(d)] = DOMAIN meta[Home(d)] \cup {m}
        BY <4>1 DEF With
      <4> QED BY <1>2, <4>2 DEF Listed, Home
    <3>3. Listed(Shared)' = Listed(Shared) \ {m}
      <4>1. meta'[Shared] = Less(meta[Shared], m)
        BY <1>0, <3>1
      <4> QED BY <4>1 DEF Less, Listed
    <3>4. \A p \in Places \ {Home(d), Shared} : Listed(p)' = Listed(p)
      BY <3>1 DEF Listed
    <3>5. meta' = [p \in Places |-> meta'[p]]
      BY <3>1
    <3>6. \A p \in Places : Listed(p)' \subseteq Mails
      <4> SUFFICES ASSUME NEW p \in Places PROVE Listed(p)' \subseteq Mails
        OBVIOUS
      <4>1. Listed(p) \subseteq Mails
        BY DEF QueueShape
      <4> QED BY <1>0, <1>2, <3>2, <3>3, <3>4, <4>1 DEF Home
    <3>7. FilesShape'
      <4>1. env' \in [Places -> SUBSET Mails]
        BY <3>1 DEF QueueShape
      <4> QED BY <3>5, <3>6, <4>1 DEF FilesShape
    <3>8. \A n \in Mails \ {m}, p \in Places : n \in Listed(p)' <=> n \in Listed(p)
      BY <1>0, <1>2, <3>2, <3>3, <3>4 DEF Home
    <3> QED BY <3>1, <3>7, <3>8
  <2> QED BY <2>1, <2>2, <2>3, <2>4, <2>5 DEF About, Queue, Works, Takes, Sent, NotSent, UpdateMeta, ClaimMeta, VisitPurge,
     VisitDrain, Files
<1>4. QueueShape'
  BY <1>1, <1>2, <1>3 DEF QueueShape, FilesShape
<1>5. \A n \in Mails \ {m} : SameOf(n)
  BY <1>2, <1>3 DEF SameOf
<1> QED BY <1>1, <1>2, <1>4, <1>5

LEMMA KindsOfStep ==
  ASSUME QueueShape, [QueueNext]_queueVars
  PROVE  Still \/ \E d \in Drainers : Idles(d) \/ \E m \in Mails : About(d, m)
<1>1. ASSUME UNCHANGED queueVars PROVE Still
  BY <1>1, NoFile DEF queueVars, Still
<1>2. ASSUME NEW m \in Mails, Outlive(m) PROVE Still
  BY <1>2, NoFile DEF Outlive, Files, Histories, Still
<1>3. ASSUME NEW m \in Mails, NEW p \in Agents, BackoffOver(p, m) PROVE Still
  <2>1. DOMAIN [meta[p] EXCEPT ![m] = "ready"] = DOMAIN meta[p] /\ p \in Places
    BY DEF Places
  <2>2. meta' = [meta EXCEPT ![p] = [meta[p] EXCEPT ![m] = "ready"]] /\ env' = env
    BY <1>3 DEF BackoffOver
  <2>3. FilesShape' /\ Listed(p)' = Listed(p) /\ \A q \in Places \ {p} : Listed(q)' = Listed(q)
    BY <2>1, <2>2, OneMeta DEF Listed
  <2> QED BY <1>3, <2>3 DEF BackoffOver, Histories, Still
<1>4. ASSUME NEW d \in Drainers, OpenQueue(d) \/ Finished(d) \/ Die(d) PROVE Idles(d)
  <2>1. job[d] = NoJob \/ job[d].step = "visit" => job[d].step \notin JobSteps \cup Putting
    BY JobFacts DEF JobSteps, Putting
  <2>2. \/ died' = died /\ (job[d] = NoJob \/ job[d].step = "visit")
        \/ died' = died + 1 /\ died' \in 0..QueueCrashes
    BY <1>4, QueueAssumption DEF OpenQueue, Finished, Die, Doing, QueueShape
  <2> QED BY <1>4, <2>1, <2>2, IdleJob, NoFile DEF Idles, OpenQueue, Finished, Die, Files, Histories
<1>5. ASSUME NEW d \in Drainers, NEW m \in Mails, job[d].step = "visit", SkipMail(d, m),
             UNCHANGED <<home, env, meta, stored, over, sends, died>>
      PROVE  Idles(d)
  <2>1. job[d].step \notin JobSteps \cup Putting
    BY <1>5 DEF JobSteps, Putting
  <2> QED BY <1>5, <2>1, SkipJob, NoFile DEF Idles
<1>6. ASSUME NEW d \in Drainers, NEW m \in Mails, ClaimMeta(d, m) \/ VisitPurge(d, m) \/ VisitDrain(d, m)
      PROVE  Idles(d) \/ About(d, m)
  <2>1. job[d].step = "visit"
    BY <1>6 DEF ClaimMeta, VisitPurge, VisitDrain, Doing
  <2> QED BY <1>5, <1>6, <2>1 DEF ClaimMeta, VisitPurge, VisitDrain, About, Takes, Files, Histories
<1>7. ASSUME NEW d \in Drainers, PutEnv(d) \/ PutMeta(d) \/ Works(d)
      PROVE  \E m \in Mails : About(d, m)
  <2>1. job[d].step \in Putting \cup JobSteps
    BY <1>7 DEF PutEnv, PutMeta, Works, MoveEnv, Sent, NotSent, UpdateMeta, ReplaceMeta, UnlinkEnv, UnlinkMeta, Doing, JobSteps, Putting
  <2>2. job[d].mail \in Mails
    BY <2>1, JobFacts DEF QueueShape
  <2>3. About(d, job[d].mail)
    <3>1. "putEnv" \notin JobSteps /\ "putMeta" \notin JobSteps
      BY DEF JobSteps
    <3>2. Works(d) => job[d].step \in JobSteps
      BY DEF Works, MoveEnv, Sent, NotSent, UpdateMeta, ReplaceMeta, UnlinkEnv, UnlinkMeta, Doing, JobSteps
    <3> QED BY <1>7, <3>2 DEF About
  <2> QED BY <2>2, <2>3
<1>8. ASSUME NEW d \in Drainers, NEW m \in Mails, Queue(d, m) PROVE About(d, m)
  BY <1>8 DEF About
<1>9. ASSUME NEW d \in Drainers, ReplaceRaises(d) PROVE Idles(d)
  <2>1. /\ job' \in [Drainers -> Jobs] /\ (\A e \in Drainers \ {d} : job'[e] = job[e]) /\ job'[d].step = "none"
        /\ UNCHANGED <<home, env, stored, over, sends, died>> /\ job[d].step = "replace"
    BY <1>9, JobFacts, DoJob DEF ReplaceRaises, Next1, Histories, Doing
  <2>2. CASE meta' = meta
    BY <2>1, <2>2, NoFile DEF Idles, Putting
  <2>3. CASE meta' # meta
    <3>1. Home(d) \in Places /\ job[d].mail \in Mails
      BY <2>1, JobFacts DEF QueueShape, Home, Places, JobSteps
    <3>2. PICK v : meta' = [meta EXCEPT ![Home(d)][job[d].mail] = v]
      BY <1>9, <2>3 DEF ReplaceRaises
    <3> DEFINE f == [meta[Home(d)] EXCEPT ![job[d].mail] = v]
    <3>3. DOMAIN f = DOMAIN meta[Home(d)] /\ meta' = [meta EXCEPT ![Home(d)] = f]
      BY <3>2
    <3> HIDE DEF f
    <3>q. PICK q \in Places, m \in Mails \cup Places : q = Home(d) /\ m = job[d].mail
      BY <3>1
    <3>4. FilesShape' /\ Listed(q)' = DOMAIN f /\ \A p \in Places \ {q} : Listed(p)' = Listed(p)
      <4>1. m \in Mails /\ meta' = [meta EXCEPT ![q] = f] /\ DOMAIN f = DOMAIN meta[q] /\ env' = env
        BY <2>1, <3>1, <3>3, <3>q
      <4> QED BY <3>q, <4>1, OneMeta
    <3>5. \A p \in Places : Listed(p)' = Listed(p)
      <4>1. Listed(q)' = Listed(q)
        BY <3>3, <3>4, <3>q DEF Listed
      <4> QED BY <3>4, <4>1
    <3> QED BY <2>1, <3>4, <3>5 DEF Idles, Putting
  <2> QED BY <2>2, <2>3
<1>10. CASE QueueNext
  BY <1>10, <1>2, <1>3, <1>4, <1>6, <1>7, <1>8, <1>9 DEF QueueNext, Works
<1> QED BY <1>1, <1>10

LEMMA ShapeStep ==
  ASSUME QueueShape, [QueueNext]_queueVars
  PROVE  QueueShape'
<1>1. CASE Still
  BY <1>1 DEF Still, QueueShape, FilesShape
<1>2. CASE \E d \in Drainers : Idles(d)
  <2>1. FilesShape'
    BY <1>2 DEF Idles
  <2>2. died' \in 0..QueueCrashes
    BY <1>2 DEF Idles, QueueShape
  <2> QED BY <1>2, <2>1, <2>2 DEF Idles, QueueShape, FilesShape
<1>3. CASE \E d \in Drainers, m \in Mails : About(d, m)
  BY <1>3, OneTouched DEF About
<1> QED BY <1>1, <1>2, <1>3, KindsOfStep

LEMMA TidyStep ==
  ASSUME QueueShape, \A n \in Mails : Tidy(n), [QueueNext]_queueVars, NEW m \in Mails
  PROVE  Tidy(m)'
<1>1. CASE Still
  <2>1. \A d \in Drainers : Home(d)' = Home(d) /\ \A S \in SUBSET Every : Has(d, S, m)' <=> Has(d, S, m)
    BY <1>1 DEF Still, Home, Has
  <2>2. /\ {"move"} \in SUBSET Every /\ JobSteps \in SUBSET Every /\ Putting \in SUBSET Every
        /\ {"putMeta"} \in SUBSET Every /\ {"unlinkEnv", "unlinkMeta"} \in SUBSET Every /\ Every \in SUBSET Every
        /\ Shared \in Places /\ Agents \subseteq Places /\ \A d \in Drainers : Home(d) \in Places
    BY DEF Every, JobSteps, Putting, Places, QueueShape, Home
  <2>3. \A p \in Agents : Trace(p, m)' => Trace(p, m)
    BY <1>1, <2>1, <2>2 DEF Still, Trace
  <2>4. OneAgent(m)' /\ OnlyShared(m)' /\ OldOnes(m)'
    BY <1>1, <2>1, <2>2, <2>3 DEF Still, Tidy, OneAgent, OnlyShared, OldOnes
  <2>5. NewOnes(m)' /\ RemovesOver(m)'
    BY <1>1, <2>1, <2>2 DEF Still, Tidy, NewOnes, RemovesOver
  <2>6. MovesOn(m)'
    BY <1>1, <2>1, <2>2 DEF Still, Tidy, MovesOn
  <2> QED BY <2>4, <2>5, <2>6 DEF Tidy
<1>2. ASSUME NEW d \in Drainers, Idles(d) PROVE Tidy(m)'
  <2>1. ~Has(d, Every, m)'
    BY <1>2 DEF Idles, Has, Every, JobSteps, Putting
  <2> QED BY <1>2, <2>1, TidyOther DEF Idles
<1>3. ASSUME NEW d \in Drainers, NEW n \in Mails, About(d, n), n # m PROVE Tidy(m)'
  <2>1. /\ SameOf(m) /\ home' = home /\ (\A e \in Drainers \ {d} : job'[e] = job[e])
        /\ (job'[d].step \in Every => job'[d].mail = n)
    BY <1>3, OneTouched DEF About
  <2>2. ~Has(d, Every, m)'
    BY <1>3, <2>1 DEF Has
  <2> QED BY <2>1, <2>2, TidyOther DEF SameOf
<1>4. ASSUME NEW d \in Drainers, About(d, m) PROVE Tidy(m)'
  <2>1. CASE Queue(d, m)
    BY <2>1, TidyQueue
  <2>2. CASE m = job[d].mail /\ (PutEnv(d) \/ PutMeta(d))
    BY <2>2, TidyPut
  <2>3. CASE m = job[d].mail /\ job[d].step \in JobSteps /\ Works(d)
    BY <2>3, TidyWork DEF Works, Has
  <2>4. CASE Takes(d, m)
    BY <2>4, TidyTaken DEF Takes
  <2> QED BY <1>4, <2>1, <2>2, <2>3, <2>4 DEF About
<1> QED BY <1>1, <1>2, <1>3, <1>4, KindsOfStep

LEMMA QueueStart ==
  ASSUME QueueInit
  PROVE  QueueShape /\ \A m \in Mails : Tidy(m)
<1>1. /\ Shared \in Places /\ Agents \subseteq Places /\ Shared \notin Agents /\ \A d \in Drainers : Home(d) \in Agents
      /\ \A p \in Places : Listed(p) = env[p] /\ env[p] = IF p = Shared THEN stored ELSE {}
  BY QueueAssumption DEF QueueInit, Places, Listed, Home
<1>2. \A d \in Drainers, m \in Mails : \A S \in SUBSET Every : ~Has(d, S, m)
  BY JobFacts DEF QueueInit, Has, Every, JobSteps, Putting
<1>3. QueueShape
  <2>1. meta = [p \in Places |-> meta[p]]
    BY DEF QueueInit
  <2>2. \A p \in Places : Listed(p) \subseteq Mails /\ env \in [Places -> SUBSET Mails]
    BY <1>1 DEF QueueInit
  <2> QED BY <2>1, <2>2, JobFacts, QueueAssumption DEF QueueInit, QueueShape
<1>4. ASSUME NEW m \in Mails PROVE Tidy(m)
  <2>1. \A p \in Agents : ~Trace(p, m)
    BY <1>1, <1>2, JobFacts DEF Trace
  <2>2. /\ {"move"} \in SUBSET Every /\ JobSteps \in SUBSET Every /\ Putting \in SUBSET Every
        /\ {"putMeta"} \in SUBSET Every /\ {"unlinkEnv", "unlinkMeta"} \in SUBSET Every
    BY DEF Every, JobSteps, Putting
  <2>3. OneAgent(m) /\ OnlyShared(m) /\ OldOnes(m)
    BY <1>1, <1>2, <2>1, <2>2 DEF OneAgent, OnlyShared, OldOnes, QueueInit
  <2>4. NewOnes(m) /\ MovesOn(m) /\ RemovesOver(m)
    BY <1>2, <2>2 DEF NewOnes, MovesOn, RemovesOver
  <2> QED BY <2>3, <2>4 DEF Tidy
<1> QED BY <1>3, <1>4

\* The files of a mail that two agents held would be two traces.
LEMMA OneAgentHolds ==
  ASSUME QueueShape, \A m \in Mails : Tidy(m)
  PROVE  PairsWhole
<1> SUFFICES ASSUME NEW p \in Agents, NEW q \in Agents, p # q, NEW m, m \in env[p], m \in Listed(q)
             PROVE  FALSE
  BY DEF PairsWhole
<1>1. m \in Mails
  BY DEF QueueShape, Places
<1> QED BY <1>1 DEF Tidy, OneAgent, Trace

\* A pair is there, whether or not its retry state can be read.
Forsaken(m) == m \in stored \ over /\ ~Moving(m) /\ \A p \in Places : ~Pair(p, m)
FewGone     == Cardinality({m \in Mails : Forsaken(m)}) <= died

\* A mail is stranded by the crash of the drainer that moves it, and by nothing else.
LEMMA StrandedBefore ==
  ASSUME QueueShape, NEW m \in Mails, home' = home, m \in stored' => m \in stored, m \in over => m \in over',
         \A p \in Places : Pair(p, m) => Pair(p, m)',
         \A e \in Drainers : Has(e, {"move"}, m) => job'[e] = job[e],
         Forsaken(m)'
  PROVE  Forsaken(m)
<1>1. ~Moving(m)
  BY DEF Forsaken, Moving, Doing, Has
<1> QED BY <1>1 DEF Forsaken

LEMMA StaysWhole ==
  ASSUME QueueShape, NEW m \in Mails, Tidy(m), NEW d \in Drainers, About(d, m), Forsaken(m)'
  PROVE  Forsaken(m)
<1>0. /\ Home(d) \in Places /\ Home(d) # Shared /\ Shared \in Places
      /\ home' = home /\ \A e \in Drainers \ {d} : job'[e] = job[e]
  BY QueueAssumption, OneTouched DEF QueueShape, Home, Places
<1>1. ASSUME m \notin stored, stored' = stored PROVE FALSE
  BY <1>1 DEF Forsaken
<1>2. ASSUME m \in over' PROVE FALSE
  BY <1>2 DEF Forsaken
<1>3. ASSUME Pair(Home(d), m)' PROVE FALSE
  BY <1>0, <1>3 DEF Forsaken, Home, Pair, Listed
<1>4. ASSUME stored' = stored, over' = over, env' = env, job[d].step # "move",
             \A p \in Places : m \in Listed(p) => m \in Listed(p)'
      PROVE  Forsaken(m)
  <2>1. \A e \in Drainers : Has(e, {"move"}, m) => job'[e] = job[e]
    BY <1>0, <1>4 DEF Has
  <2> QED BY <1>0, <1>4, <2>1, StrandedBefore DEF Pair
<1>5. ASSUME meta' = meta PROVE \A p \in Places : Listed(p)' = Listed(p)
  BY <1>5 DEF Listed
<1>6. CASE Queue(d, m)
  BY <1>1, <1>6 DEF Queue, Histories
<1>7. CASE m = job[d].mail /\ PutEnv(d)
  <2>1. Has(d, Putting, m)
    BY <1>7 DEF PutEnv, Doing, Has, Putting
  <2> QED BY <1>1, <1>7, <2>1 DEF Tidy, NewOnes, PutEnv, Histories
<1>8. CASE m = job[d].mail /\ PutMeta(d)
  <2>1. m \in env[Home(d)] /\ env' = env /\ meta'[Home(d)] = With(meta[Home(d)], m, "ready")
    BY <1>0, <1>8 DEF Tidy, NewOnes, PutMeta, Doing, Has, QueueShape
  <2>2. m \in DOMAIN meta'[Home(d)]
    BY <2>1 DEF With
  <2> QED BY <1>0, <1>3, <2>1, <2>2 DEF Pair, Listed, Home
<1>9. CASE m = job[d].mail /\ MoveEnv(d)
  <2>1. m \in env[Shared] /\ (m \notin over => m \in Listed(Home(d))) /\ over' = over /\ meta' = meta
    BY <1>9 DEF Tidy, MovesOn, MoveEnv, Doing, Has, Histories
  <2>2. m \in env'[Home(d)]
    BY <1>0, <1>9, <2>1 DEF MoveEnv, QueueShape
  <2> QED BY <1>0, <1>2, <1>3, <1>5, <2>1, <2>2 DEF Pair, Home
<1>10. CASE m = job[d].mail /\ Sent(d)
  BY <1>2, <1>10 DEF Sent
<1>11. CASE NotSent(d) \/ UpdateMeta(d)
  BY <1>4, <1>5, <1>11 DEF NotSent, UpdateMeta, Files, Histories, Doing
<1>12. CASE m = job[d].mail /\ ReplaceMeta(d)
  <2>1. PICK v : meta'[Home(d)] = With(meta[Home(d)], m, v) /\ \A p \in Places \ {Home(d)} : meta'[p] = meta[p]
    BY <1>0, <1>12 DEF ReplaceMeta, QueueShape
  <2>2. DOMAIN meta'[Home(d)] = DOMAIN meta[Home(d)] \cup {m}
    BY <2>1 DEF With
  <2> QED BY <1>4, <1>12, <2>1, <2>2 DEF ReplaceMeta, Histories, Doing, Listed
<1>13. CASE m = job[d].mail /\ (UnlinkEnv(d) \/ UnlinkMeta(d))
  <2>1. m \in over /\ over' = over
    BY <1>13 DEF Tidy, RemovesOver, UnlinkEnv, UnlinkMeta, Doing, Has, Histories
  <2> QED BY <1>2, <2>1
<1>14. CASE ClaimMeta(d, m) /\ m \in Listed(Shared) /\ m \notin Listed(Home(d))
  <2>1. job[d].step = "visit" /\ OnTo(d, "move", m) /\ "move" \in JobSteps
    BY <1>14 DEF ClaimMeta, Doing, JobSteps
  <2>2. job'[d].step = "move" /\ job'[d].mail = m
    BY <2>1, OnToJob
  <2> QED BY <2>2 DEF Forsaken, Moving, Doing
<1>15. CASE VisitPurge(d, m) /\ OnTo(d, "unlinkEnv", m)
  <2>1. job[d].step = "visit" /\ "unlinkEnv" \in JobSteps
    BY <1>15 DEF VisitPurge, Doing, JobSteps
  <2>2. job'[d].step = "unlinkEnv"
    BY <1>15, <2>1, OnToJob
  <2>3. ~SkipMail(d, m)
    BY <2>1, <2>2, SkipJob
  <2> QED BY <1>2, <1>15, <2>3 DEF VisitPurge
<1>16. CASE VisitDrain(d, m)
  BY <1>4, <1>5, <1>16 DEF VisitDrain, Doing, Files, Histories
<1> QED BY <1>6, <1>7, <1>8, <1>9, <1>10, <1>11, <1>12, <1>13, <1>14, <1>15, <1>16 DEF About, Works, Takes

Lost == {m \in Mails : Forsaken(m)}

LEMMA LostStep ==
  ASSUME QueueShape, \A m \in Mails : Tidy(m), [QueueNext]_queueVars, FewGone
  PROVE  FewGone'
<1>1. IsFiniteSet(Lost) /\ Cardinality(Lost) \in Nat /\ died \in Nat
  BY QueueAssumption, FS_Subset, FS_CardinalityType DEF Lost, QueueShape
<1>2. ASSUME Lost' \subseteq Lost, died' = died PROVE FewGone'
  <2>1. Cardinality(Lost') <= Cardinality(Lost) /\ Cardinality(Lost') \in Nat
    BY <1>1, <1>2, FS_Subset, FS_CardinalityType
  <2> QED BY <1>1, <1>2, <2>1 DEF FewGone, Lost
<1>3. CASE Still
  <2>1. \A m \in Mails : Forsaken(m)' => Forsaken(m)
    BY <1>3 DEF Still, Forsaken, Moving, Doing, Pair
  <2> QED BY <1>2, <1>3, <2>1 DEF Lost, Still
<1>4. ASSUME NEW d \in Drainers, NEW n \in Mails, About(d, n) PROVE FewGone'
  <2>1. ASSUME NEW m \in Mails, m # n, Forsaken(m)' PROVE Forsaken(m)
    <3>1. SameOf(m) /\ home' = home /\ \A e \in Drainers \ {d} : job'[e] = job[e]
      BY <1>4, <2>1, OneTouched
    <3>2. ~Has(d, {"move"}, m)
      BY <1>4, <2>1, JobFacts DEF About, Queue, Takes, PutEnv, PutMeta, ClaimMeta, VisitPurge, VisitDrain, Doing, Has
    <3> QED BY <2>1, <3>1, <3>2, StrandedBefore DEF SameOf, Pair, Has
  <2>2. \A m \in Mails : Forsaken(m)' => Forsaken(m)
    BY <1>4, <2>1, StaysWhole
  <2>3. died' = died
    BY <1>4, OneTouched
  <2> QED BY <1>2, <2>2, <2>3 DEF Lost
<1>5. ASSUME NEW d \in Drainers, Idles(d) PROVE FewGone'
  <2>1. ASSUME NEW m \in Mails, ~Has(d, {"move"}, m), Forsaken(m)' PROVE Forsaken(m)
    <3>1. home' = home /\ \A e \in Drainers : Has(e, {"move"}, m) => job'[e] = job[e]
      BY <1>5, <2>1 DEF Idles, Has
    <3>2. \A p \in Places : Pair(p, m)' = Pair(p, m)
      BY <1>5 DEF Idles, Pair
    <3> QED BY <1>5, <2>1, <3>1, <3>2, StrandedBefore DEF Idles
  <2>2. CASE died' = died /\ job[d].step \notin (JobSteps \ {"replace"}) \cup Putting
    <3>1. \A m \in Mails : ~Has(d, {"move"}, m)
      BY <2>2 DEF Has, JobSteps
    <3> QED BY <1>2, <2>1, <2>2, <3>1 DEF Lost
  <2>3. CASE died' = died + 1
    <3> DEFINE n == job[d].mail
    <3>1. Lost' \subseteq Lost \cup {n}
      BY <2>1 DEF Lost, Has
    <3>2. IsFiniteSet(Lost \cup {n}) /\ Cardinality(Lost \cup {n}) \in Nat
      BY <1>1, FS_AddElement, FS_CardinalityType
    <3>3. Cardinality(Lost \cup {n}) = IF n \in Lost THEN Cardinality(Lost) ELSE Cardinality(Lost) + 1
      BY <1>1, FS_AddElement
    <3>4. Cardinality(Lost') <= Cardinality(Lost \cup {n}) /\ Cardinality(Lost') \in Nat
      BY <3>1, <3>2, FS_Subset, FS_CardinalityType
    <3>5. Cardinality(Lost') <= died'
      BY <1>1, <2>3, <3>2, <3>3, <3>4 DEF FewGone, Lost
    <3> QED BY <3>5 DEF FewGone, Lost
  <2> QED BY <1>5, <2>2, <2>3 DEF Idles
<1> QED BY <1>3, <1>4, <1>5, KindsOfStep

-------------------------------------------------------------------------------
(* How often a mail goes out.  While its envelope lies somewhere, each     *)
(* send but one per crash is that of a drainer about to unlink it; once it *)
(* is unlinked only those go on that read it before.                       *)

Sending(m)   == {d \in Drainers : Has(d, {"send"}, m)}
Unlinking(m) == {d \in Drainers : Has(d, {"unlinkEnv"}, m) /\ job[d].aim = "drain"}
InOnePlace(m) == \A p, q \in Places : m \in env[p] /\ m \in env[q] => p = q
WhereRead(m) == /\ \A d \in Sending(m) \cup Unlinking(m) : \A q \in Places \ {Home(d)} : m \notin env[q]
                /\ \A d \in Sending(m) : job[d].aim = "drain"
SendsCounted(m) ==
  /\ m \notin stored => sends[m] = 0
  /\ (\E p \in Places : m \in env[p]) => sends[m] <= died + Cardinality(Unlinking(m))
  /\ sends[m] + Cardinality(Sending(m)) <= died + Cardinality(Drainers)
SentInv(m) == InOnePlace(m) /\ WhereRead(m) /\ SendsCounted(m)

LEMMA OneMore ==
  ASSUME NEW X, NEW Y, NEW d, X \subseteq Drainers, Y \subseteq Drainers, X \ {d} = Y \ {d}
  PROVE  /\ Cardinality(X) \in Nat /\ Cardinality(Y) \in Nat
         /\ Cardinality(X) <= Cardinality(Y) + 1
         /\ (d \in X => d \in Y) => Cardinality(X) <= Cardinality(Y)
         /\ d \in X /\ d \notin Y => Cardinality(X) = Cardinality(Y) + 1
<1>1. IsFiniteSet(X) /\ IsFiniteSet(Y) /\ IsFiniteSet(X \ {d})
  BY QueueAssumption, FS_Subset
<1>2. /\ Cardinality(X) \in Nat /\ Cardinality(Y) \in Nat /\ Cardinality(X \ {d}) \in Nat
  BY <1>1, FS_CardinalityType
<1>3. Cardinality(X) = IF d \in X THEN Cardinality(X \ {d}) + 1 ELSE Cardinality(X)
  <2>1. X = (X \ {d}) \cup {d} \/ d \notin X
    OBVIOUS
  <2> QED BY <1>1, <2>1, FS_AddElement
<1>4. Cardinality(Y) = IF d \in Y THEN Cardinality(X \ {d}) + 1 ELSE Cardinality(Y)
  <2>1. Y = (X \ {d}) \cup {d} \/ d \notin Y
    OBVIOUS
  <2> QED BY <1>1, <2>1, FS_AddElement
<1>5. (d \notin X => X = X \ {d}) /\ (d \notin Y => Y = X \ {d})
  OBVIOUS
<1>6. (d \notin X => Cardinality(X) = Cardinality(X \ {d})) /\ (d \notin Y => Cardinality(Y) = Cardinality(X \ {d}))
  BY <1>5
<1> QED BY <1>2, <1>3, <1>4, <1>6

LEMMA Disjoint ==
  ASSUME NEW X, NEW Y, X \subseteq Drainers, Y \subseteq Drainers, X \cap Y = {}
  PROVE  /\ Cardinality(X) \in Nat /\ Cardinality(Y) \in Nat /\ Cardinality(Drainers) \in Nat
         /\ Cardinality(X) + Cardinality(Y) <= Cardinality(Drainers)
<1>1. IsFiniteSet(X) /\ IsFiniteSet(Y) /\ IsFiniteSet(Drainers) /\ X \cup Y \subseteq Drainers
  BY QueueAssumption, FS_Subset
<1>2. Cardinality(X) \in Nat /\ Cardinality(Y) \in Nat /\ Cardinality(Drainers) \in Nat
  BY <1>1, FS_CardinalityType
<1>3. Cardinality(X \cup Y) <= Cardinality(Drainers)
  BY <1>1, FS_Subset
<1>4. Cardinality(X \cup Y) = Cardinality(X) + Cardinality(Y) - Cardinality(X \cap Y)
  BY <1>1, FS_Union
<1>5. Cardinality(X \cap Y) = 0
  BY FS_EmptySet
<1> QED BY <1>2, <1>3, <1>4, <1>5

LEMMA SentFacts ==
  ASSUME QueueShape, NEW m \in Mails
  PROVE  /\ Sending(m) \subseteq Drainers /\ Unlinking(m) \subseteq Drainers
         /\ Cardinality(Sending(m)) \in Nat /\ Cardinality(Unlinking(m)) \in Nat /\ Cardinality(Drainers) \in Nat
         /\ Cardinality(Sending(m)) + Cardinality(Unlinking(m)) <= Cardinality(Drainers)
         /\ sends[m] \in Nat /\ died \in Nat
<1>1. Sending(m) \subseteq Drainers /\ Unlinking(m) \subseteq Drainers /\ Sending(m) \cap Unlinking(m) = {}
  BY DEF Sending, Unlinking, Has
<1>2. sends[m] \in Nat /\ died \in Nat
  BY QueueAssumption DEF QueueShape
<1> QED BY <1>1, <1>2, Disjoint

LEMMA SentStays ==
  ASSUME QueueShape, QueueShape', NEW m \in Mails, SentInv(m), home' = home, sends'[m] = sends[m],
         died' >= died, m \in stored => m \in stored', \A p \in Places : m \in env'[p] => m \in env[p],
         \A e \in Drainers : Has(e, {"send"}, m)' => Has(e, {"send"}, m) /\ job'[e].aim = job[e].aim,
         \A e \in Drainers : e \in Unlinking(m)' => e \in Unlinking(m),
         (\E p \in Places : m \in env'[p]) => Cardinality(Unlinking(m)) + died <= Cardinality(Unlinking(m)') + died'
  PROVE  SentInv(m)'
<1>1. Sending(m)' \subseteq Sending(m) /\ Unlinking(m)' \subseteq Unlinking(m)
  BY DEF Sending, Unlinking
<1>2. InOnePlace(m)'
  BY DEF SentInv, InOnePlace
<1>3. WhereRead(m)'
  BY <1>1 DEF SentInv, WhereRead, Home, Sending
<1>4. /\ Cardinality(Sending(m)') \in Nat /\ Cardinality(Sending(m)) \in Nat
      /\ Cardinality(Sending(m)') <= Cardinality(Sending(m))
  <2>1. IsFiniteSet(Sending(m))
    BY QueueAssumption, FS_Subset DEF Sending
  <2> QED BY <1>1, <2>1, FS_Subset, FS_CardinalityType
<1>5. /\ Cardinality(Unlinking(m)) \in Nat /\ Cardinality(Unlinking(m)') \in Nat /\ Cardinality(Drainers) \in Nat
      /\ sends[m] \in Nat /\ died \in Nat /\ died' \in Nat
  <2>1. Unlinking(m) \subseteq Drainers /\ Unlinking(m)' \subseteq Drainers
    BY DEF Unlinking
  <2> QED BY <2>1, QueueAssumption, FS_Subset, FS_CardinalityType DEF QueueShape
<1>6. (\E p \in Places : m \in env'[p]) => sends'[m] <= died' + Cardinality(Unlinking(m)')
  BY <1>5 DEF SentInv, SendsCounted
<1>7. sends'[m] + Cardinality(Sending(m)') <= died' + Cardinality(Drainers)
  BY <1>4, <1>5 DEF SentInv, SendsCounted
<1> QED BY <1>2, <1>3, <1>6, <1>7 DEF SentInv, SendsCounted

\* The drainer of the step leaves the mail, or works on it without sending or unlinking it.
LEMMA SentPast ==
  ASSUME QueueShape, QueueShape', NEW m \in Mails, SentInv(m), home' = home, sends'[m] = sends[m],
         died' = died, m \in stored => m \in stored', \A p \in Places : m \in env'[p] => m \in env[p],
         NEW d \in Drainers, \A e \in Drainers \ {d} : job'[e] = job[e],
         ~Has(d, {"send"}, m)', ~Has(d, {"unlinkEnv"}, m)' \/ job'[d].aim # "drain",
         d \in Unlinking(m) => \A p \in Places : m \notin env'[p]
  PROVE  SentInv(m)'
<1>1. \A e \in Drainers : Has(e, {"send"}, m)' => Has(e, {"send"}, m) /\ job'[e].aim = job[e].aim
  BY DEF Has
<1>2. \A e \in Drainers : e \in Unlinking(m)' => e \in Unlinking(m)
  BY DEF Has, Unlinking
<1>3. ASSUME d \notin Unlinking(m) PROVE Unlinking(m)' = Unlinking(m)
  BY <1>3, <1>2 DEF Has, Unlinking
<1>4. (\E p \in Places : m \in env'[p]) => Unlinking(m)' = Unlinking(m)
  BY <1>3
<1>5. Cardinality(Unlinking(m)) \in Nat /\ died \in Nat
  BY SentFacts
<1>6. (\E p \in Places : m \in env'[p]) => Cardinality(Unlinking(m)) + died <= Cardinality(Unlinking(m)') + died'
  BY <1>4, <1>5
<1> QED BY <1>1, <1>2, <1>5, <1>6, SentStays

LEMMA SentIdle ==
  ASSUME QueueShape, QueueShape', NEW m \in Mails, SentInv(m), NEW d \in Drainers, Idles(d)
  PROVE  SentInv(m)'
<1>1. Unlinking(m)' \subseteq Drainers /\ Unlinking(m) \subseteq Drainers /\ died \in Nat
  BY SentFacts DEF Unlinking
<1>2. /\ Unlinking(m) \ {d} = Unlinking(m)' \ {d} /\ ~Has(d, {"send"}, m)' /\ ~Has(d, {"unlinkEnv"}, m)'
      /\ d \notin Unlinking(m)'
  BY DEF Idles, Unlinking, Has
<1>3. CASE died' = died + 1
  <2>1. /\ Cardinality(Unlinking(m)) <= Cardinality(Unlinking(m)') + 1
        /\ Cardinality(Unlinking(m)) \in Nat /\ Cardinality(Unlinking(m)') \in Nat
    BY <1>1, <1>2, OneMore
  <2>2. Cardinality(Unlinking(m)) + died <= Cardinality(Unlinking(m)') + died'
    BY <1>1, <1>3, <2>1
  <2>3. \A e \in Drainers : Has(e, {"send"}, m)' => Has(e, {"send"}, m) /\ job'[e].aim = job[e].aim
    BY <1>2 DEF Idles, Has
  <2>4. \A e \in Drainers : e \in Unlinking(m)' => e \in Unlinking(m)
    BY <1>2
  <2> QED BY <1>1, <1>3, <2>2, <2>3, <2>4, SentStays DEF Idles
<1>4. CASE died' = died /\ job[d].step \notin (JobSteps \ {"replace"}) \cup Putting
  <2>1. d \notin Unlinking(m)
    BY <1>4 DEF Unlinking, Has, JobSteps
  <2> QED BY <1>2, <1>4, <2>1, SentPast DEF Idles
<1> QED BY <1>3, <1>4 DEF Idles

LEMMA SentAbout ==
  ASSUME QueueShape, QueueShape', NEW m \in Mails, Tidy(m), SentInv(m), NEW d \in Drainers, About(d, m)
  PROVE  SentInv(m)'
<1>0. /\ Home(d) \in Places /\ Home(d) \in Agents /\ Home(d) # Shared /\ Shared \in Places /\ Agents \subseteq Places
      /\ home' = home /\ died' = died /\ (\A e \in Drainers \ {d} : job'[e] = job[e]) /\ Shared \notin Agents
      /\ \A e \in Drainers : Home(e) \in Agents
  BY QueueAssumption, OneTouched DEF QueueShape, Home, Places
<1>1. ASSUME sends' = sends, m \in stored => m \in stored', \A p \in Places : m \in env'[p] => m \in env[p],
             job'[d].step \notin {"send", "unlinkEnv"}, ~Doing(d, "unlinkEnv") PROVE SentInv(m)'
  BY <1>0, <1>1, SentPast DEF Has, Doing, Unlinking
<1>2. CASE Queue(d, m)
  <2> DEFINE j == [step |-> "putEnv", mail |-> m]
  <2>1. j \in Puts /\ j.step = "putEnv"
    BY DEF Puts, Putting
  <2>2. Do(d, j) /\ j \in Jobs
    BY <1>2, <2>1, JobFacts DEF Queue
  <2> HIDE DEF j
  <2>3. job'[d].step = "putEnv"
    BY <2>1, <2>2, DoJob DEF Next1
  <2>4. ~Doing(d, "unlinkEnv")
    BY <1>2, JobFacts DEF Queue, Doing
  <2> QED BY <1>1, <1>2, <2>3, <2>4 DEF Queue, Files, Histories
<1>3. CASE m = job[d].mail /\ PutEnv(d)
  <2>1. Has(d, Putting, m) /\ job'[d].step \in {"none", "putMeta"} /\ sends' = sends /\ stored' = stored
    BY <1>3, TidyPut DEF PutEnv, Doing, Has, Putting, Histories
  <2>2. m \notin stored
    BY <2>1 DEF Tidy, NewOnes
  <2>3. (\A e \in Drainers : ~Has(e, JobSteps, m)) /\ m \notin env[Shared]
    BY <2>2 DEF Tidy, OldOnes
  <2>4. Trace(Home(d), m)
    BY <2>1 DEF Trace, Has, Every
  <2>5. \A p \in Agents : m \in env[p] => p = Home(d)
    BY <1>0, <2>4 DEF Tidy, OneAgent, Trace
  <2>6. \A p \in Places : m \in env'[p] => p = Home(d)
    <3>1. \A p \in Places \ {Home(d)} : env'[p] = env[p]
      BY <1>0, <1>3 DEF PutEnv, QueueShape
    <3> QED BY <2>3, <2>5, <3>1 DEF Places
  <2>7. Sending(m)' = {} /\ Unlinking(m)' = {}
    BY <1>0, <2>1, <2>3 DEF Sending, Unlinking, Has, JobSteps
  <2>8. sends'[m] = 0 /\ died \in Nat /\ Cardinality(Drainers) \in Nat
    BY <2>1, <2>2, SentFacts DEF SentInv, SendsCounted
  <2>9. Cardinality(Unlinking(m)') = 0 /\ Cardinality(Sending(m)') = 0
    BY <2>7, FS_EmptySet
  <2>10. SendsCounted(m)'
    BY <1>0, <2>8, <2>9 DEF SendsCounted
  <2> QED BY <2>6, <2>7, <2>10 DEF SentInv, InOnePlace, WhereRead
<1>4. CASE m = job[d].mail /\ PutMeta(d)
  <2>1. job'[d].step = "none" \/ job'[d].step = "putMeta"
    BY <1>4, TidyPut
  <2> QED BY <1>1, <1>4, <2>1 DEF PutMeta, Doing
<1>5. CASE m = job[d].mail /\ job[d].step \in JobSteps /\ (ReplaceMeta(d) \/ UnlinkMeta(d))
  <2>1. job'[d].step \notin {"send", "unlinkEnv"}
    BY <1>5, GoOnJob, UnlinkJob DEF ReplaceMeta
  <2> QED BY <1>1, <1>5, <2>1 DEF ReplaceMeta, UnlinkMeta, Doing, Histories
<1>6. CASE m = job[d].mail /\ job[d].step \in JobSteps /\ (NotSent(d) \/ UpdateMeta(d))
  <2>1. job'[d].step \in {"update", "replace"}
    BY <1>6, StepJob DEF NotSent, UpdateMeta, JobSteps
  <2> QED BY <1>1, <1>6, <2>1 DEF NotSent, UpdateMeta, Doing, Histories, Files
<1>7. CASE m = job[d].mail /\ job[d].step \in JobSteps /\ UnlinkEnv(d)
  <2>1. job'[d].step \in {"unlinkMeta", "visit", "none"} /\ sends' = sends /\ stored' = stored
    BY <1>7, UnlinkJob DEF UnlinkEnv, Histories
  <2>2. m \notin env'[Home(d)] /\ \A p \in Places \ {Home(d)} : env'[p] = env[p]
    BY <1>0, <1>7 DEF UnlinkEnv, QueueShape
  <2>3. d \in Unlinking(m) => \A p \in Places : m \notin env'[p]
    BY <2>2 DEF SentInv, WhereRead
  <2> QED BY <1>0, <2>1, <2>2, <2>3, SentPast DEF Has
<1>8. CASE m = job[d].mail /\ job[d].step \in JobSteps /\ MoveEnv(d)
  <2>1. job'[d].step = "visit" /\ sends' = sends /\ stored' = stored /\ ~Doing(d, "unlinkEnv")
    BY <1>8, GoOnJob DEF MoveEnv, Histories, Doing
  <2>2. CASE env' = env
    BY <1>1, <2>1, <2>2
  <2>3. CASE env' # env
    <3>1. /\ m \in env[Shared] /\ m \notin env'[Shared] /\ m \in env'[Home(d)]
          /\ \A p \in Places \ {Shared, Home(d)} : env'[p] = env[p]
      BY <1>0, <1>8, <2>3 DEF MoveEnv, QueueShape
    <3>2. \A p \in Places : m \in env'[p] => p = Home(d)
      BY <1>0, <3>1 DEF SentInv, InOnePlace
    <3>3. Sending(m) = {} /\ Unlinking(m) = {}
      BY <1>0, <3>1 DEF SentInv, WhereRead, Sending, Unlinking
    <3>4. Sending(m)' = {} /\ Unlinking(m)' = {}
      <4>1. \A e \in Drainers : e \in Sending(m)' \cup Unlinking(m)' => e \in Sending(m) \cup Unlinking(m)
        BY <1>0, <2>1 DEF Sending, Unlinking, Has
      <4> QED BY <3>3, <4>1 DEF Sending, Unlinking
    <3>5. SendsCounted(m)'
      <4>1. sends[m] <= died + Cardinality(Unlinking(m)) /\ sends[m] + Cardinality(Sending(m)) <= died + Cardinality(Drainers)
        BY <1>0, <3>1 DEF SentInv, SendsCounted
      <4>2. m \notin stored' => sends'[m] = 0
        BY <2>1 DEF SentInv, SendsCounted
      <4> QED BY <1>0, <2>1, <3>3, <3>4, <4>1, <4>2 DEF SendsCounted
    <3> QED BY <3>2, <3>4, <3>5 DEF SentInv, InOnePlace, WhereRead
  <2> QED BY <2>2, <2>3
<1>9. CASE m = job[d].mail /\ job[d].step \in JobSteps /\ Sent(d)
  <2>1. /\ job'[d].step = "unlinkEnv" /\ job'[d].aim = job[d].aim /\ job'[d].mail = m
        /\ env' = env /\ stored' = stored /\ d \in Sending(m)
    BY <1>9, StepJob DEF Sent, JobSteps, Files, Sending, Doing, Has
  <2>2. job[d].aim = "drain"
    BY <2>1 DEF SentInv, WhereRead
  <2>3. /\ d \notin Sending(m)' /\ d \in Unlinking(m)' /\ d \notin Unlinking(m)
        /\ Sending(m) \ {d} = Sending(m)' \ {d} /\ Unlinking(m) \ {d} = Unlinking(m)' \ {d}
    BY <1>0, <2>1, <2>2 DEF Sending, Unlinking, Has
  <2>4. /\ Cardinality(Sending(m)) = Cardinality(Sending(m)') + 1
        /\ Cardinality(Unlinking(m)') = Cardinality(Unlinking(m)) + 1
        /\ Cardinality(Sending(m)') \in Nat /\ Cardinality(Unlinking(m)') \in Nat
        /\ Cardinality(Sending(m)) \in Nat /\ Cardinality(Unlinking(m)) \in Nat
    <3>1. Sending(m) \subseteq Drainers /\ Sending(m)' \subseteq Drainers /\ Unlinking(m) \subseteq Drainers
          /\ Unlinking(m)' \subseteq Drainers
      BY DEF Sending, Unlinking
    <3> QED BY <2>1, <2>3, <3>1, OneMore
  <2>5. (sends'[m] = sends[m] \/ sends'[m] = sends[m] + 1) /\ m \in stored
    BY <1>9, <2>1 DEF Sent, QueueShape, Tidy, OldOnes, Has
  <2>6. sends[m] \in Nat /\ died \in Nat /\ Cardinality(Drainers) \in Nat
    BY SentFacts
  <2>7. SendsCounted(m)'
    BY <1>0, <2>1, <2>4, <2>5, <2>6 DEF SentInv, SendsCounted
  <2>8. InOnePlace(m)'
    BY <2>1 DEF SentInv, InOnePlace
  <2>9. WhereRead(m)'
    <3>1. \A e \in Drainers : e \in Sending(m)' => e \in Sending(m) /\ job'[e] = job[e]
      BY <1>0, <2>3 DEF Sending
    <3>2. \A e \in Drainers : e \in Unlinking(m)' => e \in Unlinking(m) \cup Sending(m)
      BY <2>1, <2>3
    <3>3. Sending(m)' \subseteq Drainers /\ Unlinking(m)' \subseteq Drainers
      BY DEF Sending, Unlinking
    <3>4. \A e \in Sending(m)' \cup Unlinking(m)' : e \in Sending(m) \cup Unlinking(m) /\ Home(e)' = Home(e)
      BY <1>0, <3>1, <3>2, <3>3 DEF Home
    <3> QED BY <2>1, <3>1, <3>3, <3>4 DEF SentInv, WhereRead
  <2> QED BY <2>7, <2>8, <2>9 DEF SentInv
<1>10. CASE ClaimMeta(d, m) /\ m \in Listed(Shared) /\ m \notin Listed(Home(d))
  <2>1. job[d].step = "visit" /\ OnTo(d, "move", m) /\ "move" \in JobSteps
    BY <1>10 DEF ClaimMeta, Doing, JobSteps
  <2>2. job'[d].step = "move"
    BY <2>1, OnToJob
  <2> QED BY <1>1, <1>10, <2>1, <2>2 DEF ClaimMeta, Doing, Histories
<1>11. CASE VisitPurge(d, m) /\ OnTo(d, "unlinkEnv", m)
  <2>1. job[d].step = "visit" /\ "unlinkEnv" \in JobSteps /\ job[d].aim # "drain"
    BY <1>11 DEF VisitPurge, Doing, JobSteps
  <2>2. job'[d].step = "unlinkEnv" /\ job'[d].aim # "drain"
    BY <1>11, <2>1, OnToJob
  <2> QED BY <1>0, <1>11, <2>1, <2>2, SentPast DEF VisitPurge, Files, Has, Unlinking
<1>12. CASE VisitDrain(d, m) /\ Readable(Home(d), m)
  <2>1. /\ job[d].step = "visit" /\ job[d].aim = "drain" /\ OnTo(d, "send", m) /\ "send" \in JobSteps
        /\ env' = env /\ stored' = stored /\ sends' = sends
    BY <1>12 DEF VisitDrain, Doing, JobSteps, Files, Histories
  <2>2. job'[d].step = "send" /\ job'[d].aim = "drain" /\ job'[d].mail = m
    BY <2>1, OnToJob
  <2>3. \A q \in Places \ {Home(d)} : m \notin env[q]
    BY <1>0, <1>12 DEF Readable, Pair, SentInv, InOnePlace
  <2>4. /\ Unlinking(m)' = Unlinking(m) /\ Sending(m)' = Sending(m) \cup {d}
    BY <1>0, <2>1, <2>2 DEF Sending, Unlinking, Has
  <2>5. sends[m] <= died + Cardinality(Unlinking(m))
    BY <1>0, <1>12 DEF Readable, Pair, SentInv, SendsCounted
  <2>6. /\ Cardinality(Sending(m)') \in Nat /\ Cardinality(Unlinking(m)) \in Nat /\ Cardinality(Drainers) \in Nat
        /\ Cardinality(Sending(m)') + Cardinality(Unlinking(m)) <= Cardinality(Drainers)
        /\ sends[m] \in Nat /\ died \in Nat
    <3>1. Cardinality(Sending(m)') + Cardinality(Unlinking(m)') <= Cardinality(Drainers) /\ Cardinality(Sending(m)') \in Nat
      <4>1. Sending(m)' \cap Unlinking(m)' = {} /\ Sending(m)' \subseteq Drainers /\ Unlinking(m)' \subseteq Drainers
        BY DEF Sending, Unlinking, Has
      <4> QED BY <4>1, Disjoint
    <3> QED BY <2>4, <3>1, SentFacts
  <2>7. SendsCounted(m)'
    BY <1>0, <2>1, <2>4, <2>5, <2>6 DEF SentInv, SendsCounted
  <2>8. InOnePlace(m)'
    BY <2>1 DEF SentInv, InOnePlace
  <2>9. WhereRead(m)'
    <3>1. \A e \in Drainers : Home(e)' = Home(e) /\ (e # d => job'[e] = job[e])
      BY <1>0 DEF Home
    <3>2. d \in Drainers /\ Sending(m) \subseteq Drainers /\ Unlinking(m) \subseteq Drainers
      BY SentFacts
    <3> QED BY <2>1, <2>2, <2>3, <2>4, <3>1, <3>2 DEF SentInv, WhereRead
  <2> QED BY <2>7, <2>8, <2>9 DEF SentInv
<1> QED BY <1>2, <1>3, <1>4, <1>5, <1>6, <1>7, <1>8, <1>9, <1>10, <1>11, <1>12 DEF About, Works, Takes

LEMMA SentStep ==
  ASSUME QueueShape, \A n \in Mails : Tidy(n), [QueueNext]_queueVars, NEW m \in Mails, SentInv(m)
  PROVE  SentInv(m)'
<1>0. QueueShape'
  BY ShapeStep
<1>1. CASE Still
  <2>1. Sending(m)' = Sending(m) /\ Unlinking(m)' = Unlinking(m) /\ \A d \in Drainers : Home(d)' = Home(d)
    BY <1>1 DEF Still, Sending, Unlinking, Has, Home
  <2>2. InOnePlace(m)' /\ SendsCounted(m)'
    BY <1>1, <2>1 DEF Still, SentInv, InOnePlace, SendsCounted
  <2>3. WhereRead(m)'
    <3>1. Sending(m) \subseteq Drainers /\ Unlinking(m) \subseteq Drainers
      BY SentFacts
    <3> QED BY <1>1, <2>1, <3>1 DEF Still, SentInv, WhereRead
  <2> QED BY <2>2, <2>3 DEF SentInv
<1>2. CASE \E d \in Drainers : Idles(d)
  BY <1>0, <1>2, SentIdle
<1>3. ASSUME NEW d \in Drainers, NEW n \in Mails, n # m, About(d, n) PROVE SentInv(m)'
  <2>1. /\ SameOf(m) /\ home' = home /\ died' = died /\ (\A e \in Drainers \ {d} : job'[e] = job[e])
        /\ (job'[d].step \in Every => job'[d].mail = n)
    BY <1>3, OneTouched
  <2>2. ~Has(d, {"send"}, m)' /\ ~Has(d, {"unlinkEnv"}, m)'
    BY <1>3, <2>1 DEF Has, Every, JobSteps
  <2>3. d \notin Unlinking(m)
    BY <1>3, JobFacts DEF About, Queue, Takes, ClaimMeta, VisitPurge, VisitDrain, Doing, Unlinking, Has
  <2> QED BY <1>0, <2>1, <2>2, <2>3, SentPast DEF SameOf
<1>4. CASE \E d \in Drainers : About(d, m)
  BY <1>0, <1>4, SentAbout
<1> QED BY <1>1, <1>2, <1>3, <1>4, KindsOfStep

-------------------------------------------------------------------------------
(* Only the retry state of a mail that two drainers wrote is garbled.      *)

GarbledByTwo == \A p \in Places : \A m \in Listed(p) : meta[p][m] = "garbled" => m \in clashed

LEMMA GarbledStep ==
  ASSUME QueueShape, GarbledByTwo, [QueueNext]_queueVars
  PROVE  GarbledByTwo'
<1>0. /\ \A d \in Drainers : Home(d) \in Places /\ Home(d) \in Agents /\ Home(d) # Shared
      /\ Shared \in Places /\ Agents \subseteq Places
  BY QueueAssumption DEF QueueShape, Home, Places
<1>1. ASSUME meta' = meta, clashed \subseteq clashed' PROVE GarbledByTwo'
  BY <1>1 DEF GarbledByTwo, Listed
<1>2. ASSUME NEW q \in Places, NEW g, meta' = [meta EXCEPT ![q] = g], clashed' = clashed,
             \A m \in DOMAIN g : g[m] = "garbled" => m \in clashed
      PROVE  GarbledByTwo'
  <2> SUFFICES ASSUME NEW p \in Places, NEW m \in Listed(p)', meta'[p][m] = "garbled" PROVE m \in clashed
    BY <1>2 DEF GarbledByTwo
  <2>1. CASE p = q
    <3>1. meta'[p] = g
      BY <1>2, <2>1 DEF QueueShape
    <3> QED BY <1>2, <3>1 DEF Listed
  <2>2. CASE p # q
    <3>1. meta'[p] = meta[p]
      BY <1>2, <2>2 DEF QueueShape
    <3> QED BY <3>1 DEF Listed, GarbledByTwo
  <2> QED BY <2>1, <2>2
<1>3. ASSUME NEW q \in Places, NEW n, NEW v, meta' = [meta EXCEPT ![q] = With(meta[q], n, v)], clashed' = clashed,
             v = "garbled" => n \in clashed
      PROVE  GarbledByTwo'
  <2> DEFINE g == With(meta[q], n, v)
  <2>1. \A m \in DOMAIN g : g[m] = "garbled" => m \in clashed
    BY <1>3 DEF With, GarbledByTwo, Listed
  <2> HIDE DEF g
  <2>2. meta' = [meta EXCEPT ![q] = g]
    BY <1>3 DEF g
  <2> QED BY <1>2, <1>3, <2>1, <2>2
<1>4. ASSUME NEW d \in Drainers, PutMeta(d) PROVE GarbledByTwo'
  <2>0. PICK q \in Places : q = Home(d)
    BY <1>0
  <2> DEFINE g == With(meta[q], job[d].mail, "ready")
  <2>1. meta' = [meta EXCEPT ![q] = g] /\ clashed' = clashed
    BY <1>4, <2>0 DEF PutMeta, Histories
  <2>2. \A m \in DOMAIN g : g[m] = "garbled" => m \in clashed
    BY <1>0 DEF With, GarbledByTwo, Listed
  <2> HIDE DEF g
  <2> QED BY <1>2, <2>1, <2>2
<1>5. ASSUME NEW d \in Drainers, ReplaceMeta(d) PROVE GarbledByTwo'
  <2>1. PICK v \in Written(job[d].mail) : meta' = [meta EXCEPT ![Home(d)] = With(meta[Home(d)], job[d].mail, v)]
    BY <1>5 DEF ReplaceMeta
  <2>2. v = "garbled" => job[d].mail \in clashed
    BY DEF Written
  <2>3. clashed' = clashed
    BY <1>5 DEF ReplaceMeta, Histories
  <2> QED BY <1>0, <1>3, <2>1, <2>2, <2>3
<1>6. ASSUME NEW d \in Drainers, ReplaceRaises(d) PROVE GarbledByTwo'
  <2>1. clashed' = clashed
    BY <1>6 DEF ReplaceRaises, Histories
  <2>2. CASE meta' = meta
    BY <1>1, <2>1, <2>2
  <2>3. ASSUME NEW v \in Written(job[d].mail), meta' = [meta EXCEPT ![Home(d)][job[d].mail] = v] PROVE GarbledByTwo'
    <3> DEFINE g == [meta[Home(d)] EXCEPT ![job[d].mail] = v]
    <3>1. meta' = [meta EXCEPT ![Home(d)] = g]
      BY <2>3
    <3>2. v = "garbled" => job[d].mail \in clashed
      BY DEF Written
    <3>3. \A m \in DOMAIN g : g[m] = "garbled" => m \in clashed
      BY <1>0, <3>2 DEF GarbledByTwo, Listed
    <3> HIDE DEF g
    <3> QED BY <1>0, <1>2, <2>1, <3>1, <3>3
  <2> QED BY <1>6, <2>2, <2>3 DEF ReplaceRaises
<1>7. ASSUME NEW d \in Drainers, UnlinkMeta(d) PROVE GarbledByTwo'
  <2> DEFINE g == Less(meta[Home(d)], job[d].mail)
  <2>1. meta' = [meta EXCEPT ![Home(d)] = g] /\ clashed' = clashed
    BY <1>7 DEF UnlinkMeta, Histories
  <2>2. \A m \in DOMAIN g : g[m] = "garbled" => m \in clashed
    BY <1>0 DEF Less, GarbledByTwo, Listed
  <2> HIDE DEF g
  <2> QED BY <1>0, <1>2, <2>1, <2>2
<1>8. ASSUME NEW m \in Mails, NEW p \in Agents, BackoffOver(p, m) PROVE GarbledByTwo'
  <2> DEFINE g == [meta[p] EXCEPT ![m] = "ready"]
  <2>1. meta' = [meta EXCEPT ![p] = g] /\ clashed' = clashed
    BY <1>8 DEF BackoffOver, Histories
  <2>2. \A n \in DOMAIN g : g[n] = "garbled" => n \in clashed
    BY <1>0 DEF GarbledByTwo, Listed
  <2> HIDE DEF g
  <2> QED BY <1>0, <1>2, <2>1, <2>2
<1>9. ASSUME NEW d \in Drainers, NEW n \in Mails, ClaimMeta(d, n) PROVE GarbledByTwo'
  <2>1. clashed' = clashed
    BY <1>9 DEF ClaimMeta, Histories
  <2>2. CASE meta' = meta
    BY <1>1, <2>1, <2>2
  <2>3. CASE meta' # meta
    <3>1. /\ n \in Listed(Shared)
          /\ meta' = [p \in Places |-> IF p = Home(d) THEN With(meta[Home(d)], n, meta[Shared][n])
                                       ELSE IF p = Shared THEN Less(meta[Shared], n) ELSE meta[p]]
      BY <1>0, <1>9, <2>3 DEF ClaimMeta, QueueShape
    <3>2. meta[Shared][n] = "garbled" => n \in clashed
      BY <1>0, <3>1 DEF GarbledByTwo
    <3> SUFFICES ASSUME NEW p \in Places, NEW m \in Listed(p)', meta'[p][m] = "garbled" PROVE m \in clashed
      BY <2>1 DEF GarbledByTwo
    <3>3. CASE p = Home(d)
      <4>1. meta'[p] = With(meta[p], n, meta[Shared][n])
        BY <3>1, <3>3
      <4> QED BY <3>2, <4>1 DEF With, Listed, GarbledByTwo
    <3>4. CASE p = Shared
      <4>1. meta'[p] = Less(meta[p], n)
        BY <1>0, <3>1, <3>4
      <4> QED BY <4>1 DEF Less, Listed, GarbledByTwo
    <3>5. CASE p \notin {Home(d), Shared}
      <4>1. meta'[p] = meta[p]
        BY <3>1, <3>5
      <4> QED BY <4>1 DEF Listed, GarbledByTwo
    <3> QED BY <3>3, <3>4, <3>5
  <2> QED BY <2>2, <2>3
<1>10. ASSUME NEW d \in Drainers,
              PutEnv(d) \/ OpenQueue(d) \/ Finished(d) \/ MoveEnv(d) \/ Sent(d) \/ NotSent(d) \/ UpdateMeta(d)
                \/ UnlinkEnv(d) \/ Die(d)
       PROVE  meta' = meta /\ clashed \subseteq clashed'
  <2>1. CASE UpdateMeta(d)
    BY <2>1 DEF UpdateMeta
  <2>2. CASE PutEnv(d) \/ MoveEnv(d) \/ Sent(d) \/ NotSent(d) \/ UnlinkEnv(d)
    BY <2>2 DEF PutEnv, MoveEnv, Sent, NotSent, UnlinkEnv, Files, Histories
  <2>3. CASE OpenQueue(d) \/ Finished(d) \/ Die(d)
    BY <2>3 DEF OpenQueue, Finished, Die, Files, Histories
  <2> QED BY <1>10, <2>1, <2>2, <2>3
<1>11. ASSUME NEW d \in Drainers, NEW m \in Mails, Queue(d, m) \/ VisitPurge(d, m) \/ VisitDrain(d, m)
       PROVE  meta' = meta /\ clashed \subseteq clashed'
  BY <1>11 DEF Queue, VisitPurge, VisitDrain, Files, Histories
<1>12. ASSUME NEW m \in Mails, Outlive(m) \/ UNCHANGED queueVars PROVE meta' = meta /\ clashed \subseteq clashed'
  BY <1>12 DEF Outlive, Files, Histories, queueVars
<1>13. CASE UNCHANGED queueVars
  BY <1>1, <1>13 DEF queueVars
<1>14. CASE QueueNext
  BY <1>14, <1>1, <1>4, <1>5, <1>6, <1>7, <1>8, <1>9, <1>10, <1>11, <1>12 DEF QueueNext
<1> QED BY <1>13, <1>14

QueueInv == QueueShape /\ FewGone /\ GarbledByTwo /\ \A m \in Mails : Tidy(m) /\ SentInv(m)

LEMMA QueueBegins == QueueInit => QueueInv
<1> SUFFICES ASSUME QueueInit PROVE QueueInv
  OBVIOUS
<1>1. QueueShape /\ \A m \in Mails : Tidy(m)
  BY QueueStart
<1>2. /\ \A p \in Places : Listed(p) = env[p] /\ env[p] = IF p = Shared THEN stored ELSE {}
      /\ Shared \in Places /\ stored \subseteq Mails /\ died = 0 /\ \A m \in Mails : sends[m] = 0
  BY DEF QueueInit, Listed, Places
<1>3. FewGone
  <2>1. {m \in Mails : Forsaken(m)} = {}
    BY <1>2 DEF Forsaken, Pair
  <2>2. Cardinality({m \in Mails : Forsaken(m)}) = 0
    BY <2>1, FS_EmptySet
  <2> QED BY <1>2, <2>2 DEF FewGone
<1>5. GarbledByTwo
  BY <1>2 DEF QueueInit, GarbledByTwo, Listed
<1>4. ASSUME NEW m \in Mails PROVE SentInv(m)
  <2>1. Sending(m) = {} /\ Unlinking(m) = {}
    BY JobFacts DEF QueueInit, Sending, Unlinking, Has
  <2>2. InOnePlace(m) /\ WhereRead(m)
    BY <1>2, <2>1 DEF InOnePlace, WhereRead
  <2>3. Cardinality(Sending(m)) = 0 /\ Cardinality(Unlinking(m)) = 0 /\ Cardinality(Drainers) \in Nat
    BY <2>1, QueueAssumption, FS_EmptySet, FS_CardinalityType
  <2>4. SendsCounted(m)
    BY <1>2, <2>3 DEF SendsCounted
  <2> QED BY <2>2, <2>4 DEF SentInv
<1> QED BY <1>1, <1>3, <1>4, <1>5 DEF QueueInv

LEMMA QueueStep == QueueInv /\ [QueueNext]_queueVars => QueueInv'
BY ShapeStep, TidyStep, LostStep, GarbledStep, SentStep DEF QueueInv

LEMMA QueueHolds == QueueInv => QueueKeeps
<1> SUFFICES ASSUME QueueInv PROVE QueueKeeps
  OBVIOUS
<1>1. PairsWhole
  BY OneAgentHolds DEF QueueInv
<1>2. \A m \in Mails : sends[m] <= Cardinality(Drainers) + died
  <2> SUFFICES ASSUME NEW m \in Mails PROVE sends[m] <= Cardinality(Drainers) + died
    OBVIOUS
  <2>1. /\ Cardinality(Sending(m)) \in Nat /\ Cardinality(Drainers) \in Nat /\ sends[m] \in Nat /\ died \in Nat
    BY SentFacts DEF QueueInv
  <2>2. sends[m] + Cardinality(Sending(m)) <= died + Cardinality(Drainers)
    BY DEF QueueInv, SentInv, SendsCounted
  <2> QED BY <2>1, <2>2
<1>3. StoredKept
  <2>1. \A p \in Places, m \in Mails \ clashed : Pair(p, m) => Readable(p, m)
    BY DEF QueueInv, GarbledByTwo, Readable, Legible, Pair
  <2>2. {m \in Mails \ clashed : Stranded(m)} \subseteq Lost
    BY <2>1 DEF Lost, Stranded, Forsaken
  <2>3. IsFiniteSet(Lost) /\ Cardinality(Lost) <= died /\ died \in Nat
    BY QueueAssumption, FS_Subset DEF Lost, QueueInv, FewGone, QueueShape
  <2>4. Cardinality({m \in Mails \ clashed : Stranded(m)}) <= Cardinality(Lost)
    BY <2>2, <2>3, FS_Subset
  <2>5. Cardinality(Lost) \in Nat /\ Cardinality({m \in Mails \ clashed : Stranded(m)}) \in Nat
    BY <2>2, <2>3, FS_Subset, FS_CardinalityType
  <2> QED BY <2>3, <2>4, <2>5 DEF StoredKept
<1> QED BY <1>1, <1>2, <1>3 DEF QueueInv, QueueKeeps, SendsBounded

-------------------------------------------------------------------------------
(* The upgrade.  As long as migrate_outbox runs alone, a letter the crash  *)
(* of a runner did not catch is Kept: once it is delivered, archived whole *)
(* or in an entry (Settled), it stays so, and the JSONL file goes only when  *)
(* every letter in it is (DrainedIsSettled).                                 *)

Settled(l) == l \in gone \/ Whole(l) \/ archived[l] = "whole" \/ Held(l)
DrainedIsSettled(l) == \A r \in Runners :
  task[r].step # "free" /\ task[r].loop = "drain" /\ l \in lines /\ l \notin task[r].todo => Settled(l)
TornIsHeld(l)  == pendingFile[l] = "torn" => \E r \in Runners : task[r].step = "flush" /\ task[r].letter = l
FlushedIsGone(l) == \A r \in Runners :
  task[r].step = "flush" /\ task[r].letter = l /\ pendingFile[l] = "none" => l \in gone
RemovedIsSettled(l) == \A r \in Runners : task[r].step = "unlink" /\ task[r].letter = l =>
  l \in gone \/ (Migrates(r) /\ archived[l] = "whole")
CopiedIsWhole(l) == \A r \in Runners : task[r].step = "copy" /\ task[r].letter = l => Whole(l)

Kept(l) == /\ Settled(l) \/ l \in lines \cup shared \cup bare
           /\ DrainedIsSettled(l) /\ TornIsHeld(l) /\ FlushedIsGone(l)
           /\ RemovedIsSettled(l) /\ CopiedIsWhole(l)

Alone == \A q \in Runners : Migrates(q) => \A p \in Runners \ {q} : task[p] = Unoccupied
MigrateCopies == \A r \in Runners : task[r].step = "copy" => task[r].loop = "migrate"
Unkept == {l \in Letters \ overlaid : ~Kept(l)}
MigrationInv == /\ MigrationTypeOK /\ MigrateCopies
                /\ overlap \/ (Alone /\ Cardinality(Unkept) <= halts)

Errands == [step : {"send", "write", "flush", "copy", "unlink"}, loop : Loops,
            todo : SUBSET Letters, letter : Letters, held : Formats]
Rounds  == [step : {"next"}, loop : Loops, todo : SUBSET Letters]

\* What a chore is.
LEMMA ChoreFacts ==
  /\ Unoccupied.step = "free"
  /\ \A c \in Chores : c.step = "free" <=> c = Unoccupied
  /\ \A c \in Chores : c.step = "next" => c \in Rounds
  /\ \A c \in Chores : c.step \notin {"free", "next"} => c \in Errands
  /\ Rounds \cup Errands \subseteq Chores
  /\ \A c \in Rounds : c.step = "next" /\ c.loop \in Loops /\ c.todo \subseteq Letters
  /\ \A c \in Errands : /\ c.step \in {"send", "write", "flush", "copy", "unlink"} /\ c.loop \in Loops
                        /\ c.todo \subseteq Letters /\ c.letter \in Letters /\ c.held \in Formats
BY DEF Chores, Unoccupied, Rounds, Errands

\* The next step of the same errand.
LEMMA SameErrand ==
  ASSUME NEW c \in Errands, NEW s \in {"send", "write", "flush", "copy", "unlink"}
  PROVE  LET e == [c EXCEPT !.step = s] IN
           /\ e \in Errands /\ e.step = s /\ e.loop = c.loop /\ e.todo = c.todo
           /\ e.letter = c.letter /\ e.held = c.held
BY DEF Errands

LEMMA FewerLeft ==
  ASSUME NEW c \in Rounds, NEW l
  PROVE  LET e == [c EXCEPT !.todo = @ \ {l}] IN
           e \in Rounds /\ e.step = "next" /\ e.loop = c.loop /\ e.todo = c.todo \ {l}
BY DEF Rounds

LEMMA MigrationTypeInit == MigrationInit => MigrationTypeOK
<1> SUFFICES ASSUME MigrationInit PROVE MigrationTypeOK
  OBVIOUS
<1>1. origin \in Upgrades /\ origin \in [Letters -> Origins]
  BY MigrationAssumption DEF MigrationInit
<1>2. pendingFile \in [Letters -> Formats \cup {"none", "torn"}]
  BY <1>1 DEF MigrationInit, Formats
<1>3. task \in [Runners -> Chores] /\ halts \in 0..RunnerCrashes
  BY ChoreFacts, MigrationAssumption DEF MigrationInit, Chores
<1> QED BY <1>1, <1>2, <1>3 DEF MigrationInit, MigrationTypeOK

\* What a step does to the chore of its runner, and to no other.
LEMMA SetTask ==
  ASSUME MigrationTypeOK, NEW r \in Runners, NEW c \in Chores, Set(r, c)
  PROVE  /\ task' \in [Runners -> Chores] /\ overlap' \in BOOLEAN
         /\ task'[r] = c /\ \A q \in Runners \ {r} : task'[q] = task[q]
BY DEF Set, MigrationTypeOK

LEMMA PutFile ==
  ASSUME MigrationTypeOK, NEW l \in Letters, NEW e \in Formats \cup {"none", "torn"}, Put(l, e)
  PROVE  /\ pendingFile' \in [Letters -> Formats \cup {"none", "torn"}]
         /\ pendingFile'[l] = e /\ \A k \in Letters \ {l} : pendingFile'[k] = pendingFile[k]
BY DEF Put, MigrationTypeOK

\* The chores the actions set are chores.
LEMMA StartsChore ==
  ASSUME MigrationTypeOK, NEW r \in Runners, NEW loop \in Loops, NEW T \in SUBSET Letters, Starts(r, loop, T)
  PROVE  /\ task' \in [Runners -> Chores] /\ overlap' \in BOOLEAN
         /\ task'[r] \in Rounds /\ task'[r].step = "next" /\ task'[r].loop = loop /\ task'[r].todo = T
         /\ \A q \in Runners \ {r} : task'[q] = task[q]
<1> DEFINE c == [step |-> "next", loop |-> loop, todo |-> T]
<1>1. c \in Rounds /\ c.step = "next" /\ c.loop = loop /\ c.todo = T
  BY DEF Rounds
<1>2. Set(r, c) /\ c \in Chores
  BY <1>1, ChoreFacts DEF Starts
<1> HIDE DEF c
<1> QED BY <1>1, <1>2, SetTask

LEMMA TakeChore ==
  ASSUME MigrationTypeOK, NEW r \in Runners, task[r].step = "next",
         NEW s \in {"send", "write", "flush", "copy", "unlink"}, NEW l \in Letters, NEW f \in Formats,
         Take(r, s, l, f)
  PROVE  /\ task' \in [Runners -> Chores] /\ overlap' \in BOOLEAN
         /\ task'[r] \in Errands /\ task'[r].step = s /\ task'[r].loop = task[r].loop
         /\ task'[r].todo = task[r].todo \ {l} /\ task'[r].letter = l /\ task'[r].held = f
         /\ \A q \in Runners \ {r} : task'[q] = task[q]
<1> DEFINE c == [step |-> s, loop |-> task[r].loop, todo |-> task[r].todo \ {l}, letter |-> l, held |-> f]
<1>0. task[r] \in Rounds
  BY ChoreFacts DEF MigrationTypeOK
<1>1. /\ c \in Errands /\ c.step = s /\ c.loop = task[r].loop /\ c.todo = task[r].todo \ {l}
      /\ c.letter = l /\ c.held = f
  BY <1>0, ChoreFacts DEF Errands
<1>2. Set(r, c) /\ c \in Chores
  BY <1>1, ChoreFacts DEF Take
<1> HIDE DEF c
<1> QED BY <1>1, <1>2, SetTask

LEMMA SkipChore ==
  ASSUME MigrationTypeOK, NEW r \in Runners, task[r].step = "next", NEW l \in Letters, Skip(r, l)
  PROVE  /\ task' \in [Runners -> Chores] /\ overlap' \in BOOLEAN
         /\ task'[r] \in Rounds /\ task'[r].step = "next" /\ task'[r].loop = task[r].loop
         /\ task'[r].todo = task[r].todo \ {l}
         /\ \A q \in Runners \ {r} : task'[q] = task[q]
<1> DEFINE c == [task[r] EXCEPT !.todo = @ \ {l}]
<1>0. task[r] \in Rounds
  BY ChoreFacts DEF MigrationTypeOK
<1>1. c \in Rounds /\ c.step = "next" /\ c.loop = task[r].loop /\ c.todo = task[r].todo \ {l}
  BY <1>0, FewerLeft
<1>2. Set(r, c) /\ c \in Chores
  BY <1>1, ChoreFacts DEF Skip
<1> HIDE DEF c
<1> QED BY <1>1, <1>2, SetTask

StepsTo(r, s) ==
  /\ task' \in [Runners -> Chores] /\ overlap' \in BOOLEAN
  /\ task'[r] \in Errands /\ task'[r].step = s /\ task'[r].loop = task[r].loop
  /\ task'[r].todo = task[r].todo /\ task'[r].letter = task[r].letter /\ task'[r].held = task[r].held
  /\ \A q \in Runners \ {r} : task'[q] = task[q]

LEMMA NextChore ==
  ASSUME MigrationTypeOK, NEW r \in Runners, task[r].step \notin {"free", "next"},
         NEW s \in {"send", "write", "flush", "copy", "unlink"}, Set(r, [task[r] EXCEPT !.step = s])
  PROVE  StepsTo(r, s)
<1> DEFINE c == [task[r] EXCEPT !.step = s]
<1>0. task[r] \in Errands
  BY ChoreFacts DEF MigrationTypeOK
<1>1. /\ c \in Errands /\ c.step = s /\ c.loop = task[r].loop /\ c.todo = task[r].todo
      /\ c.letter = task[r].letter /\ c.held = task[r].held
  BY <1>0, SameErrand
<1>2. Set(r, c) /\ c \in Chores
  BY <1>1, ChoreFacts
<1> HIDE DEF c
<1> QED BY <1>1, <1>2, SetTask DEF StepsTo

LEMMA FreeChore ==
  ASSUME MigrationTypeOK, NEW r \in Runners, Set(r, Unoccupied)
  PROVE  /\ task' \in [Runners -> Chores] /\ overlap' \in BOOLEAN
         /\ task'[r] = Unoccupied /\ task'[r].step = "free"
         /\ \A q \in Runners \ {r} : task'[q] = task[q]
BY SetTask, ChoreFacts DEF Chores

LEMMA ResumeChore ==
  ASSUME MigrationTypeOK, NEW r \in Runners, task[r].step \notin {"free", "next"}, Resume(r)
  PROVE  /\ task' \in [Runners -> Chores] /\ overlap' \in BOOLEAN
         /\ \/ task'[r] = Unoccupied /\ task'[r].step = "free"
            \/ /\ task'[r] \in Rounds /\ task'[r].step = "next" /\ task'[r].loop = task[r].loop
               /\ task'[r].todo = task[r].todo
         /\ \A q \in Runners \ {r} : task'[q] = task[q]
<1>0. task[r] \in Errands /\ task[r].loop \in Loops /\ task[r].todo \in SUBSET Letters
  BY ChoreFacts DEF MigrationTypeOK
<1>1. CASE Set(r, Unoccupied)
  BY <1>1, FreeChore
<1>2. CASE Starts(r, task[r].loop, task[r].todo)
  BY <1>0, <1>2, StartsChore
<1> QED BY <1>1, <1>2 DEF Resume

LEMMA MigrationTypeStep ==
  ASSUME MigrationTypeOK, MigrateCopies, [MigrationNext]_migrationVars
  PROVE  MigrationTypeOK' /\ MigrateCopies'
<1>0. ASSUME NEW r \in Runners,
             \/ StartUp(r) \/ ReadLines(r) \/ EndDrain(r) \/ SweepDelivered(r) \/ SweepFailed(r)
             \/ MigrateOutbox(r) \/ ArchiveCopy(r) \/ EndMigrate(r)
             \/ TruncateEntry(r) \/ FlushEntry(r) \/ UnlinkEntry(r) \/ Halt(r)
             \/ \E l \in Letters : \/ AdoptFile(r, l) \/ DrainLine(r, l) \/ RefuseLine(r, l)
                                   \/ SweepEntry(r, l) \/ Classify(r, l)
      PROVE  MigrationTypeOK' /\ MigrateCopies'
  <2>r. task[r] \in Chores /\ (task[r].step = "next" => task[r] \in Rounds)
        /\ (task[r].step \notin {"free", "next"} => task[r] \in Errands)
    BY ChoreFacts DEF MigrationTypeOK, MigrateCopies
  <2>1. CASE StartUp(r)
    BY <2>1, StartsChore DEF StartUp, disk, Loops, MigrationTypeOK, MigrateCopies
  <2>2. CASE ReadLines(r)
    BY <2>2, StartsChore DEF ReadLines, disk, Loops, MigrationTypeOK, MigrateCopies
  <2>3. CASE EndDrain(r)
    <3>1. lines' \subseteq Letters
      BY <2>3 DEF EndDrain, MigrationTypeOK, MigrateCopies
    <3> QED BY <2>3, <3>1, FreeChore DEF EndDrain, MigrationTypeOK, MigrateCopies
  <2>4. CASE SweepDelivered(r)
    <3>1. task[r].letter \in Letters
      BY <2>4, <2>r, ChoreFacts DEF SweepDelivered, MigrationTypeOK, MigrateCopies
    <3>2. StepsTo(r, "unlink")
      BY <2>4, NextChore DEF SweepDelivered
    <3> QED BY <2>4, <3>1, <3>2 DEF SweepDelivered, disk, StepsTo, MigrationTypeOK, MigrateCopies
  <2>5. CASE SweepFailed(r)
    <3>1. StepsTo(r, "write")
      BY <2>5, NextChore DEF SweepFailed
    <3> QED BY <2>5, <3>1 DEF SweepFailed, disk, StepsTo, MigrationTypeOK, MigrateCopies
  <2>6. CASE MigrateOutbox(r)
    BY <2>6, StartsChore DEF MigrateOutbox, disk, Loops, MigrationTypeOK, MigrateCopies
  <2>7. CASE ArchiveCopy(r)
    <3>1. archived' \in [Letters -> {"none", "whole", "empty"}]
      BY <2>7 DEF ArchiveCopy, Copied, MigrationTypeOK, MigrateCopies
    <3>2. StepsTo(r, "unlink")
      BY <2>7, NextChore DEF ArchiveCopy
    <3> QED BY <2>7, <3>1, <3>2 DEF ArchiveCopy, StepsTo, MigrationTypeOK, MigrateCopies
  <2>8. CASE EndMigrate(r)
    BY <2>8, FreeChore DEF EndMigrate, disk, MigrationTypeOK, MigrateCopies
  <2>9. CASE TruncateEntry(r)
    <3>1. task[r].letter \in Letters
      BY <2>9, <2>r, ChoreFacts DEF TruncateEntry, MigrationTypeOK, MigrateCopies
    <3>2. StepsTo(r, "flush")
      BY <2>9, NextChore DEF TruncateEntry
    <3>3. pendingFile' \in [Letters -> Formats \cup {"none", "torn"}]
      BY <2>9, <3>1, PutFile DEF TruncateEntry
    <3>4. overlaid' \subseteq Letters
      BY <2>9, <3>1 DEF TruncateEntry, MigrationTypeOK
    <3> QED BY <2>9, <3>2, <3>3, <3>4 DEF TruncateEntry, StepsTo, MigrationTypeOK, MigrateCopies
  <2>10. CASE FlushEntry(r)
    <3>1. task[r].letter \in Letters /\ task[r].held \in Formats /\ task[r].step = "flush"
      BY <2>10, <2>r, ChoreFacts DEF FlushEntry, MigrationTypeOK, MigrateCopies
    <3>2. PICK e \in Formats \cup {"none", "torn"} : Put(task[r].letter, e) /\ Resume(r)
      BY <2>10, <3>1 DEF FlushEntry, MigrationTypeOK
    <3>3. pendingFile' \in [Letters -> Formats \cup {"none", "torn"}]
      BY <3>1, <3>2, PutFile
    <3>4. task' \in [Runners -> Chores] /\ overlap' \in BOOLEAN /\ task'[r].step # "copy"
          /\ \A q \in Runners \ {r} : task'[q] = task[q]
      BY <3>1, <3>2, ResumeChore
    <3> QED BY <2>10, <3>3, <3>4 DEF FlushEntry, MigrationTypeOK, MigrateCopies
  <2>11. CASE UnlinkEntry(r)
    <3>1. task[r].letter \in Letters /\ task[r].step = "unlink"
      BY <2>11, <2>r, ChoreFacts DEF UnlinkEntry, MigrationTypeOK, MigrateCopies
    <3>2. Put(task[r].letter, "none") /\ Resume(r)
      BY <2>11 DEF UnlinkEntry
    <3>3. pendingFile' \in [Letters -> Formats \cup {"none", "torn"}]
      BY <3>1, <3>2, PutFile
    <3>4. task' \in [Runners -> Chores] /\ overlap' \in BOOLEAN /\ task'[r].step # "copy"
          /\ \A q \in Runners \ {r} : task'[q] = task[q]
      BY <3>1, <3>2, ResumeChore
    <3> QED BY <2>11, <3>3, <3>4 DEF UnlinkEntry, MigrationTypeOK, MigrateCopies
  <2>12. CASE Halt(r)
    <3>1. halts' \in 0..RunnerCrashes
      BY <2>12, MigrationAssumption DEF Halt, MigrationTypeOK, MigrateCopies
    <3> QED BY <2>12, <3>1, FreeChore DEF Halt, disk, MigrationTypeOK, MigrateCopies
  <2>13. ASSUME NEW l \in Letters, AdoptFile(r, l) PROVE MigrationTypeOK' /\ MigrateCopies'
    <3>1. shared' \subseteq Letters /\ pendingFile' \in [Letters -> Formats \cup {"none", "torn"}]
      BY <2>13, PutFile DEF AdoptFile, Formats, MigrationTypeOK, MigrateCopies
    <3> QED BY <2>13, <3>1, SkipChore DEF AdoptFile, Loop, MigrationTypeOK, MigrateCopies
  <2>14. ASSUME NEW l \in Letters, DrainLine(r, l) PROVE MigrationTypeOK' /\ MigrateCopies'
    BY <2>14, TakeChore DEF DrainLine, Loop, disk, Formats, MigrationTypeOK, MigrateCopies
  <2>15. ASSUME NEW l \in Letters, RefuseLine(r, l) PROVE MigrationTypeOK' /\ MigrateCopies'
    BY <2>15, FreeChore DEF RefuseLine, disk, MigrationTypeOK, MigrateCopies
  <2>16. ASSUME NEW l \in Letters, SweepEntry(r, l) PROVE MigrationTypeOK' /\ MigrateCopies'
    <3> DEFINE c == [step |-> "send", loop |-> "sweep", todo |-> {}, letter |-> l, held |-> pendingFile[l]]
    <3>1. c \in Errands /\ c.step = "send"
      BY <2>16 DEF SweepEntry, Whole, Errands, Loops, MigrationTypeOK, MigrateCopies
    <3>2. Set(r, c) /\ c \in Chores /\ UNCHANGED <<origin, disk, halts, gone, overlaid>>
      BY <2>16, <3>1, ChoreFacts DEF SweepEntry, MigrationTypeOK, MigrateCopies
    <3> HIDE DEF c
    <3> QED BY <3>1, <3>2, SetTask DEF disk, MigrationTypeOK, MigrateCopies
  <2>17. ASSUME NEW l \in Letters, Classify(r, l) PROVE MigrationTypeOK' /\ MigrateCopies'
    <3>1. \/ Skip(r, l) \/ Take(r, "write", l, "signed") \/ Take(r, "copy", l, "corrupt")
      BY <2>17 DEF Classify, MigrationTypeOK, MigrateCopies
    <3>2. task[r].step = "next" /\ task[r].loop = "migrate"
      BY <2>17 DEF Classify, Loop, MigrationTypeOK, MigrateCopies
    <3>3. task' \in [Runners -> Chores] /\ overlap' \in BOOLEAN
          /\ (task'[r].step = "copy" => task'[r].loop = "migrate")
          /\ \A q \in Runners \ {r} : task'[q] = task[q]
      BY <3>1, <3>2, SkipChore, TakeChore DEF Formats, MigrationTypeOK, MigrateCopies
    <3> QED BY <2>17, <3>3 DEF Classify, MigrationTypeOK, MigrateCopies
  <2> QED BY <1>0, <2>1, <2>2, <2>3, <2>4, <2>5, <2>6, <2>7, <2>8, <2>9, <2>10, <2>11, <2>12, <2>13,
             <2>14, <2>15, <2>16, <2>17
<1>1. CASE UNCHANGED migrationVars
  BY <1>1 DEF migrationVars, disk, MigrationTypeOK, MigrateCopies
<1> QED BY <1>0, <1>1 DEF MigrationNext

Drained(r, l) == task[r].step # "free" /\ task[r].loop = "drain" /\ l \in lines /\ l \notin task[r].todo
HasErrand(r, l) == task[r].step \notin {"free", "next"} /\ task[r].letter = l

\* A letter that the runner of the step does not work on.
LEMMA KeptByOthers ==
  ASSUME NEW l, Kept(l), NEW r \in Runners,
         \A q \in Runners \ {r} : task'[q] = task[q],
         ~HasErrand(r, l), ~HasErrand(r, l)', Drained(r, l)' => Drained(r, l),
         pendingFile'[l] = pendingFile[l], archived'[l] = archived[l], l \in gone => l \in gone',
         l \in lines' => l \in lines,
         l \in lines \cup shared \cup bare => l \in lines' \cup shared' \cup bare' \/ Settled(l)
  PROVE  Kept(l)'
<1>0. \A q \in Runners : HasErrand(q, l)' <=> HasErrand(q, l)
  BY DEF HasErrand
<1>1. Held(l)' <=> Held(l)
  BY <1>0 DEF Held, HasErrand
<1>2. (Settled(l) => Settled(l)') /\ (Settled(l)' \/ l \in lines' \cup shared' \cup bare')
  BY <1>1 DEF Settled, Whole, Kept
<1>3. DrainedIsSettled(l)'
  BY <1>2 DEF Kept, DrainedIsSettled, Drained
<1>4. TornIsHeld(l)' /\ FlushedIsGone(l)' /\ RemovedIsSettled(l)' /\ CopiedIsWhole(l)'
  BY <1>0 DEF Kept, TornIsHeld, FlushedIsGone, RemovedIsSettled, CopiedIsWhole, HasErrand, Migrates, Whole
<1> QED BY <1>2, <1>3, <1>4 DEF Kept

\* A step on the letter, after which it is saved.
LEMMA KeptByRunner ==
  ASSUME NEW l, Kept(l), NEW r \in Runners,
         \A q \in Runners \ {r} : task'[q] = task[q], Settled(l)',
         l \in gone => l \in gone', archived'[l] \in {archived[l], "whole"},
         pendingFile'[l] = "torn" => \E q \in Runners : task'[q].step = "flush" /\ task'[q].letter = l,
         pendingFile'[l] = "none" => \/ pendingFile[l] = "none" \/ l \in gone
                                     \/ \A q \in Runners \ {r} : task[q].step # "flush",
         pendingFile'[l] = pendingFile[l] \/ Whole(l)' \/ \A q \in Runners \ {r} : task[q].step # "copy",
         HasErrand(r, l)' => /\ task'[r].step = "flush" => pendingFile'[l] # "none"
                             /\ task'[r].step = "unlink" => l \in gone' \/ (Migrates(r)' /\ archived'[l] = "whole")
                             /\ task'[r].step = "copy" => Whole(l)'
  PROVE  Kept(l)'
<1>1. DrainedIsSettled(l)' /\ TornIsHeld(l)'
  BY DEF DrainedIsSettled, TornIsHeld
<1>2. FlushedIsGone(l)'
  BY DEF Kept, FlushedIsGone, HasErrand
<1>3. RemovedIsSettled(l)'
  BY DEF Kept, RemovedIsSettled, HasErrand, Migrates
<1>4. CopiedIsWhole(l)'
  BY DEF Kept, CopiedIsWhole, HasErrand, Whole
<1> QED BY <1>1, <1>2, <1>3, <1>4 DEF Kept

LEMMA AloneStep ==
  ASSUME MigrationNext, ~overlap'
  PROVE  ~overlap /\ Alone'
<1>1. PICK r \in Runners : \E c : Set(r, c)
  <2>1. PICK r \in Runners :
             \/ StartUp(r) \/ ReadLines(r) \/ EndDrain(r) \/ SweepDelivered(r) \/ SweepFailed(r)
             \/ MigrateOutbox(r) \/ ArchiveCopy(r) \/ EndMigrate(r)
             \/ TruncateEntry(r) \/ FlushEntry(r) \/ UnlinkEntry(r) \/ Halt(r)
             \/ \E l \in Letters : \/ AdoptFile(r, l) \/ DrainLine(r, l) \/ RefuseLine(r, l)
                                   \/ SweepEntry(r, l) \/ Classify(r, l)
    BY DEF MigrationNext
  <2>2. \E c : Set(r, c)
    BY <2>1 DEF StartUp, ReadLines, EndDrain, SweepDelivered, SweepFailed, MigrateOutbox, ArchiveCopy,
       EndMigrate, TruncateEntry, FlushEntry, UnlinkEntry, Halt, AdoptFile, DrainLine, RefuseLine,
       SweepEntry, Classify, Starts, Skip, Take, Resume
  <2> QED BY <2>2
<1> QED BY <1>1 DEF Set, Alone

LEMMA StartKeeps ==
  ASSUME MigrationTypeOK, NEW l \in Letters, Kept(l), NEW r \in Runners,
         StartUp(r) \/ ReadLines(r) \/ MigrateOutbox(r) \/ EndMigrate(r) \/ EndDrain(r)
         \/ \E k \in Letters : RefuseLine(r, k)
  PROVE  Kept(l)'
<1>1. UNCHANGED <<shared, bare, pendingFile, archived, gone>> /\ task[r].step \in {"free", "next"}
  BY ChoreFacts DEF StartUp, ReadLines, MigrateOutbox, EndMigrate, EndDrain, RefuseLine, Loop, disk
<1>2. CASE StartUp(r) \/ MigrateOutbox(r) \/ ReadLines(r)
  <2>1. /\ task'[r].step = "next" /\ lines' = lines
        /\ task'[r].loop \in {"adopt", "migrate"} \/ (task'[r].loop = "drain" /\ task'[r].todo = lines)
        /\ \A q \in Runners \ {r} : task'[q] = task[q]
    <3>1. CASE StartUp(r)
      BY <3>1, StartsChore DEF StartUp, MigrationTypeOK, Loops, disk
    <3>2. CASE MigrateOutbox(r)
      BY <3>2, StartsChore DEF MigrateOutbox, MigrationTypeOK, Loops, disk
    <3>3. CASE ReadLines(r)
      BY <3>3, StartsChore DEF ReadLines, MigrationTypeOK, Loops, disk
    <3> QED BY <1>2, <3>1, <3>2, <3>3
  <2>2. ~HasErrand(r, l) /\ ~HasErrand(r, l)' /\ ~Drained(r, l)'
    BY <1>1, <2>1 DEF HasErrand, Drained
  <2> QED BY <1>1, <2>1, <2>2, KeptByOthers
<1>3. CASE EndMigrate(r) \/ EndDrain(r) \/ \E k \in Letters : RefuseLine(r, k)
  <2>1. task'[r].step = "free" /\ \A q \in Runners \ {r} : task'[q] = task[q]
    BY <1>3, FreeChore DEF EndMigrate, EndDrain, RefuseLine
  <2>2. ~HasErrand(r, l) /\ ~HasErrand(r, l)' /\ ~Drained(r, l)'
    BY <1>1, <2>1 DEF HasErrand, Drained
  <2>3. lines' = lines \/ (lines' = {} /\ EndDrain(r) /\ AllDrained(r))
    BY <1>3 DEF EndMigrate, EndDrain, RefuseLine, disk
  <2>4. CASE lines' = lines
    BY <1>1, <2>1, <2>2, <2>4, KeptByOthers
  <2>5. CASE lines' = {} /\ EndDrain(r) /\ AllDrained(r)
    <3>1. l \in lines => Settled(l)
      BY <2>5 DEF EndDrain, Loop, AllDrained, Kept, DrainedIsSettled
    <3> QED BY <1>1, <2>1, <2>2, <2>5, <3>1, KeptByOthers
  <2> QED BY <2>3, <2>4, <2>5
<1> QED BY <1>2, <1>3

LEMMA AdoptKeeps ==
  ASSUME MigrationTypeOK, NEW l \in Letters, Kept(l), NEW r \in Runners, NEW k \in Letters, AdoptFile(r, k)
  PROVE  Kept(l)'
<1>1. /\ task[r].step = "next" /\ task[r].loop = "adopt" /\ UNCHANGED <<lines, bare, archived, gone>>
      /\ task'[r].step = "next" /\ task'[r].loop = "adopt" /\ \A q \in Runners \ {r} : task'[q] = task[q]
  BY SkipChore DEF AdoptFile, Loop
<1>2. ~HasErrand(r, l) /\ ~HasErrand(r, l)' /\ ~Drained(r, l)'
  BY <1>1 DEF HasErrand, Drained
<1>3. CASE k = l /\ l \in shared /\ pendingFile[l] = "none"
  <2>1. pendingFile'[l] = "legacy"
    BY <1>3 DEF AdoptFile, Put, MigrationTypeOK
  <2>2. Whole(l)' /\ Settled(l)'
    BY <2>1 DEF Whole, Settled, Formats
  <2> QED BY <1>1, <1>2, <2>1, <2>2, KeptByRunner
<1>4. CASE ~(k = l /\ l \in shared /\ pendingFile[l] = "none")
  <2>1. pendingFile'[l] = pendingFile[l] /\ (l \in shared => l \in shared')
    BY <1>4 DEF AdoptFile, Put, MigrationTypeOK
  <2> QED BY <1>1, <1>2, <2>1, KeptByOthers
<1> QED BY <1>3, <1>4

LEMMA TakingKeeps ==
  ASSUME MigrationTypeOK, Alone, NEW l \in Letters, Kept(l), NEW r \in Runners, NEW k \in Letters,
         DrainLine(r, k) \/ SweepEntry(r, k) \/ Classify(r, k)
  PROVE  Kept(l)'
<1>1. UNCHANGED <<lines, shared, pendingFile, archived, gone>> /\ task[r].step \in {"free", "next"}
  BY ChoreFacts DEF DrainLine, SweepEntry, Classify, Loop, disk
<1>2. ~HasErrand(r, l) /\ \A q \in Runners : HasErrand(q, l) => q # r
  BY <1>1 DEF HasErrand
<1>3. CASE DrainLine(r, k)
  <2>1. /\ task'[r].step = "write" /\ task'[r].loop = task[r].loop /\ task'[r].letter = k
        /\ task'[r].todo = task[r].todo \ {k} /\ bare' = bare /\ \A q \in Runners \ {r} : task'[q] = task[q]
    BY <1>3, TakeChore DEF DrainLine, Loop, Formats, disk
  <2>2. CASE k = l
    <3>1. Settled(l)'
      BY <2>1, <2>2 DEF Settled, Held
    <3>2. pendingFile'[l] = "torn" => \E q \in Runners : task'[q].step = "flush" /\ task'[q].letter = l
      BY <1>1, <1>2, <2>1 DEF Kept, TornIsHeld, HasErrand
    <3> QED BY <1>1, <2>1, <2>2, <3>1, <3>2, KeptByRunner
  <2>3. CASE k # l
    <3>1. ~HasErrand(r, l)' /\ (Drained(r, l)' => Drained(r, l))
      BY <1>1, <1>3, <2>1, <2>3 DEF HasErrand, Drained, DrainLine, Loop
    <3> QED BY <1>1, <1>2, <2>1, <3>1, KeptByOthers
  <2> QED BY <2>2, <2>3
<1>4. CASE SweepEntry(r, k)
  <2> DEFINE c == [step |-> "send", loop |-> "sweep", todo |-> {}, letter |-> k, held |-> pendingFile[k]]
  <2>1. c \in Errands /\ c.step = "send" /\ c.loop = "sweep" /\ c.letter = k
    BY <1>4 DEF SweepEntry, Whole, Errands, Loops
  <2>2. Set(r, c) /\ c \in Chores /\ bare' = bare /\ Whole(k)
    BY <1>4, <2>1, ChoreFacts DEF SweepEntry, disk
  <2> HIDE DEF c
  <2>3. /\ task'[r].step = "send" /\ task'[r].loop = "sweep" /\ task'[r].letter = k
        /\ \A q \in Runners \ {r} : task'[q] = task[q]
    BY <2>1, <2>2, SetTask
  <2>4. CASE k = l
    <3>1. Settled(l)' /\ Whole(l)' /\ pendingFile'[l] # "torn"
      BY <1>1, <2>2, <2>4 DEF Settled, Whole, Formats
    <3> QED BY <1>1, <2>3, <2>4, <3>1, KeptByRunner
  <2>5. CASE k # l
    <3>1. ~HasErrand(r, l)' /\ ~Drained(r, l)'
      BY <2>3, <2>5 DEF HasErrand, Drained
    <3> QED BY <1>1, <1>2, <2>2, <2>3, <3>1, KeptByOthers
  <2> QED BY <2>4, <2>5
<1>5. CASE Classify(r, k)
  <2>0. task[r].step = "next" /\ task[r].loop = "migrate" /\ bare' = bare \ {k} /\ task[r] # Unoccupied
    BY <1>5, ChoreFacts DEF Classify, Loop
  <2>1. CASE Skip(r, k) /\ k \notin bare
    <3>1. /\ task'[r].step = "next" /\ task'[r].loop = "migrate" /\ \A q \in Runners \ {r} : task'[q] = task[q]
          /\ bare' = bare
      BY <2>0, <2>1, SkipChore
    <3>2. ~HasErrand(r, l)' /\ ~Drained(r, l)'
      BY <3>1 DEF HasErrand, Drained
    <3> QED BY <1>1, <1>2, <3>1, <3>2, KeptByOthers
  <2>2. CASE Take(r, "write", k, "signed")
    <3>1. /\ task'[r].step = "write" /\ task'[r].loop = "migrate" /\ task'[r].letter = k
          /\ \A q \in Runners \ {r} : task'[q] = task[q]
      BY <2>0, <2>2, TakeChore DEF Formats
    <3>2. CASE k = l
      <4>1. Settled(l)'
        BY <3>1, <3>2 DEF Settled, Held
      <4>2. pendingFile'[l] = "torn" => \E q \in Runners : task'[q].step = "flush" /\ task'[q].letter = l
        BY <1>1, <1>2, <3>1 DEF Kept, TornIsHeld, HasErrand
      <4> QED BY <1>1, <3>1, <3>2, <4>1, <4>2, KeptByRunner
    <3>3. CASE k # l
      <4>1. ~HasErrand(r, l)' /\ ~Drained(r, l)'
        BY <3>1, <3>3 DEF HasErrand, Drained
      <4> QED BY <1>1, <1>2, <2>0, <3>1, <3>3, <4>1, KeptByOthers
    <3> QED BY <3>2, <3>3
  <2>3. CASE Take(r, "copy", k, "corrupt") /\ pendingFile[k] \notin {"signed", "none", "legacy"}
    <3>1. /\ task'[r].step = "copy" /\ task'[r].loop = "migrate" /\ task'[r].letter = k
          /\ \A q \in Runners \ {r} : task'[q] = task[q]
      BY <2>0, <2>3, TakeChore DEF Formats
    <3>2. CASE k = l
      <4>1. \A q \in Runners \ {r} : task[q].step = "free"
        BY <2>0, ChoreFacts DEF Alone, Migrates
      <4>2. pendingFile[l] # "torn"
        BY <2>0, <4>1 DEF Kept, TornIsHeld
      <4>3. Whole(l)' /\ Settled(l)'
        BY <1>1, <2>3, <3>2, <4>2 DEF MigrationTypeOK, Whole, Settled
      <4> QED BY <1>1, <3>1, <3>2, <4>2, <4>3, KeptByRunner
    <3>3. CASE k # l
      <4>1. ~HasErrand(r, l)' /\ ~Drained(r, l)'
        BY <3>1, <3>3 DEF HasErrand, Drained
      <4> QED BY <1>1, <1>2, <2>0, <3>1, <3>3, <4>1, KeptByOthers
    <3> QED BY <3>2, <3>3
  <2> QED BY <1>5, <2>1, <2>2, <2>3 DEF Classify
<1> QED BY <1>3, <1>4, <1>5

LEMMA ErrandKeeps ==
  ASSUME MigrationTypeOK, MigrateCopies, Alone, NEW l \in Letters \ overlaid, Kept(l), NEW r \in Runners,
         \/ SweepDelivered(r) \/ SweepFailed(r) \/ ArchiveCopy(r)
         \/ TruncateEntry(r) \/ FlushEntry(r) \/ UnlinkEntry(r)
  PROVE  Kept(l)'
<1>0. task[r].step \notin {"free", "next"} /\ task[r] \in Errands /\ task[r].held \in Formats /\ task[r].letter \in Letters
      /\ UNCHANGED <<lines, shared, bare>> /\ gone \subseteq gone'
  BY ChoreFacts DEF MigrationTypeOK, SweepDelivered, SweepFailed, ArchiveCopy, TruncateEntry, FlushEntry,
     UnlinkEntry, disk
<1>a. \A q \in Runners \ {r} : task[q].step = "copy" => FALSE
  BY <1>0, ChoreFacts DEF MigrateCopies, Alone, Migrates
<1>1. CASE SweepDelivered(r) \/ SweepFailed(r)
  <2>1. PICK s \in {"unlink", "write"} : /\ Set(r, [task[r] EXCEPT !.step = s])
                                         /\ s = "unlink" => gone' = gone \cup {task[r].letter}
    BY <1>1 DEF SweepDelivered, SweepFailed
  <2>2. StepsTo(r, s) /\ UNCHANGED <<pendingFile, archived>> /\ task[r].step = "send"
    <3>1. StepsTo(r, s)
      BY <1>0, <2>1, NextChore
    <3> QED BY <1>1, <3>1 DEF SweepDelivered, SweepFailed, disk
  <2>3. CASE HasErrand(r, l)
    <3>1. Settled(l)' /\ (s = "unlink" => l \in gone')
      BY <1>0, <2>1, <2>2, <2>3 DEF Settled, Held, HasErrand, StepsTo
    <3>2. pendingFile'[l] = "torn" => \E q \in Runners : task'[q].step = "flush" /\ task'[q].letter = l
      BY <2>2 DEF Kept, TornIsHeld, StepsTo
    <3> QED BY <1>0, <2>1, <2>2, <3>1, <3>2, KeptByRunner DEF StepsTo
  <2>4. CASE ~HasErrand(r, l)
    <3>1. ~HasErrand(r, l)' /\ (Drained(r, l)' => Drained(r, l))
      BY <1>0, <2>2, <2>4 DEF HasErrand, StepsTo, Drained
    <3> QED BY <1>0, <2>2, <2>4, <3>1, KeptByOthers DEF StepsTo
  <2> QED BY <2>3, <2>4
<1>2. CASE ArchiveCopy(r)
  <2>1. StepsTo(r, "unlink") /\ task[r].step = "copy" /\ UNCHANGED <<pendingFile, gone>>
        /\ \A k \in Letters : archived'[k] = IF k = task[r].letter THEN Copied(k) ELSE archived[k]
    <3>1. StepsTo(r, "unlink")
      BY <1>0, <1>2, NextChore DEF ArchiveCopy
    <3> QED BY <1>0, <1>2, <3>1 DEF ArchiveCopy, MigrationTypeOK
  <2>2. Migrates(r) /\ Migrates(r)'
    BY <1>0, <2>1, ChoreFacts DEF MigrateCopies, Migrates, StepsTo
  <2>3. CASE HasErrand(r, l)
    <3>1. Whole(l) /\ archived'[l] = "whole"
      BY <2>1, <2>3 DEF Kept, CopiedIsWhole, HasErrand, Copied
    <3>2. Settled(l)' /\ pendingFile'[l] # "torn"
      BY <2>1, <3>1 DEF Settled, Whole, Formats
    <3> QED BY <1>0, <2>1, <2>2, <3>1, <3>2, KeptByRunner DEF StepsTo
  <2>4. CASE ~HasErrand(r, l)
    <3>1. ~HasErrand(r, l)' /\ (Drained(r, l)' => Drained(r, l)) /\ l # task[r].letter
      BY <1>0, <2>1, <2>4 DEF HasErrand, StepsTo, Drained
    <3> QED BY <1>0, <2>1, <2>4, <3>1, KeptByOthers DEF StepsTo
  <2> QED BY <2>3, <2>4
<1>3. CASE TruncateEntry(r)
  <2>1. StepsTo(r, "flush") /\ task[r].step = "write" /\ UNCHANGED <<archived, gone>>
        /\ \A k \in Letters : pendingFile'[k] = IF k = task[r].letter THEN "torn" ELSE pendingFile[k]
    <3>1. StepsTo(r, "flush")
      BY <1>0, <1>3, NextChore DEF TruncateEntry
    <3> QED BY <1>0, <1>3, <3>1 DEF TruncateEntry, Put, MigrationTypeOK
  <2>2. CASE HasErrand(r, l)
    <3>1. Settled(l)' /\ pendingFile'[l] = "torn" /\ task'[r].step = "flush" /\ task'[r].letter = l
      BY <2>1, <2>2 DEF Settled, Held, HasErrand, StepsTo
    <3> QED BY <1>0, <1>a, <2>1, <3>1, KeptByRunner DEF StepsTo
  <2>3. CASE ~HasErrand(r, l)
    <3>1. ~HasErrand(r, l)' /\ (Drained(r, l)' => Drained(r, l)) /\ l # task[r].letter
      BY <1>0, <2>1, <2>3 DEF HasErrand, StepsTo, Drained
    <3> QED BY <1>0, <2>1, <2>3, <3>1, KeptByOthers DEF StepsTo
  <2> QED BY <2>2, <2>3
<1>4. CASE FlushEntry(r) \/ UnlinkEntry(r)
  <2>1. /\ task'[r].step \in {"free", "next"} /\ UNCHANGED <<archived, gone>>
        /\ task'[r].step = "next" => task'[r].loop = task[r].loop /\ task'[r].todo = task[r].todo
        /\ \A q \in Runners \ {r} : task'[q] = task[q]
    BY <1>0, <1>4, ResumeChore DEF FlushEntry, UnlinkEntry
  <2>2. ~HasErrand(r, l)' /\ (Drained(r, l)' => Drained(r, l))
    BY <1>0, <2>1 DEF HasErrand, Drained
  <2>3. \A k \in Letters : k # task[r].letter => pendingFile'[k] = pendingFile[k]
    <3>1. PICK e : pendingFile' = [pendingFile EXCEPT ![task[r].letter] = e]
      BY <1>4 DEF FlushEntry, UnlinkEntry, Put
    <3> QED BY <3>1 DEF MigrationTypeOK
  <2>4. CASE ~HasErrand(r, l)
    <3>1. l # task[r].letter
      BY <1>0, <2>4 DEF HasErrand
    <3> QED BY <1>0, <2>1, <2>2, <2>3, <2>4, <3>1, KeptByOthers
  <2>5. CASE HasErrand(r, l) /\ FlushEntry(r)
    <3>1. pendingFile'[l] = (IF pendingFile[l] = "none" THEN "none" ELSE task[r].held)
          /\ task[r].step = "flush" /\ task[r].letter = l
      <4>1. task[r].step = "flush" /\ task[r].letter = l
        BY <2>5 DEF FlushEntry, HasErrand
      <4>2. PICK e : Put(l, e) /\ e = IF pendingFile[l] = "none" THEN "none" ELSE task[r].held
        BY <2>5, <4>1 DEF FlushEntry
      <4> QED BY <4>1, <4>2 DEF Put, MigrationTypeOK
    <3>2. CASE pendingFile[l] = "none"
      <4>1. Settled(l)' /\ pendingFile'[l] = "none"
        BY <2>1, <3>1, <3>2 DEF Kept, FlushedIsGone, Settled
      <4> QED BY <1>0, <2>1, <2>2, <3>2, <4>1, KeptByRunner
    <3>3. CASE pendingFile[l] # "none"
      <4>1. Whole(l)' /\ Settled(l)' /\ pendingFile'[l] \notin {"none", "torn"}
        BY <1>0, <3>1, <3>3 DEF Whole, Settled, Formats
      <4> QED BY <1>0, <2>1, <2>2, <4>1, KeptByRunner
    <3> QED BY <3>2, <3>3
  <2>6. CASE HasErrand(r, l) /\ UnlinkEntry(r)
    <3>1. pendingFile'[l] = "none" /\ task[r].step = "unlink" /\ task[r].letter = l
      BY <2>6 DEF UnlinkEntry, Put, MigrationTypeOK, HasErrand
    <3>2. l \in gone \/ (Migrates(r) /\ archived[l] = "whole")
      BY <3>1 DEF Kept, RemovedIsSettled
    <3>3. Settled(l)'
      BY <2>1, <3>2 DEF Settled
    <3>4. Migrates(r) => \A q \in Runners \ {r} : task[q].step # "flush"
      BY ChoreFacts DEF Alone
    <3> QED BY <1>0, <1>a, <2>1, <2>2, <3>1, <3>2, <3>3, <3>4, KeptByRunner
  <2> QED BY <1>4, <2>4, <2>5, <2>6
<1> QED BY <1>1, <1>2, <1>3, <1>4

LEMMA HaltKeeps ==
  ASSUME MigrationTypeOK, NEW l \in Letters, Kept(l), NEW r \in Runners, Halt(r), ~HasErrand(r, l)
  PROVE  Kept(l)'
<1>1. task'[r].step = "free" /\ UNCHANGED <<disk, gone>> /\ \A q \in Runners \ {r} : task'[q] = task[q]
  BY FreeChore DEF Halt
<1>2. ~HasErrand(r, l)' /\ ~Drained(r, l)'
  BY <1>1 DEF HasErrand, Drained
<1> QED BY <1>1, <1>2, KeptByOthers DEF disk

\* A crash costs one letter at most, and nothing else costs any.
LEMMA MigrationStep ==
  ASSUME MigrationInv, [MigrationNext]_migrationVars
  PROVE  MigrationInv'
<1>t. MigrationTypeOK' /\ MigrateCopies' /\ MigrationTypeOK /\ MigrateCopies
  BY MigrationTypeStep DEF MigrationInv
<1>f. \A S \in SUBSET Letters : IsFiniteSet(S) /\ Cardinality(S) \in Nat
  BY MigrationAssumption, FS_Subset, FS_CardinalityType
<1>g. halts \in Nat /\ halts' \in Nat /\ Unkept \subseteq Letters /\ Unkept' \subseteq Letters
  BY <1>t, MigrationAssumption DEF MigrationTypeOK, Unkept
<1>1. CASE UNCHANGED migrationVars
  <2>1. UNCHANGED <<halts, overlap>> /\ Unkept' = Unkept /\ (Alone' <=> Alone)
    BY <1>1 DEF migrationVars, disk, Unkept, Kept, Settled, Whole, Held, DrainedIsSettled, TornIsHeld, FlushedIsGone,
       RemovedIsSettled, CopiedIsWhole, Migrates, Alone
  <2> QED BY <1>t, <2>1 DEF MigrationInv
<1>2. CASE MigrationNext /\ overlap'
  BY <1>t, <1>2 DEF MigrationInv
<1>3. CASE MigrationNext /\ ~overlap'
  <2>1. ~overlap /\ Alone' /\ Alone /\ Cardinality(Unkept) <= halts
    BY <1>3, AloneStep DEF MigrationInv
  <2>2. PICK r \in Runners :
             \/ StartUp(r) \/ ReadLines(r) \/ EndDrain(r) \/ SweepDelivered(r) \/ SweepFailed(r)
             \/ MigrateOutbox(r) \/ ArchiveCopy(r) \/ EndMigrate(r)
             \/ TruncateEntry(r) \/ FlushEntry(r) \/ UnlinkEntry(r) \/ Halt(r)
             \/ \E l \in Letters : \/ AdoptFile(r, l) \/ DrainLine(r, l) \/ RefuseLine(r, l)
                                   \/ SweepEntry(r, l) \/ Classify(r, l)
    BY <1>3 DEF MigrationNext
  <2>0. overlaid \subseteq overlaid'
    <3>1. CASE TruncateEntry(r)
      BY <3>1 DEF TruncateEntry
    <3>2. CASE \/ StartUp(r) \/ ReadLines(r) \/ EndDrain(r) \/ SweepDelivered(r) \/ SweepFailed(r)
               \/ MigrateOutbox(r) \/ ArchiveCopy(r) \/ EndMigrate(r)
      BY <3>2 DEF StartUp, ReadLines, EndDrain, SweepDelivered, SweepFailed, MigrateOutbox, ArchiveCopy, EndMigrate
    <3>3. CASE FlushEntry(r) \/ UnlinkEntry(r) \/ Halt(r)
      BY <3>3 DEF FlushEntry, UnlinkEntry, Halt
    <3>4. CASE \E l \in Letters : \/ AdoptFile(r, l) \/ DrainLine(r, l) \/ RefuseLine(r, l)
                                  \/ SweepEntry(r, l) \/ Classify(r, l)
      BY <3>4 DEF AdoptFile, DrainLine, RefuseLine, SweepEntry, Classify
    <3> QED BY <2>2, <3>1, <3>2, <3>3, <3>4
  <2>3. CASE ~Halt(r)
    <3>1. ASSUME NEW l \in Letters \ overlaid, Kept(l) PROVE Kept(l)'
      BY <1>t, <2>1, <2>2, <2>3, <3>1, StartKeeps, AdoptKeeps, TakingKeeps, ErrandKeeps
    <3>2. Unkept' \subseteq Unkept
      BY <2>0, <3>1 DEF Unkept
    <3>3. halts' = halts
      BY <2>2, <2>3 DEF StartUp, ReadLines, EndDrain, SweepDelivered, SweepFailed, MigrateOutbox, ArchiveCopy,
         EndMigrate, TruncateEntry, FlushEntry, UnlinkEntry, AdoptFile, DrainLine, RefuseLine, SweepEntry, Classify
    <3>4. Cardinality(Unkept') <= Cardinality(Unkept) /\ Cardinality(Unkept') \in Nat /\ Cardinality(Unkept) \in Nat
      BY <1>f, <1>g, <3>2, FS_Subset
    <3>5. Cardinality(Unkept') <= halts'
      BY <1>g, <2>1, <3>3, <3>4
    <3> QED BY <1>t, <2>1, <3>5 DEF MigrationInv
  <2>4. CASE Halt(r)
    <3>1. ASSUME NEW l \in Letters, Kept(l), l # task[r].letter PROVE Kept(l)'
      BY <1>t, <2>4, <3>1, HaltKeeps DEF HasErrand
    <3>2. Unkept' \subseteq Unkept \cup {task[r].letter}
      BY <2>0, <3>1 DEF Unkept
    <3>3. halts' = halts + 1
      BY <2>4 DEF Halt
    <3>4. IsFiniteSet(Unkept) /\ Cardinality(Unkept) \in Nat /\ Cardinality(Unkept') \in Nat
      BY <1>f, <1>g
    <3>5. /\ IsFiniteSet(Unkept \cup {task[r].letter})
          /\ Cardinality(Unkept \cup {task[r].letter}) \in {Cardinality(Unkept), Cardinality(Unkept) + 1}
      BY <3>4, FS_AddElement
    <3>6. Cardinality(Unkept') <= Cardinality(Unkept \cup {task[r].letter})
      BY <3>2, <3>5, FS_Subset
    <3>7. Cardinality(Unkept') <= halts'
      BY <1>g, <2>1, <3>3, <3>4, <3>5, <3>6
    <3> QED BY <1>t, <2>1, <3>7 DEF MigrationInv
  <2> QED BY <2>3, <2>4
<1> QED BY <1>1, <1>2, <1>3

LEMMA MigrationStart == MigrationInit => MigrationInv
<1> SUFFICES ASSUME MigrationInit PROVE MigrationInv
  OBVIOUS
<1>1. MigrationTypeOK /\ halts = 0 /\ \A r \in Runners : task[r].step = "free" /\ task[r] = Unoccupied
  BY MigrationTypeInit, ChoreFacts DEF MigrationInit
<1>2. ASSUME NEW l \in Letters PROVE Kept(l)
  <2>1. origin[l] \in Origins
    BY MigrationAssumption DEF MigrationInit
  <2>2. Settled(l) \/ l \in lines \cup shared \cup bare
    BY <2>1 DEF MigrationInit, Origins, Formats, Settled, Whole
  <2>3. pendingFile[l] # "torn"
    BY DEF MigrationInit, Formats
  <2> QED BY <1>1, <2>2, <2>3 DEF Kept, DrainedIsSettled, TornIsHeld, FlushedIsGone, RemovedIsSettled, CopiedIsWhole
<1>3. Unkept = {}
  BY <1>2 DEF Unkept
<1>4. Cardinality(Unkept) = 0
  BY <1>3, FS_EmptySet
<1>5. Alone /\ MigrateCopies
  BY <1>1 DEF Alone, Migrates, MigrateCopies
<1> QED BY <1>1, <1>4, <1>5 DEF MigrationInv

LEMMA MigrationHolds == MigrationInv => MigrationKeeps
<1> SUFFICES ASSUME MigrationInv, ~overlap PROVE Cardinality({l \in Letters \ overlaid : Missing(l)}) <= halts
  BY DEF MigrationKeeps
<1> DEFINE M == {l \in Letters \ overlaid : Missing(l)}
<1>1. M \subseteq Unkept /\ Unkept \subseteq Letters
  BY DEF Unkept, Kept, Missing, Settled
<1>2. halts \in Nat /\ Cardinality(Unkept) <= halts
  BY MigrationAssumption DEF MigrationInv, MigrationTypeOK
<1> HIDE DEF M
<1>3. IsFiniteSet(Unkept) /\ Cardinality(Unkept) \in Nat /\ Cardinality(M) <= Cardinality(Unkept) /\ Cardinality(M) \in Nat
  BY <1>1, MigrationAssumption, FS_Subset, FS_CardinalityType
<1>4. Cardinality(M) <= halts
  BY <1>2, <1>3
<1> QED BY <1>4 DEF M

\* The queue of an earlier version is adopted, and its outbox migrated, without
\* loss (LegacyKeeps): no mail is ever split between two agents, each one that
\* is neither sent nor purged can be read somewhere but for one per crash, drains
\* send it once each at most; a letter of the old outbox stays in a file that
\* holds it, or in the archive, until it is delivered, but for one per halt.
\* Nothing is promised of a mail or a letter whose file two processes wrote at a
\* time, nor once migrate_outbox ran while another process worked on the outbox.
THEOREM LegacyIsKept == QueueSpec /\ MigrationSpec => []LegacyKeeps
<1>1. QueueSpec => []QueueKeeps
  BY QueueBegins, QueueStep, QueueHolds, PTL DEF QueueSpec
<1>2. MigrationSpec => []MigrationKeeps
  BY MigrationStart, MigrationStep, MigrationHolds, PTL DEF MigrationSpec
<1>3. QueueKeeps /\ MigrationKeeps => LegacyKeeps
  BY DEF LegacyKeeps
<1> QED BY <1>1, <1>2, <1>3, PTL

-------------------------------------------------------------------------------
(* The signaling broker.  What a connection finds in its room is its own   *)
(* entry unless a connection of the same fingerprint met it (LoneAlone); a *)
(* session has a Keeper: a connection that will drop it when it is removed, *)
(* or is just about to, unless it was opened with one being removed.       *)

Active(c) == at[c] \in {"open", "telling"} /\ inRoom[c] = room
Ended(s)  == {s[1], s[2]} \cap late # {}
Keeper(c, s) ==
  \/ Active(c) /\ Fp(c) = s[1]
  \/ Active(c) /\ Fp(c) = s[2] /\ <<s[2], s[1]>> \in sessions[room]
  \/ at[c] = "cancelling" /\ inRoom[c] = room /\ Fp(c) = s[2] /\ s[1] \in partners[c]

Begun == {c \in Conns : at[c] # "out"}
Roomy ==
  /\ made <= Cardinality(Begun)
  /\ \A r \in Objects : r > made => (\A f \in Fps : peers[r][f] = NoConn) /\ sessions[r] = {}
  /\ \A c \in Conns : Alive(c) => inRoom[c] # 0
  /\ \A r \in Objects, f \in Fps : peers[r][f] = NoConn \/ FpOf[peers[r][f]] = f
LoneAlone == \A c \in Conns \ overlapped : Alive(c) => Rivals(c) = {}
SessionsKept == room # 0 => \A s \in sessions[room] : Ended(s) \/ \E c \in Conns : Keeper(c, s)
OwnDropped == room # 0 => \A d \in Conns : at[d] = "cancelling" /\ inRoom[d] = room =>
  \A s \in sessions[room] : s[1] = Fp(d) => Ended(s) \/ \E c \in Conns : Active(c) /\ Fp(c) = Fp(d)

SignalingInv == /\ SignalingTypeOK /\ Roomy /\ LoneAlone /\ LoneIsReachable /\ RoomIsAlive
                /\ SessionsKept /\ OwnDropped

Walk == {"out", "joining", "open", "telling", "cancelling", "leaving", "gone"}

LEMMA SigFacts ==
  ASSUME SignalingTypeOK
  PROVE  /\ Cardinality(Conns) \in Nat /\ made \in 0..Cardinality(Conns) /\ room \in 0..made
         /\ room # 0 => room \in Objects
         /\ \A c \in Conns : inRoom[c] # 0 => inRoom[c] \in Objects
         /\ \A c \in Conns : Fp(c) \in Fps /\ FpOf[c] = Fp(c) /\ c # NoConn
BY SignalingAssumption, FS_CardinalityType DEF SignalingTypeOK, Objects, Fp

LEMMA BegunFacts ==
  ASSUME SignalingTypeOK, NEW c \in Conns, at[c] = "out", made <= Cardinality(Begun)
  PROVE  made + 1 \in 1..Cardinality(Conns) /\ made + 1 <= Cardinality(Begun \cup {c})
<1>1. Begun \subseteq Conns /\ c \notin Begun /\ IsFiniteSet(Begun) /\ IsFiniteSet(Conns)
  BY SignalingAssumption, FS_Subset DEF Begun
<1>2. Cardinality(Begun \cup {c}) = Cardinality(Begun) + 1 /\ Cardinality(Begun) \in Nat /\ Cardinality(Conns) \in Nat
  BY <1>1, FS_AddElement, FS_CardinalityType
<1>3. Begun \cup {c} \subseteq Conns
  BY <1>1
<1>4. Cardinality(Begun \cup {c}) <= Cardinality(Conns)
  BY <1>1, <1>3, FS_Subset
<1>5. made \in Nat
  BY SigFacts
<1> QED BY <1>2, <1>4, <1>5

LEMMA BegunStays ==
  ASSUME Roomy, at \in [Conns -> Walk], NEW c \in Conns, NEW t \in Walk \ {"out"}, at' = [at EXCEPT ![c] = t],
         made' = made, made \in Nat
  PROVE  made' <= Cardinality(Begun')
<1>1. Begun \subseteq Begun' /\ IsFiniteSet(Begun) /\ IsFiniteSet(Begun')
  BY SignalingAssumption, FS_Subset DEF Begun
<1>2. Cardinality(Begun) <= Cardinality(Begun') /\ Cardinality(Begun) \in Nat /\ Cardinality(Begun') \in Nat
  BY <1>1, FS_Subset, FS_CardinalityType
<1> QED BY <1>2 DEF Roomy

\* The fingerprints in a room are those of connections, so they are finitely many.
LEMMA PresentIsFinite ==
  ASSUME NEW members \in [Fps -> Conns \cup {NoConn}], \A f \in Fps : members[f] = NoConn \/ FpOf[members[f]] = f
  PROVE  IsFiniteSet({f \in Fps : members[f] # NoConn})
<1> DEFINE P == {f \in Fps : members[f] # NoConn}
           m == [f \in P |-> members[f]]
<1>1. m \in [P -> Conns] /\ \A f, g \in P : m[f] = m[g] => f = g
  OBVIOUS
<1>2. m \in Injection(P, Conns)
  BY <1>1 DEF Injection, IsInjective
<1> QED BY <1>2, SignalingAssumption, FS_Injection

\* A step that only moves a handler on, not to or from its removal.
LEMMA QuietKeeps ==
  ASSUME SignalingInv, SignalingTypeOK', made' <= Cardinality(Begun'),
         UNCHANGED <<room, made, peers, sessions, inRoom, partners, overlapped, late>>,
         \A d \in Conns : Alive(d)' => Alive(d),
         \A d \in Conns : at[d] \in {"open", "telling"} => at'[d] \in {"open", "telling"},
         \A d \in Conns : at'[d] = "cancelling" <=> at[d] = "cancelling",
         \A d \in Conns : at'[d] \in {"joining", "open", "telling"} => at[d] \in {"joining", "open", "telling"}
  PROVE  SignalingInv'
<1>1. Roomy'
  BY DEF SignalingInv, Roomy
<1>2. LoneAlone' /\ LoneIsReachable' /\ RoomIsAlive'
  BY DEF SignalingInv, LoneAlone, Rivals, LoneIsReachable, RoomIsAlive, Present, Fp
<1>3. \A d \in Conns : (Active(d) => Active(d)') /\ \A s \in sessions[room] : Keeper(d, s) => Keeper(d, s)'
  BY DEF Active, Keeper, Fp
<1>4. \A s : Ended(s)' = Ended(s)
  BY DEF Ended
<1>5. SessionsKept'
  BY <1>3, <1>4 DEF SignalingInv, SessionsKept
<1>6. OwnDropped'
  BY <1>3, <1>4 DEF SignalingInv, OwnDropped, Fp
<1> QED BY <1>1, <1>2, <1>5, <1>6 DEF SignalingInv

LEMMA QuietStep ==
  ASSUME SignalingInv, NEW c \in Conns,
         \/ Refuse(c) \/ Welcome(c) \/ WelcomeFails(c) \/ DropMessage(c) \/ Told(c) \/ Leave(c)
  PROVE  SignalingInv'
<1>1. PICK t \in {"open", "telling", "gone"} :
        at' = [at EXCEPT ![c] = t] /\ UNCHANGED <<made, peers, sessions, sent, inRoom, partners, up, overlapped, late>>
        /\ at[c] \in {"out", "joining", "open", "telling", "leaving"}
        /\ (at[c] \in {"open", "telling"} => t \in {"open", "telling"})
        /\ (t \in {"open", "telling"} => at[c] \in {"joining", "open", "telling"})
  BY DEF Refuse, Welcome, WelcomeFails, DropMessage, Told, Leave, Goes
<1>2. room' = room
  <2>1. ASSUME room # 0 PROVE peers[room] # Nobody
    BY <2>1, SigFacts DEF SignalingInv, RoomIsAlive, Present, Nobody
  <2> QED BY <2>1 DEF Refuse, Welcome, WelcomeFails, DropMessage, Told, Leave, CleanupRoom
<1>3. at \in [Conns -> Walk] /\ made \in Nat
  BY SigFacts DEF SignalingInv, SignalingTypeOK, Walk
<1>4. SignalingTypeOK'
  BY <1>1, <1>2 DEF SignalingInv, SignalingTypeOK
<1>5. made' <= Cardinality(Begun')
  BY <1>1, <1>3, BegunStays DEF SignalingInv, Walk
<1> QED BY <1>1, <1>2, <1>3, <1>4, <1>5, QuietKeeps DEF Alive, SignalingInv

LEMMA StillStep ==
  ASSUME SignalingInv, UNCHANGED signalingVars \/ (\E c \in Conns : ClientGoes(c))
                       \/ \E r \in Objects, f \in Fps : Window(r, f)
  PROVE  SignalingInv'
<1>1. UNCHANGED <<room, made, peers, sessions, at, inRoom, partners, overlapped, late>>
  BY DEF signalingVars, handlers, ClientGoes, Window
<1>2. sent' \in [Objects -> [Fps -> 0..MaxMessages]] /\ up' \subseteq Conns
  <2>1. CASE sent' = sent
    BY <2>1 DEF signalingVars, handlers, ClientGoes, Window, SignalingInv, SignalingTypeOK
  <2>2. ASSUME NEW r \in Objects, NEW f \in Fps, Window(r, f)
        PROVE  sent' \in [Objects -> [Fps -> 0..MaxMessages]] /\ up' \subseteq Conns
    <3>1. sent[r] \in [Fps -> 0..MaxMessages] /\ sent[r][f] - 1 \in 0..MaxMessages
      BY <2>2, SignalingAssumption DEF Window, SignalingInv, SignalingTypeOK
    <3>2. [sent[r] EXCEPT ![f] = @ - 1] \in [Fps -> 0..MaxMessages]
      BY <3>1
    <3> QED BY <2>2, <3>2 DEF Window, handlers, SignalingInv, SignalingTypeOK
  <2> QED BY <2>1, <2>2 DEF signalingVars, handlers, ClientGoes
<1>3. SignalingTypeOK'
  BY <1>1, <1>2 DEF SignalingInv, SignalingTypeOK
<1>4. made' <= Cardinality(Begun')
  BY <1>1 DEF Begun, SignalingInv, Roomy
<1> QED BY <1>1, <1>3, <1>4, QuietKeeps DEF Alive

LEMMA DeregisterKeeps ==
  ASSUME SignalingInv, NEW c \in Conns, Deregister(c)
  PROVE  SignalingInv'
<1> DEFINE r == inRoom[c]
<1>0. /\ r \in Objects /\ r # 0 /\ at[c] = "cancelling" /\ partners[c] = {} /\ Fp(c) \in Fps
      /\ (room # 0 => room \in Objects) /\ room \in Nat /\ made \in Nat /\ Alive(c)
  BY SigFacts DEF Deregister, SignalingInv, Roomy, Alive
<1>1. /\ \A q \in Objects, f \in Fps : peers'[q][f] = IF q = r /\ f = Fp(c) THEN NoConn ELSE peers[q][f]
      /\ peers' \in [Objects -> [Fps -> Conns \cup {NoConn}]]
      /\ sent' \in [Objects -> [Fps -> 0..MaxMessages]]
      /\ UNCHANGED <<made, sessions, inRoom, partners, up, overlapped, late>>
  BY <1>0, SignalingAssumption DEF Deregister, SignalingInv, SignalingTypeOK
<1>2. PICK t \in {"gone", "leaving"} : at' = [at EXCEPT ![c] = t]
  BY DEF Deregister, Goes
<1>3. room' \in {room, 0} /\ (room # 0 => (room' = room <=> \E f \in Fps : peers'[room][f] # NoConn))
  <2>1. CASE Present(r) \subseteq {Fp(c)}
    <3>1. room' = CleanupRoom(peers')
      BY <2>1 DEF Deregister
    <3>2. room # 0 => (peers'[room] = Nobody <=> \A f \in Fps : peers'[room][f] = NoConn)
      BY <1>0, <1>1 DEF Nobody
    <3> QED BY <1>0, <3>1, <3>2 DEF CleanupRoom
  <2>2. CASE ~(Present(r) \subseteq {Fp(c)})
    <3>1. room' = room
      BY <2>2 DEF Deregister
    <3>2. room # 0 => Present(room) # {}
      BY DEF SignalingInv, RoomIsAlive
    <3>3. room # 0 => \E f \in Fps : peers'[room][f] # NoConn
      BY <1>0, <1>1, <2>2, <3>2 DEF Present
    <3> QED BY <3>1, <3>3
  <2> QED BY <2>1, <2>2
<1>4. at \in [Conns -> Walk]
  BY DEF SignalingInv, SignalingTypeOK, Walk
<1>5. SignalingTypeOK'
  BY <1>0, <1>1, <1>2, <1>3 DEF SignalingInv, SignalingTypeOK
<1>6. Roomy'
  <2>1. made' <= Cardinality(Begun')
    BY <1>0, <1>1, <1>2, <1>4, BegunStays DEF SignalingInv, Walk
  <2>2. \A q \in Objects : q > made' => (\A f \in Fps : peers'[q][f] = NoConn) /\ sessions'[q] = {}
    BY <1>1 DEF SignalingInv, Roomy
  <2>3. \A d \in Conns : Alive(d)' => inRoom'[d] # 0
    BY <1>0, <1>1, <1>2, <1>4 DEF SignalingInv, Roomy, Alive
  <2>4. \A q \in Objects, f \in Fps : peers'[q][f] = NoConn \/ FpOf[peers'[q][f]] = f
    BY <1>1 DEF SignalingInv, Roomy
  <2> QED BY <2>1, <2>2, <2>3, <2>4 DEF Roomy
<1>7. LoneAlone'
  BY <1>0, <1>1, <1>2, <1>4 DEF SignalingInv, LoneAlone, Rivals, Alive
<1>8. LoneIsReachable'
  <2> SUFFICES ASSUME NEW e \in Conns \ overlapped, at'[e] \in {"joining", "open", "telling"}
               PROVE  inRoom'[e] = room' /\ peers'[room'][Fp(e)] = e
    BY <1>1 DEF LoneIsReachable, Fp
  <2>1. e # c /\ at[e] \in {"joining", "open", "telling"} /\ Alive(e)
    BY <1>2, <1>4 DEF Alive
  <2>2. inRoom[e] = room /\ peers[room][Fp(e)] = e /\ inRoom[e] # 0
    BY <2>1 DEF SignalingInv, LoneIsReachable, Roomy
  <2>3. Fp(e) # Fp(c)
    BY <1>0, <2>1 DEF SignalingInv, LoneAlone, Rivals, Fp
  <2>4. peers'[room][Fp(e)] = e /\ e # NoConn /\ Fp(e) \in Fps
    BY <1>0, <1>1, <2>2, <2>3, SigFacts DEF SignalingInv
  <2> QED BY <1>1, <1>3, <2>2, <2>4
<1>9. RoomIsAlive'
  <2> SUFFICES ASSUME room' # 0 PROVE Present(room)' # {} /\ Cardinality(Present(room)') <= MaxPeers
    BY DEF RoomIsAlive
  <2>1. room' = room /\ room \in Objects /\ room # 0
    BY <1>0, <1>3
  <2>2. Present(room)' # {}
    BY <1>3, <2>1 DEF Present
  <2>3. Present(room)' \subseteq Present(room) /\ IsFiniteSet(Present(room))
    <3>1. Present(room)' \subseteq Present(room)
      BY <1>1, <2>1 DEF Present
    <3>2. peers[room] \in [Fps -> Conns \cup {NoConn}] /\ \A f \in Fps : peers[room][f] = NoConn \/ FpOf[peers[room][f]] = f
      BY <2>1 DEF SignalingInv, SignalingTypeOK, Roomy
    <3> QED BY <3>1, <3>2, PresentIsFinite DEF Present
  <2>4. Cardinality(Present(room)') <= Cardinality(Present(room)) /\ Cardinality(Present(room)') \in Nat /\ Cardinality(Present(room)) \in Nat
    BY <2>3, FS_Subset, FS_CardinalityType
  <2> QED BY <2>1, <2>2, <2>4, SignalingAssumption DEF SignalingInv, RoomIsAlive
<1>10. ASSUME room' # 0
       PROVE  /\ room' = room /\ \A s \in sessions[room] : Ended(s)' = Ended(s)
              /\ \A d \in Conns : (Active(d) => Active(d)') /\ \A s \in sessions[room] : Keeper(d, s) => Keeper(d, s)'
  <2>1. room' = room
    BY <1>3, <1>10
  <2>2. \A d \in Conns : Active(d) => Active(d)'
    BY <1>0, <1>1, <1>2, <1>4, <2>1 DEF Active
  <2>3. \A d \in Conns, s \in sessions[room] : Keeper(d, s) => Keeper(d, s)'
    BY <1>0, <1>1, <1>2, <1>4, <2>1, <2>2 DEF Keeper, Fp
  <2> QED BY <1>1, <2>1, <2>2, <2>3 DEF Ended
<1>11. SessionsKept'
  BY <1>1, <1>10 DEF SignalingInv, SessionsKept
<1>12. OwnDropped'
  <2> SUFFICES ASSUME room' # 0, NEW d \in Conns, at'[d] = "cancelling", inRoom'[d] = room',
                      NEW s \in sessions[room], s[1] = Fp(d)
               PROVE  Ended(s)' \/ \E e \in Conns : Active(e)' /\ Fp(e) = Fp(d)
    BY <1>1, <1>10 DEF OwnDropped, Fp
  <2>1. at[d] = "cancelling" /\ inRoom[d] = room /\ room # 0
    BY <1>1, <1>2, <1>4, <1>10
  <2> QED BY <1>10, <2>1 DEF SignalingInv, OwnDropped
<1> QED BY <1>5, <1>6, <1>7, <1>8, <1>9, <1>11, <1>12 DEF SignalingInv

\* A step of the removal of c that changes its sessions and partners only.
LEMMA RoomsAside ==
  ASSUME SignalingInv, NEW c \in Conns, Alive(c), UNCHANGED <<room, made, peers, inRoom, overlapped>>,
         NEW t \in Walk \ {"out"}, at' = [at EXCEPT ![c] = t], t \in {"joining", "open", "telling"} => at[c] \in {"joining", "open", "telling"},
         \A r \in Objects : r > made => sessions'[r] = {}
  PROVE  Roomy' /\ LoneAlone' /\ LoneIsReachable' /\ RoomIsAlive'
<1>1. at \in [Conns -> Walk] /\ made \in Nat /\ \A d \in Conns : Alive(d)' => Alive(d)
  BY SigFacts DEF SignalingInv, SignalingTypeOK, Walk, Alive
<1>2. made' <= Cardinality(Begun')
  BY <1>1, BegunStays DEF SignalingInv
<1>3. Roomy'
  BY <1>1, <1>2 DEF SignalingInv, Roomy
<1>4. LoneAlone'
  BY <1>1 DEF SignalingInv, LoneAlone, Rivals
<1>5. LoneIsReachable'
  BY <1>1 DEF SignalingInv, LoneIsReachable, Fp
<1>6. RoomIsAlive'
  BY DEF SignalingInv, RoomIsAlive, Present
<1> QED BY <1>3, <1>4, <1>5, <1>6

LEMMA DisconnectKeeps ==
  ASSUME SignalingInv, NEW c \in Conns, Disconnect(c)
  PROVE  SignalingInv'
<1> DEFINE r == inRoom[c]
<1>0. /\ at[c] = "open" /\ Alive(c) /\ r \in Objects /\ r # 0 /\ Fp(c) \in Fps /\ at \in [Conns -> Walk]
      /\ room # 0 => room \in Objects
  BY SigFacts DEF Disconnect, SignalingInv, Roomy, Alive, SignalingTypeOK, Walk
<1>1. /\ at' = [at EXCEPT ![c] = "cancelling"]
      /\ UNCHANGED <<room, made, peers, sent, inRoom, up, overlapped, late>>
  BY DEF Disconnect, Goes
<1>2. Own(c) \subseteq Fps \X Fps /\ \A s \in sessions[r] : s \in Own(c) <=> s[1] = Fp(c)
  BY <1>0 DEF Own, SignalingInv, SignalingTypeOK
<1>3. /\ sessions' \in [Objects -> SUBSET (Fps \X Fps)] /\ sessions'[r] = sessions[r] \ Own(c)
      /\ \A q \in Objects \ {r} : sessions'[q] = sessions[q]
  BY <1>0 DEF Disconnect, SignalingInv, SignalingTypeOK
<1>4. {s[2] : s \in Own(c)} \subseteq Fps
  BY <1>2
<1>5. /\ partners' \in [Conns -> SUBSET Fps] /\ partners'[c] = {s[2] : s \in Own(c)}
      /\ \A d \in Conns \ {c} : partners'[d] = partners[d]
  BY <1>4 DEF Disconnect, SignalingInv, SignalingTypeOK
<1>6. SignalingTypeOK'
  BY <1>1, <1>3, <1>5 DEF SignalingInv, SignalingTypeOK
<1>7. Roomy' /\ LoneAlone' /\ LoneIsReachable' /\ RoomIsAlive'
  <2>1. \A q \in Objects : q > made => sessions'[q] = {}
    BY <1>3, <1>0 DEF SignalingInv, Roomy
  <2> QED BY <1>0, <1>1, <2>1, RoomsAside DEF Walk
<1>8. ASSUME room # 0, r # room PROVE SessionsKept' /\ OwnDropped'
  <2>1. \A d \in Conns : Active(d)' = Active(d)
    BY <1>1, <1>0, <1>8 DEF Active
  <2>2. \A d \in Conns : \A s : Keeper(d, s) => Keeper(d, s)'
    BY <1>0, <1>1, <1>3, <1>5, <1>8, <2>1 DEF Keeper, Fp
  <2>3. SessionsKept'
    BY <1>0, <1>1, <1>3, <1>8, <2>2 DEF SignalingInv, SessionsKept, Ended
  <2>4. OwnDropped'
    <3> SUFFICES ASSUME NEW d \in Conns, at'[d] = "cancelling", inRoom'[d] = room,
                        NEW s \in sessions[room], s[1] = Fp(d)
                 PROVE  Ended(s)' \/ \E e \in Conns : Active(e)' /\ Fp(e) = Fp(d)
      BY <1>0, <1>1, <1>3, <1>8 DEF OwnDropped, Fp
    <3>1. at[d] = "cancelling" /\ inRoom[d] = room
      BY <1>0, <1>1, <1>8
    <3> QED BY <1>1, <1>8, <2>1, <3>1 DEF SignalingInv, OwnDropped, Ended
  <2> QED BY <2>3, <2>4
<1>9. ASSUME room # 0, r = room PROVE SessionsKept' /\ OwnDropped'
  <2>1. \A d \in Conns \ {c} : Active(d)' = Active(d)
    BY <1>1, <1>0, <1>9 DEF Active
  <2>2. ASSUME NEW s \in sessions[room], s[1] # Fp(c), NEW d \in Conns, Keeper(d, s)
        PROVE  \E e \in Conns : Keeper(e, s)'
    <3>1. s \in Fps \X Fps
      BY <1>0, <1>9 DEF SignalingInv, SignalingTypeOK
    <3>2. CASE s[2] = Fp(c) /\ <<s[2], s[1]>> \in sessions[room]
      <4>1. <<s[2], s[1]>> \in Own(c)
        BY <1>9, <3>2 DEF Own
      <4>2. s[1] \in partners'[c]
        BY <1>5, <4>1
      <4> QED BY <1>0, <1>1, <1>9, <3>2, <4>2 DEF Keeper, Fp
    <3>3. CASE ~(s[2] = Fp(c) /\ <<s[2], s[1]>> \in sessions[room])
      <4>1. d # c
        BY <1>0, <2>2, <3>3 DEF Keeper
      <4>2. <<s[2], s[1]>> \in sessions[room] => <<s[2], s[1]>> \in sessions'[room]
        BY <1>2, <1>3, <1>9, <3>3
      <4> QED BY <1>1, <1>0, <1>5, <2>1, <2>2, <4>1, <4>2 DEF Keeper, Fp
    <3> QED BY <3>2, <3>3
  <2>3. SessionsKept'
    BY <1>1, <1>2, <1>3, <1>9, <2>2 DEF SignalingInv, SessionsKept, Ended
  <2>4. OwnDropped'
    <3> SUFFICES ASSUME NEW d \in Conns, at'[d] = "cancelling", inRoom'[d] = room,
                        NEW s \in sessions'[room], s[1] = Fp(d)
                 PROVE  Ended(s)' \/ \E e \in Conns : Active(e)' /\ Fp(e) = Fp(d)
      BY <1>1 DEF OwnDropped, Fp
    <3>1. s \in sessions[room] /\ Fp(d) # Fp(c)
      BY <1>2, <1>3, <1>9
    <3>2. at[d] = "cancelling" /\ inRoom[d] = room
      BY <1>0, <1>1, <3>1
    <3> QED BY <1>1, <1>9, <2>1, <3>1, <3>2 DEF SignalingInv, OwnDropped, Ended
  <2> QED BY <2>3, <2>4
<1>10. SessionsKept' /\ OwnDropped'
  BY <1>1, <1>8, <1>9 DEF SessionsKept, OwnDropped
<1> QED BY <1>6, <1>7, <1>10 DEF SignalingInv

LEMMA CancelIceKeeps ==
  ASSUME SignalingInv, NEW c \in Conns, NEW p \in Fps, CancelIce(c, p)
  PROVE  SignalingInv'
<1> DEFINE r == inRoom[c]
<1>0. /\ at[c] = "cancelling" /\ Alive(c) /\ r \in Objects /\ r # 0 /\ Fp(c) \in Fps /\ at \in [Conns -> Walk]
      /\ room # 0 => room \in Objects
  BY SigFacts DEF CancelIce, SignalingInv, Roomy, Alive, SignalingTypeOK, Walk
<1>1. UNCHANGED <<room, made, peers, sent, at, inRoom, up, overlapped, late>>
  BY DEF CancelIce
<1>2. /\ sessions' \in [Objects -> SUBSET (Fps \X Fps)] /\ sessions'[r] = sessions[r] \ {<<p, Fp(c)>>}
      /\ \A q \in Objects \ {r} : sessions'[q] = sessions[q]
  BY <1>0 DEF CancelIce, DropReverse, SignalingInv, SignalingTypeOK
<1>3. /\ partners' \in [Conns -> SUBSET Fps] /\ partners'[c] = partners[c] \ {p}
      /\ \A d \in Conns \ {c} : partners'[d] = partners[d]
  BY DEF CancelIce, SignalingInv, SignalingTypeOK
<1>4. SignalingTypeOK'
  BY <1>1, <1>2, <1>3 DEF SignalingInv, SignalingTypeOK
<1>5. Roomy' /\ LoneAlone' /\ LoneIsReachable' /\ RoomIsAlive'
  <2>1. \A q \in Objects : q > made => sessions'[q] = {}
    BY <1>2, <1>0 DEF SignalingInv, Roomy
  <2>2. at' = [at EXCEPT ![c] = "cancelling"] /\ "cancelling" \in Walk \ {"out"}
    BY <1>0, <1>1 DEF Walk
  <2> QED BY <1>0, <1>1, <2>1, <2>2, RoomsAside
<1>6. \A d \in Conns : (Active(d)' <=> Active(d)) /\ \A s : Ended(s)' = Ended(s)
  BY <1>1 DEF Active, Ended
<1>7. OwnDropped'
  BY <1>0, <1>1, <1>2, <1>6 DEF SignalingInv, OwnDropped, Fp
<1>8. SessionsKept'
  <2> SUFFICES ASSUME room # 0, NEW s \in sessions'[room]
               PROVE  Ended(s)' \/ \E d \in Conns : Keeper(d, s)'
    BY <1>1 DEF SessionsKept
  <2>1. s \in sessions[room] /\ s \in Fps \X Fps
    BY <1>0, <1>2 DEF SignalingInv, SignalingTypeOK
  <2>2. CASE Ended(s)
    BY <1>6, <2>2
  <2>3. ASSUME NEW d \in Conns, Keeper(d, s) PROVE Ended(s)' \/ \E e \in Conns : Keeper(e, s)'
    <3>1. CASE Active(d) /\ Fp(d) = s[1]
      BY <1>6, <3>1 DEF Keeper, Fp
    <3>2. CASE Active(d) /\ Fp(d) = s[2] /\ <<s[2], s[1]>> \in sessions[room] /\ <<s[2], s[1]>> \in sessions'[room]
      BY <1>1, <1>6, <3>2 DEF Keeper, Fp
    <3>3. CASE Active(d) /\ Fp(d) = s[2] /\ <<s[2], s[1]>> \in sessions[room] /\ <<s[2], s[1]>> \notin sessions'[room]
      <4>1. r = room /\ s[1] = Fp(c)
        BY <1>0, <1>2, <3>3
      <4>2. Ended(s) \/ \E e \in Conns : Active(e) /\ Fp(e) = Fp(c)
        BY <1>0, <2>1, <4>1 DEF SignalingInv, OwnDropped
      <4> QED BY <1>6, <4>1, <4>2 DEF Keeper, Fp
    <3>4. CASE at[d] = "cancelling" /\ inRoom[d] = room /\ Fp(d) = s[2] /\ s[1] \in partners[d]
      <4>1. s[1] \in partners'[d]
        <5>1. CASE d = c /\ s[1] = p
          <6>1. s = <<p, Fp(c)>>
            BY <2>1, <3>4, <5>1
          <6> QED BY <1>2, <3>4, <5>1, <6>1
        <5> QED BY <1>3, <3>4, <5>1
      <4> QED BY <1>1, <3>4, <4>1 DEF Keeper, Fp
    <3> QED BY <2>3, <3>1, <3>2, <3>3, <3>4 DEF Keeper
  <2> QED BY <2>1, <2>2, <2>3 DEF SignalingInv, SessionsKept
<1> QED BY <1>4, <1>5, <1>7, <1>8 DEF SignalingInv

LEMMA RelayKeeps ==
  ASSUME SignalingInv, NEW c \in Conns, NEW to \in Fps, NEW candidate \in BOOLEAN, Relay(c, to, candidate)
  PROVE  SignalingInv'
<1> DEFINE r == inRoom[c]
           new == {<<Fp(c), to>>, <<to, Fp(c)>>}
<1>0. /\ at[c] = "open" /\ Alive(c) /\ r \in Objects /\ r # 0 /\ Fp(c) \in Fps /\ at \in [Conns -> Walk]
      /\ (room # 0 => room \in Objects) /\ r <= made
  BY SigFacts DEF Relay, SignalingInv, Roomy, Alive, SignalingTypeOK, Walk
<1>1. UNCHANGED <<room, made, peers, inRoom, partners, up, overlapped>> /\ late \subseteq late' /\ late' \subseteq Fps
  BY <1>0 DEF Relay, SignalingInv, SignalingTypeOK
<1>2. PICK t \in {"open", "telling"} : at' = [at EXCEPT ![c] = t]
  BY <1>0 DEF Relay, Goes, SignalingInv, SignalingTypeOK
<1>3. sent' \in [Objects -> [Fps -> 0..MaxMessages]]
  <2>1. sent[r] \in [Fps -> 0..MaxMessages] /\ sent[r][Fp(c)] + 1 \in 0..MaxMessages
    BY <1>0, SignalingAssumption DEF Relay, IsRateLimited, SignalingInv, SignalingTypeOK
  <2>2. [sent[r] EXCEPT ![Fp(c)] = @ + 1] \in [Fps -> 0..MaxMessages]
    BY <2>1
  <2> QED BY <2>2 DEF Relay, SignalingInv, SignalingTypeOK
<1>4. /\ sessions' \in [Objects -> SUBSET (Fps \X Fps)]
      /\ \A q \in Objects \ {r} : sessions'[q] = sessions[q]
      /\ \/ sessions'[r] = sessions[r]
         \/ sessions'[r] = sessions[r] \cup new /\ (BeingRemoved(to) => {Fp(c), to} \subseteq late')
  <2>1. CASE sessions' = sessions
    BY <2>1 DEF SignalingInv, SignalingTypeOK
  <2>2. CASE sessions' # sessions
    <3>1. sessions' = [sessions EXCEPT ![r] = @ \cup new] /\ (BeingRemoved(to) => {Fp(c), to} \subseteq late')
      BY <2>2 DEF Relay
    <3>2. new \subseteq Fps \X Fps
      BY <1>0
    <3> QED BY <1>0, <3>1, <3>2 DEF SignalingInv, SignalingTypeOK
  <2> QED BY <2>1, <2>2
<1>5. SignalingTypeOK'
  BY <1>1, <1>2, <1>3, <1>4 DEF SignalingInv, SignalingTypeOK
<1>6. Roomy' /\ LoneAlone' /\ LoneIsReachable' /\ RoomIsAlive'
  <2>1. \A q \in Objects : q > made => sessions'[q] = {}
    <3>1. made \in Nat /\ r \in Nat
      BY <1>0, SigFacts DEF SignalingInv, Objects
    <3> QED BY <1>0, <1>4, <3>1 DEF SignalingInv, Roomy, Objects
  <2> QED BY <1>0, <1>1, <1>2, <2>1, RoomsAside DEF Walk
<1>7. \A d \in Conns : Active(d)' <=> Active(d)
  BY <1>0, <1>1, <1>2 DEF Active
<1>8. \A s : Ended(s) => Ended(s)'
  BY <1>1 DEF Ended
<1>9. \A d \in Conns, s \in sessions[room] : room # 0 /\ Keeper(d, s) => Keeper(d, s)'
  <2>1. room # 0 => sessions[room] \subseteq sessions'[room]
    BY <1>0, <1>4
  <2>2. \A d \in Conns : at[d] = "cancelling" => at'[d] = "cancelling"
    BY <1>0, <1>2
  <2> QED BY <1>1, <1>7, <2>1, <2>2 DEF Keeper, Fp
<1>10. ASSUME room # 0, NEW s \in sessions'[room], s \notin sessions[room]
       PROVE  r = room /\ s \in new /\ new \subseteq sessions'[room] /\ Active(c) /\ (BeingRemoved(to) => {Fp(c), to} \subseteq late')
  BY <1>0, <1>4, <1>10 DEF Active
<1>11. SessionsKept'
  <2> SUFFICES ASSUME room # 0, NEW s \in sessions'[room]
               PROVE  Ended(s)' \/ \E d \in Conns : Keeper(d, s)'
    BY <1>1 DEF SessionsKept
  <2>1. CASE s \in sessions[room]
    BY <1>8, <1>9, <2>1 DEF SignalingInv, SessionsKept
  <2>2. CASE s \notin sessions[room]
    <3>1. s \in new /\ new \subseteq sessions'[room] /\ Active(c)'
      BY <1>7, <1>10, <2>2
    <3>2. Keeper(c, s)'
      BY <1>1, <3>1 DEF Keeper, Fp
    <3> QED BY <3>2
  <2> QED BY <2>1, <2>2
<1>12. OwnDropped'
  <2> SUFFICES ASSUME room # 0, NEW d \in Conns, at'[d] = "cancelling", inRoom'[d] = room,
                      NEW s \in sessions'[room], s[1] = Fp(d)
               PROVE  Ended(s)' \/ \E e \in Conns : Active(e)' /\ Fp(e) = Fp(d)
    BY <1>1 DEF OwnDropped, Fp
  <2>1. at[d] = "cancelling" /\ inRoom[d] = room
    BY <1>0, <1>1, <1>2
  <2>2. CASE s \in sessions[room]
    BY <1>7, <1>8, <2>1, <2>2 DEF SignalingInv, OwnDropped
  <2>3. CASE s \notin sessions[room]
    <3>1. s \in new /\ Active(c)' /\ (BeingRemoved(to) => {Fp(c), to} \subseteq late')
      BY <1>7, <1>10, <2>3
    <3>2. CASE Fp(d) = Fp(c)
      BY <3>1, <3>2
    <3>3. CASE Fp(d) # Fp(c)
      <4>1. Fp(d) = to /\ FpOf[d] = to
        BY <3>1, <3>3 DEF Fp
      <4>2. BeingRemoved(to)
        BY <2>1, <4>1 DEF BeingRemoved
      <4>3. s = <<to, Fp(c)>> /\ to \in late'
        BY <3>1, <3>3, <4>1, <4>2
      <4> QED BY <4>3 DEF Ended
    <3> QED BY <3>2, <3>3
  <2> QED BY <2>2, <2>3
<1> QED BY <1>5, <1>6, <1>11, <1>12 DEF SignalingInv

LEMMA ConnectKeeps ==
  ASSUME SignalingInv, NEW c \in Conns, Connect(c)
  PROVE  SignalingInv'
<1> DEFINE r == RoomFor
<1>0. /\ at[c] = "out" /\ ~Alive(c) /\ Fp(c) \in Fps /\ FpOf[c] = Fp(c) /\ c # NoConn /\ at \in [Conns -> Walk]
      /\ room \in Nat /\ made \in Nat /\ room <= made /\ (room # 0 => room \in Objects)
  BY SigFacts DEF Connect, SignalingInv, Alive, SignalingTypeOK, Walk
<1>1. /\ r \in Objects /\ r # 0 /\ room' = r /\ made' \in Nat /\ r <= made' /\ made <= made' /\ made' \in 0..Cardinality(Conns)
      /\ (room # 0 => r = room /\ made' = made) /\ (room = 0 => r > made)
      /\ made' <= Cardinality(Begun')
  <2>1. made + 1 \in 1..Cardinality(Conns) /\ made + 1 <= Cardinality(Begun \cup {c}) /\ made <= Cardinality(Begun)
    BY <1>0, BegunFacts DEF SignalingInv, Roomy
  <2>2. Begun' = Begun \cup {c}
    BY <1>0 DEF Connect, Goes, Begun
  <2>3. IsFiniteSet(Begun) /\ IsFiniteSet(Begun \cup {c})
    <3>1. Begun \cup {c} \subseteq Conns /\ Begun \subseteq Conns
      BY DEF Begun
    <3> QED BY <3>1, SignalingAssumption, FS_Subset
  <2>4. Cardinality(Begun) <= Cardinality(Begun \cup {c}) /\ Cardinality(Begun) \in Nat /\ Cardinality(Begun \cup {c}) \in Nat
    BY <2>3, FS_Subset, FS_CardinalityType
  <2>5. made' <= Cardinality(Begun \cup {c})
    BY <1>0, <2>1, <2>4 DEF Connect
  <2>6. made \in 0..Cardinality(Conns) /\ Cardinality(Conns) \in Nat
    BY SigFacts DEF SignalingInv
  <2> QED BY <1>0, <2>1, <2>2, <2>5, <2>6 DEF Connect, RoomFor, Objects
<1> HIDE DEF r
<1>2. /\ \A q \in Objects, f \in Fps : peers'[q][f] = IF q = r /\ f = Fp(c) THEN c ELSE peers[q][f]
      /\ peers' \in [Objects -> [Fps -> Conns \cup {NoConn}]]
  <2>1. peers' = [peers EXCEPT ![r][Fp(c)] = c]
    BY <1>0 DEF Connect, r
  <2> QED BY <1>0, <1>1, <2>1 DEF SignalingInv, SignalingTypeOK
<1>3. /\ at' = [at EXCEPT ![c] = "joining"] /\ inRoom' = [inRoom EXCEPT ![c] = r] /\ up' = up \cup {c}
      /\ overlapped \subseteq overlapped' /\ (Rivals(c) # {} => Rivals(c) \cup {c} \subseteq overlapped')
      /\ overlapped' \subseteq Conns /\ UNCHANGED <<sessions, sent, partners, late>>
  BY DEF Connect, Goes, Rivals, SignalingInv, SignalingTypeOK, r
<1>4. SignalingTypeOK'
  <2>1. inRoom' \in [Conns -> 0..made']
    <3>1. r \in 0..made' /\ \A n \in 0..made : n \in 0..made'
      BY <1>0, <1>1 DEF Objects
    <3>2. inRoom \in [Conns -> 0..made]
      BY DEF SignalingInv, SignalingTypeOK
    <3> QED BY <1>3, <3>1, <3>2
  <2>2. at' \in [Conns -> {"out", "joining", "open", "telling", "cancelling", "leaving", "gone"}]
    BY <1>3 DEF SignalingInv, SignalingTypeOK
  <2> QED BY <1>0, <1>1, <1>2, <1>3, <2>1, <2>2 DEF SignalingInv, SignalingTypeOK
<1>5. Roomy'
  <2>1. \A q \in Objects : q > made' => q > made /\ q # r
    BY <1>0, <1>1 DEF Objects
  <2>2. \A q \in Objects : q > made' => (\A f \in Fps : peers'[q][f] = NoConn) /\ sessions'[q] = {}
    BY <1>2, <1>3, <2>1 DEF SignalingInv, Roomy
  <2>3. \A d \in Conns : Alive(d)' => inRoom'[d] # 0
    BY <1>1, <1>3 DEF SignalingInv, SignalingTypeOK, Roomy, Alive
  <2>4. \A q \in Objects, f \in Fps : peers'[q][f] = NoConn \/ FpOf[peers'[q][f]] = f
    BY <1>0, <1>2 DEF SignalingInv, Roomy
  <2> QED BY <1>1, <2>2, <2>3, <2>4 DEF Roomy
<1>6. LoneAlone'
  <2> SUFFICES ASSUME NEW e \in Conns \ overlapped', Alive(e)', NEW d \in Rivals(e)' PROVE FALSE
    BY DEF LoneAlone
  <2>1. d \in Conns /\ d # e /\ FpOf[d] = FpOf[e] /\ Alive(d)'
    BY DEF Rivals
  <2>2. Rivals(c) = {} \/ (e # c /\ e \notin Rivals(c))
    BY <1>3
  <2>3. CASE e = c
    BY <1>3, <2>1, <2>2, <2>3 DEF Rivals, Alive
  <2>4. CASE e # c
    <3>1. Alive(e) /\ e \notin overlapped
      BY <1>3, <2>4 DEF Alive
    <3>2. d # c => d \in Rivals(e)
      BY <1>3, <2>1 DEF Rivals, Alive
    <3>3. d = c => e \in Rivals(c)
      BY <2>1, <2>4, <3>1 DEF Rivals
    <3> QED BY <2>2, <3>1, <3>2, <3>3 DEF SignalingInv, LoneAlone
  <2> QED BY <2>3, <2>4
<1>7. LoneIsReachable'
  <2> SUFFICES ASSUME NEW e \in Conns \ overlapped', at'[e] \in {"joining", "open", "telling"}
               PROVE  inRoom'[e] = r /\ peers'[r][Fp(e)] = e
    BY <1>1 DEF LoneIsReachable, Fp
  <2>1. CASE e = c
    BY <1>0, <1>1, <1>2, <1>3, <2>1 DEF SignalingInv, SignalingTypeOK
  <2>2. CASE e # c
    <3>1. at[e] \in {"joining", "open", "telling"} /\ Alive(e) /\ Alive(e)' /\ e \notin overlapped
      BY <1>3, <2>2 DEF Alive
    <3>2. inRoom[e] = room /\ peers[room][Fp(e)] = e /\ inRoom[e] # 0
      BY <3>1 DEF SignalingInv, LoneIsReachable, Roomy
    <3>3. Fp(e) # Fp(c)
      <4>1. Alive(c)'
        BY <1>0, <1>3 DEF Alive
      <4>2. c \notin Rivals(e)'
        BY <1>6, <3>1 DEF LoneAlone
      <4> QED BY <2>2, <4>1, <4>2 DEF Rivals, Fp
    <3>4. Fp(e) \in Fps /\ r = room /\ room \in Objects
      BY <1>0, <1>1, <3>2, SigFacts DEF SignalingInv
    <3> QED BY <1>2, <1>3, <2>2, <3>2, <3>3, <3>4
  <2> QED BY <2>1, <2>2
<1>8. RoomIsAlive'
  <2> DEFINE P == {f \in Fps : peers[r][f] # NoConn}
  <2>1. Present(room)' = P \cup {Fp(c)}
    BY <1>0, <1>1, <1>2 DEF Present
  <2>2. IsFiniteSet(P)
    <3>1. peers[r] \in [Fps -> Conns \cup {NoConn}] /\ \A f \in Fps : peers[r][f] = NoConn \/ FpOf[peers[r][f]] = f
      BY <1>1 DEF SignalingInv, SignalingTypeOK, Roomy
    <3> QED BY <3>1, PresentIsFinite
  <2>3. Cardinality(P) < MaxPeers
    <3>1. CASE room # 0
      <4>1. ~IsFull(room) /\ P = Present(room)
        BY <1>1, <3>1 DEF Connect, Present
      <4>2. Cardinality(P) \in Nat /\ ~(Cardinality(P) >= MaxPeers)
        BY <2>2, <4>1, FS_CardinalityType DEF IsFull
      <4> QED BY <4>2, SignalingAssumption
    <3>2. CASE room = 0
      <4>1. P = {}
        BY <1>1, <3>2 DEF SignalingInv, Roomy
      <4>2. Cardinality(P) = 0
        BY <4>1, FS_EmptySet
      <4> QED BY <4>2, SignalingAssumption
    <3> QED BY <3>1, <3>2
  <2> HIDE DEF P
  <2>4. Cardinality(P \cup {Fp(c)}) <= Cardinality(P) + 1 /\ Cardinality(P) \in Nat /\ Cardinality(P \cup {Fp(c)}) \in Nat
    <3>1. Cardinality(P \cup {Fp(c)}) = IF Fp(c) \in P THEN Cardinality(P) ELSE Cardinality(P) + 1
      BY <2>2, FS_AddElement
    <3>2. Cardinality(P) \in Nat
      BY <2>2, FS_CardinalityType
    <3> QED BY <3>1, <3>2
  <2>5. Cardinality(P \cup {Fp(c)}) <= MaxPeers /\ P \cup {Fp(c)} # {}
    BY <2>3, <2>4, SignalingAssumption
  <2> QED BY <2>1, <2>5 DEF RoomIsAlive
<1>9. SessionsKept' /\ OwnDropped'
  <2>1. CASE room = 0
    <3>1. sessions'[room'] = {}
      BY <1>1, <1>3, <2>1 DEF SignalingInv, Roomy
    <3> QED BY <3>1 DEF SessionsKept, OwnDropped
  <2>2. CASE room # 0
    <3>1. room' = room
      BY <1>1, <2>2
    <3>2. \A d \in Conns : (Active(d)' <=> Active(d)) /\ (at'[d] = "cancelling" /\ inRoom'[d] = room <=> at[d] = "cancelling" /\ inRoom[d] = room)
      BY <1>0, <1>3, <3>1 DEF Active, SignalingInv, SignalingTypeOK
    <3>3. \A d \in Conns : \A s : (Keeper(d, s) => Keeper(d, s)') /\ Ended(s)' = Ended(s)
      BY <1>3, <3>1, <3>2 DEF Keeper, Ended, Fp
    <3>4. SessionsKept'
      BY <1>3, <2>2, <3>1, <3>3 DEF SignalingInv, SessionsKept
    <3>5. OwnDropped'
      BY <1>3, <2>2, <3>1, <3>2, <3>3 DEF SignalingInv, OwnDropped, Fp
    <3> QED BY <3>4, <3>5
  <2> QED BY <2>1, <2>2
<1> QED BY <1>4, <1>5, <1>6, <1>7, <1>8, <1>9 DEF SignalingInv

LEMMA SignalingBegins == SignalingInit => SignalingInv
<1> SUFFICES ASSUME SignalingInit PROVE SignalingInv
  OBVIOUS
<1>1. SignalingTypeOK
  BY SignalingAssumption, FS_CardinalityType DEF SignalingInit, SignalingTypeOK, Nobody
<1>2. Roomy
  <2>1. Begun = {}
    BY DEF SignalingInit, Begun
  <2>2. Cardinality(Begun) = 0
    BY <2>1, FS_EmptySet
  <2> QED BY <2>2 DEF SignalingInit, Roomy, Nobody, Alive
<1>3. \A c \in Conns : at[c] = "out" /\ ~Alive(c)
  BY DEF SignalingInit, Alive
<1>4. LoneAlone /\ LoneIsReachable
  BY <1>3 DEF LoneAlone, LoneIsReachable
<1> QED BY <1>1, <1>2, <1>4 DEF SignalingInit, SignalingInv, RoomIsAlive, SessionsKept, OwnDropped

LEMMA SignalingStep == SignalingInv /\ [SignalingNext]_signalingVars => SignalingInv'
<1> SUFFICES ASSUME SignalingInv, [SignalingNext]_signalingVars PROVE SignalingInv'
  OBVIOUS
<1>1. CASE UNCHANGED signalingVars
  BY <1>1, StillStep
<1>2. CASE SignalingNext
  BY <1>2, StillStep, QuietStep, ConnectKeeps, DisconnectKeeps, CancelIceKeeps, RelayKeeps, DeregisterKeeps
     DEF SignalingNext
<1> QED BY <1>1, <1>2

LEMMA SignalingHolds == SignalingInv => SignalingKeeps
<1> SUFFICES ASSUME SignalingInv PROVE SignalingKeeps
  OBVIOUS
<1>1. SessionsEnd
  <2> SUFFICES ASSUME room # 0, NEW s \in sessions[room], ~Ended(s)
               PROVE  \E c \in Conns : Alive(c) /\ inRoom[c] = room /\ FpOf[c] \in {s[1], s[2]}
    BY DEF SessionsEnd, Ended
  <2>1. PICK c \in Conns : Keeper(c, s)
    BY DEF SignalingInv, SessionsKept
  <2> QED BY <2>1 DEF Keeper, Active, Alive, Fp
<1> QED BY <1>1 DEF SignalingInv, SignalingKeeps

(* Connections, rooms and sessions agree (signaling.py, "the single source *)
(* of truth for all active signaling sessions"): the only connection of a  *)
(* fingerprint is the one its peers reach, a room is there while somebody  *)
(* is in it and never over its maximum, and a session ends with its peers. *)
THEOREM SignalsFindTheirRoom == SignalingSpec => [](SignalingTypeOK /\ SignalingKeeps)
<1>1. SignalingInv => SignalingTypeOK
  BY DEF SignalingInv
<1>. QED BY <1>1, SignalingBegins, SignalingStep, SignalingHolds, PTL DEF SignalingSpec

-------------------------------------------------------------------------------
(* The trust stores.  As long as one client at a time changes the pins, its *)
(* copy of them differs from the file in the handle it is about only.       *)

Asking == [step : {"verify", "pin", "trust", "load", "merge", "upsert"}, goal : Goals,
           of : Handles, key : Keys]
\* An armor without a fingerprint that is on its way into a discovered peer's file.
Filing == [step : {"merge", "upsert"}, goal : Goals, of : Handles, key : {NoPrint}]
Saving == [step : {"write", "replace"}, goal : Goals, of : Handles, key : Keys,
           file : Stores, copy : Copies]

OnePinner == \A a, b \in Clients : a # b => ~(Pinning(client[a]) /\ Pinning(client[b]))

\* The keys that were trusted or re-pinned for a handle.
Vouched(h) == trusted[h] \cup repinned[h]
CopyVouched(copy) == \A h \in Handles : copy[h] # NoKey => copy[h].key \in Vouched(h)

PinsVouched ==
  /\ store["pins"] # Garbled /\ CopyVouched(store["pins"])
  /\ \A h \in Handles : /\ trusted[h] # {} => store["pins"][h] # NoKey
                        /\ \A a, b \in trusted[h] \ repinned[h] : a = b
PeersVouched ==
  /\ store["peers"] # Garbled => CopyVouched(store["peers"])
  /\ temp["peers"] # NoKey => CopyVouched(temp["peers"])
  /\ \A h \in Handles : directory[h] \in Vouched(h) \cup {NoKey, NoPrint}
AsksRightly(t) ==
  /\ t.goal # "repin"
  /\ t.step = "pin" => store["pins"][t.of] = NoKey
  /\ t.step \notin {"verify", "pin"} => t.key \in Vouched(t.of)
  /\ t.step = "trust" => store["pins"][t.of] # NoKey
SavesRightly(t) ==
  /\ t.file = "peers" => CopyVouched(t.copy)
  /\ t.file = "pins" =>
       /\ \E b \in BOOLEAN : t.copy = [store["pins"] EXCEPT ![t.of] = [key |-> t.key, armor |-> b]]
       /\ IF t.goal = "repin" THEN t.key \in repinned[t.of] ELSE store["pins"][t.of] = NoKey
       /\ t.step = "replace" => temp["pins"] \in {NoKey, t.copy}
Rightly(t) ==
  /\ (t \in Asking => AsksRightly(t)) /\ (t \in Saving => SavesRightly(t))
  /\ t \in Filing => t.goal # "repin"

TrustInv ==
  /\ TrustTypeOK
  /\ ~contended => /\ OnePinner /\ PinsVouched /\ PeersVouched
                   /\ \A c \in Clients : Rightly(client[c])

-------------------------------------------------------------------------------
LEMMA TaskFacts ==
  /\ Clientele = {Done} \cup Asking \cup Filing \cup Saving
  /\ Done.step = "done" /\ Done \notin Asking /\ Done \notin Filing /\ Done \notin Saving
  /\ \A t \in Asking : t \notin Saving /\ t \notin Filing /\ t \in Clientele
       /\ t.step \in {"verify", "pin", "trust", "load", "merge", "upsert"}
       /\ t.goal \in Goals /\ t.of \in Handles /\ t.key \in Keys
       /\ (Pinning(t) <=> t.step = "pin")
  /\ \A t \in Filing : t \notin Saving /\ t \notin Asking /\ t \in Clientele
       /\ t.step \in {"merge", "upsert"} /\ t.goal \in Goals /\ t.of \in Handles
       /\ t.key = NoPrint /\ ~Pinning(t)
  /\ \A t \in Saving : t \notin Asking /\ t \notin Filing /\ t \in Clientele
       /\ t.step \in {"write", "replace"} /\ t.goal \in Goals /\ t.of \in Handles /\ t.key \in Keys
       /\ t.file \in Stores /\ t.copy \in Copies /\ (Pinning(t) <=> t.file = "pins")
  /\ ~Pinning(Done)
<1>1. \A t \in Asking : t.step \in {"verify", "pin", "trust", "load", "merge", "upsert"}
       /\ t.goal \in Goals /\ t.of \in Handles /\ t.key \in Keys
       /\ (Pinning(t) <=> t.step = "pin")
  BY DEF Asking, Pinning, Writing
<1>2. \A t \in Saving : t.step \in {"write", "replace"}
       /\ t.goal \in Goals /\ t.of \in Handles /\ t.key \in Keys
       /\ t.file \in Stores /\ t.copy \in Copies /\ (Pinning(t) <=> t.file = "pins")
  BY DEF Saving, Pinning, Writing
<1>3. Done.step = "done" /\ ~Pinning(Done)
  BY DEF Done, Pinning, Writing
<1>4. Clientele = {Done} \cup Asking \cup Filing \cup Saving
  BY DEF Clientele, Asking, Filing, Saving
<1>5. \A t \in Filing :
       /\ t.step \in {"merge", "upsert"} /\ t.goal \in Goals /\ t.of \in Handles
       /\ t.key = NoPrint /\ ~Pinning(t)
  BY DEF Filing, Pinning, Writing
<1>. HIDE DEF Asking, Filing, Saving, Done
<1>. QED BY <1>1, <1>2, <1>3, <1>4, <1>5, TrustAssumption

\* A client goes on with another step, or begins to save.
LEMMA GoesOn ==
  ASSUME NEW t \in Asking, NEW s \in {"verify", "pin", "trust", "load", "merge", "upsert"}
  PROVE  /\ [t EXCEPT !.step = s] \in Asking /\ [t EXCEPT !.step = s].step = s
         /\ [t EXCEPT !.step = s].goal = t.goal /\ [t EXCEPT !.step = s].of = t.of
         /\ [t EXCEPT !.step = s].key = t.key
BY DEF Asking

LEMMA SavesOn ==
  ASSUME NEW t \in Saving
  PROVE  /\ [t EXCEPT !.step = "replace"] \in Saving /\ [t EXCEPT !.step = "replace"].step = "replace"
         /\ [t EXCEPT !.step = "replace"].goal = t.goal /\ [t EXCEPT !.step = "replace"].of = t.of
         /\ [t EXCEPT !.step = "replace"].key = t.key /\ [t EXCEPT !.step = "replace"].file = t.file
         /\ [t EXCEPT !.step = "replace"].copy = t.copy
BY DEF Saving

LEMMA FilesOn ==
  ASSUME NEW g \in Goals, NEW h \in Handles, NEW s \in {"merge", "upsert"}
  PROVE  /\ [step |-> s, goal |-> g, of |-> h, key |-> NoPrint] \in Filing
         /\ [step |-> s, goal |-> g, of |-> h, key |-> NoPrint].goal = g
BY DEF Filing

\* What a client takes into the file of a discovered peer.
LEMMA MergingOn ==
  ASSUME NEW t \in Asking \cup Filing, NEW k \in Keys \cup {NoPrint}
  PROVE  /\ k \in Keys => [t EXCEPT !.step = "upsert", !.key = k] \in Asking
         /\ k = NoPrint => [t EXCEPT !.step = "upsert", !.key = k] \in Filing
         /\ [t EXCEPT !.step = "upsert", !.key = k].step = "upsert"
         /\ [t EXCEPT !.step = "upsert", !.key = k].goal = t.goal
         /\ [t EXCEPT !.step = "upsert", !.key = k].of = t.of
         /\ [t EXCEPT !.step = "upsert", !.key = k].key = k
<1>1. CASE t \in Asking
  BY <1>1 DEF Asking, Filing
<1>2. CASE t \in Filing
  BY <1>2 DEF Asking, Filing
<1>. QED BY <1>1, <1>2

LEMMA BeginsToSave ==
  ASSUME NEW g \in Goals, NEW h \in Handles, NEW k \in Keys, NEW f \in Stores, NEW copy \in Copies
  PROVE  [step |-> "write", goal |-> g, of |-> h, key |-> k, file |-> f, copy |-> copy] \in Saving
BY DEF Saving

LEMMA BeginsToAsk ==
  ASSUME NEW s \in {"verify", "trust"}, NEW g \in Goals, NEW h \in Handles, NEW k \in Keys
  PROVE  [step |-> s, goal |-> g, of |-> h, key |-> k] \in Asking
BY DEF Asking

\* A client that does something else, in the eyes of all.
LEMMA ClientsAfter ==
  ASSUME TrustTypeOK, NEW c \in Clients, NEW t \in Clientele, Becomes(c, t)
  PROVE  /\ client' \in [Clients -> Clientele] /\ contended' \in BOOLEAN
         /\ client'[c] = t /\ \A d \in Clients \ {c} : client'[d] = client[d]
         /\ ~contended' => ~contended /\ OnePinner'
<1>1. client' = [client EXCEPT ![c] = t] /\ client \in [Clients -> Clientele]
  BY DEF Becomes, TrustTypeOK
<1>2. client' \in [Clients -> Clientele] /\ client'[c] = t
      /\ \A d \in Clients \ {c} : client'[d] = client[d]
  BY <1>1
<1>3. contended' \in BOOLEAN /\ (~contended' => ~contended /\ OnePinner')
  BY DEF Becomes, TrustTypeOK, OnePinner
<1>. QED BY <1>2, <1>3

LEMMA LoadedFits ==
  ASSUME TrustTypeOK, NEW f \in Stores
  PROVE  Loaded(f) \in Copies
BY DEF TrustTypeOK, Loaded, Copies

LEMMA CopyChanged ==
  ASSUME NEW copy \in Copies, NEW h \in Handles, NEW e \in Entry \cup {NoKey}
  PROVE  /\ [copy EXCEPT ![h] = e] \in Copies /\ [copy EXCEPT ![h] = e][h] = e
         /\ \A i \in Handles \ {h} : [copy EXCEPT ![h] = e][i] = copy[i]
BY DEF Copies

\* What a client is about stays right when no pin is lost, and, if it is about to write
\* the pins, when nobody else does.
LEMMA RightlyStays ==
  ASSUME TrustTypeOK, NEW t \in Clientele, Rightly(t),
         \A h \in Handles : trusted[h] \subseteq trusted'[h] /\ repinned[h] \subseteq repinned'[h],
         \A h \in Handles : store["pins"][h] # NoKey => store'["pins"][h] # NoKey,
         \/ store'["pins"] = store["pins"] /\ temp'["pins"] \in {temp["pins"], NoKey}
         \/ ~Pinning(t)
  PROVE  Rightly(t)'
<1>1. ASSUME t \in Asking PROVE AsksRightly(t)'
  <2>1. AsksRightly(t) /\ t.of \in Handles /\ (Pinning(t) <=> t.step = "pin")
    BY <1>1, TaskFacts DEF Rightly
  <2>2. Vouched(t.of) \subseteq Vouched(t.of)'
    BY <2>1 DEF Vouched
  <2>3. t.step = "pin" => store'["pins"][t.of] = NoKey
    BY <2>1 DEF AsksRightly
  <2>4. t.step = "trust" => store'["pins"][t.of] # NoKey
    BY <2>1 DEF AsksRightly
  <2>. QED BY <2>1, <2>2, <2>3, <2>4 DEF AsksRightly
<1>2. ASSUME t \in Saving PROVE SavesRightly(t)'
  <2>1. SavesRightly(t) /\ t.of \in Handles /\ (Pinning(t) <=> t.file = "pins")
    BY <1>2, TaskFacts DEF Rightly
  <2>2. \A h \in Handles : Vouched(h) \subseteq Vouched(h)'
    BY DEF Vouched
  <2>3. t.file = "peers" => CopyVouched(t.copy)'
    BY <2>1, <2>2 DEF SavesRightly, CopyVouched
  <2>4. ASSUME t.file = "pins"
        PROVE  /\ store'["pins"] = store["pins"] /\ temp'["pins"] \in {temp["pins"], NoKey}
    BY <2>1, <2>4
  <2>. QED BY <2>1, <2>3, <2>4 DEF SavesRightly
<1>3. t \in Filing => t.goal # "repin"
  BY DEF Rightly
<1>. QED BY <1>1, <1>2, <1>3 DEF Rightly

\* What is vouched for stays so.
LEMMA VouchedStays ==
  ASSUME PinsVouched, PeersVouched, UNCHANGED trustFiles,
         \A h \in Handles : trusted[h] \subseteq trusted'[h] /\ repinned[h] \subseteq repinned'[h],
         \A h \in Handles : trusted'[h] \ repinned'[h] \subseteq trusted[h] \ repinned[h],
         \A h \in Handles : trusted'[h] # trusted[h] => store["pins"][h] # NoKey
  PROVE  PinsVouched' /\ PeersVouched'
<1>1. \A h \in Handles : Vouched(h) \subseteq Vouched(h)'
  BY DEF Vouched
<1>2. PinsVouched'
  BY <1>1 DEF PinsVouched, CopyVouched, trustFiles
<1>3. PeersVouched'
  BY <1>1 DEF PeersVouched, CopyVouched, trustFiles
<1>. QED BY <1>2, <1>3

LEMMA TrustBegins == TrustInit => TrustInv
<1>. SUFFICES ASSUME TrustInit PROVE TrustInv
  OBVIOUS
<1>. DEFINE none == [h \in Handles |-> NoKey]
<1>1. none \in Copies /\ \A h \in Handles : none[h] = NoKey
  BY DEF Copies
<1>. HIDE DEF none
<1>2. store["pins"] = none /\ store["peers"] = none /\ temp["pins"] = NoKey /\ temp["peers"] = NoKey
      /\ store \in [Stores -> Copies \cup {Garbled}] /\ temp \in [Stores -> Copies \cup {NoKey}]
  BY <1>1 DEF TrustInit, Stores, none
<1>3. \A c \in Clients : client[c] = Done
  BY DEF TrustInit
<1>4. TrustTypeOK
  BY <1>2, TaskFacts DEF TrustInit, TrustTypeOK
<1>5. OnePinner /\ \A c \in Clients : Rightly(client[c])
  BY <1>3, TaskFacts DEF OnePinner, Rightly
<1>6. PinsVouched
  BY <1>1, <1>2, TrustAssumption DEF PinsVouched, CopyVouched, TrustInit
<1>7. PeersVouched
  BY <1>1, <1>2 DEF PeersVouched, CopyVouched, TrustInit
<1>. QED BY <1>4, <1>5, <1>6, <1>7 DEF TrustInv

-------------------------------------------------------------------------------
(* A client that neither writes a file nor is trusted.                     *)

LEMMA OnlyAsks ==
  ASSUME TrustInv, NEW c \in Clients, NEW t \in Clientele, Becomes(c, t),
         UNCHANGED <<trustFiles, repinned, trusted>>,
         ~contended => Rightly(t)
  PROVE  TrustInv'
<1>0. TrustTypeOK
  BY DEF TrustInv
<1>1. /\ client' \in [Clients -> Clientele] /\ contended' \in BOOLEAN
      /\ client'[c] = t /\ \A d \in Clients \ {c} : client'[d] = client[d]
      /\ ~contended' => ~contended /\ OnePinner'
  BY <1>0, ClientsAfter
<1>2. TrustTypeOK'
  BY <1>0, <1>1 DEF TrustTypeOK, trustFiles
<1>3. ASSUME ~contended'
      PROVE  PinsVouched' /\ PeersVouched' /\ \A d \in Clients : Rightly(client[d])'
  <2>1. PinsVouched /\ PeersVouched /\ Rightly(t) /\ \A d \in Clients : Rightly(client[d])
    BY <1>1, <1>3 DEF TrustInv
  <2>2. PinsVouched' /\ PeersVouched'
    BY <2>1, VouchedStays DEF trustFiles
  <2>3. ASSUME NEW u \in Clientele, Rightly(u) PROVE Rightly(u)'
    BY <1>0, <2>3, RightlyStays DEF trustFiles
  <2>4. ASSUME NEW d \in Clients PROVE Rightly(client[d])'
    <3>1. PICK u : u = client'[d]
      OBVIOUS
    <3>2. u \in Clientele /\ Rightly(u)
      BY <1>0, <1>1, <2>1, <3>1 DEF TrustTypeOK
    <3>. QED BY <2>3, <3>1, <3>2
  <2>. QED BY <2>2, <2>4
<1>. QED BY <1>1, <1>2, <1>3 DEF TrustInv

\* A client that changes files or is trusted: the others go on.
LEMMA Proceeds ==
  ASSUME TrustInv, NEW c \in Clients, NEW t \in Clientele, Becomes(c, t),
         store' \in [Stores -> Copies \cup {Garbled}], temp' \in [Stores -> Copies \cup {NoKey}],
         directory' \in [Handles -> Keys \cup {NoKey, NoPrint}],
         repinned' \in [Handles -> SUBSET Keys], trusted' \in [Handles -> SUBSET Keys],
         ~contended' => PinsVouched' /\ PeersVouched' /\ Rightly(t)',
         ~contended' => \A h \in Handles :
           /\ trusted[h] \subseteq trusted'[h] /\ repinned[h] \subseteq repinned'[h]
           /\ store["pins"][h] # NoKey => store'["pins"][h] # NoKey,
         ~contended' => \/ store'["pins"] = store["pins"] /\ temp'["pins"] \in {temp["pins"], NoKey}
                        \/ \A d \in Clients \ {c} : ~Pinning(client[d])
  PROVE  TrustInv'
<1>0. TrustTypeOK
  BY DEF TrustInv
<1>1. /\ client' \in [Clients -> Clientele] /\ contended' \in BOOLEAN
      /\ client'[c] = t /\ \A d \in Clients \ {c} : client'[d] = client[d]
      /\ ~contended' => ~contended /\ OnePinner'
  BY <1>0, ClientsAfter
<1>2. TrustTypeOK'
  BY <1>1 DEF TrustTypeOK
<1>3. ASSUME ~contended', NEW d \in Clients PROVE Rightly(client[d])'
  <2>1. CASE d = c
    BY <1>1, <1>3, <2>1
  <2>2. CASE d # c
    <3>1. PICK u : u = client[d]
      OBVIOUS
    <3>2. u \in Clientele /\ Rightly(u) /\ client'[d] = u
      BY <1>0, <1>1, <1>3, <2>2, <3>1 DEF TrustTypeOK, TrustInv
    <3>3. \/ store'["pins"] = store["pins"] /\ temp'["pins"] \in {temp["pins"], NoKey}
          \/ ~Pinning(u)
      BY <1>3, <2>2, <3>1
    <3>4. Rightly(u)'
      BY <1>0, <1>3, <3>2, <3>3, RightlyStays
    <3>. QED BY <3>2, <3>4
  <2>. QED BY <2>1, <2>2
<1>. QED BY <1>1, <1>2, <1>3 DEF TrustInv

\* A client that only asks, or has read what it will write.
LEMMA Asks ==
  ASSUME TrustInv, NEW c \in Clients, NEW t \in Clientele, Becomes(c, t),
         UNCHANGED <<trustFiles, repinned, trusted>>,
         ~contended => Rightly(t)
  PROVE  TrustInv'
<1>1. TrustTypeOK /\ (~contended' => ~contended)
  BY ClientsAfter DEF TrustInv
<1>2. ASSUME ~contended' PROVE PinsVouched' /\ PeersVouched' /\ Rightly(t)'
  <2>1. PinsVouched /\ PeersVouched /\ Rightly(t)
    BY <1>1, <1>2 DEF TrustInv
  <2>. QED BY <1>1, <2>1, VouchedStays, RightlyStays DEF trustFiles
<1>. QED BY <1>1, <1>2, Proceeds DEF TrustTypeOK, trustFiles

LEMMA ContactKeeps ==
  ASSUME TrustInv, NEW c \in Clients, NEW g \in Goals, NEW h \in Handles, NEW k \in Keys,
         Contact(c, g, h, k)
  PROVE  TrustInv'
<1>1. PICK t : t = [step |-> "verify", goal |-> g, of |-> h, key |-> k]
  OBVIOUS
<1>2. t \in Asking /\ t.step = "verify" /\ t.goal = g /\ g # "repin"
  BY <1>1, BeginsToAsk DEF Contact
<1>3. t \in Clientele /\ Rightly(t)
  BY <1>2, TaskFacts DEF Rightly, AsksRightly
<1>. QED BY <1>1, <1>3, Asks DEF Contact

LEMMA UnverifiedKeeps ==
  ASSUME TrustInv, NEW c \in Clients, NEW h \in Handles, RecordUnverified(c, h)
  PROVE  TrustInv'
<1>1. PICK t : t = [step |-> "merge", goal |-> "record", of |-> h, key |-> NoPrint]
  OBVIOUS
<1>2. t \in Filing /\ t.goal # "repin"
  BY <1>1, FilesOn DEF Goals
<1>3. t \in Clientele /\ Rightly(t)
  BY <1>2, TaskFacts DEF Rightly
<1>. QED BY <1>1, <1>3, Asks DEF RecordUnverified

LEMMA VerifyKeeps == ASSUME TrustInv, NEW c \in Clients, VerifyFingerprint(c) PROVE TrustInv'
<1>1. PICK t : t = client[c]
  OBVIOUS
<1>2. TrustTypeOK /\ t \in Clientele /\ t.step = "verify" /\ (~contended => Rightly(t))
  BY <1>1 DEF TrustInv, TrustTypeOK, VerifyFingerprint
<1>3. t \in Asking /\ t.of \in Handles
  BY <1>2, TaskFacts
<1>4. UNCHANGED <<trustFiles, repinned, trusted>>
  BY DEF VerifyFingerprint
<1>5. PICK onFile : onFile = Loaded("pins")[t.of]
  OBVIOUS
<1>6. ~contended => /\ onFile = store["pins"][t.of] /\ onFile \in Entry \cup {NoKey}
                    /\ onFile # NoKey => onFile.key \in Vouched(t.of)
  BY <1>2, <1>3, <1>5 DEF TrustInv, PinsVouched, Loaded, CopyVouched, TrustTypeOK, Stores, Copies
<1>7. CASE onFile = NoKey
  <2>1. PICK u : u = [t EXCEPT !.step = "pin"]
    OBVIOUS
  <2>2. u \in Asking /\ u.step = "pin" /\ u.goal = t.goal /\ u.of = t.of /\ u.key = t.key
    BY <1>3, <2>1, GoesOn
  <2>3. u \in Clientele /\ (~contended => Rightly(u))
    BY <1>2, <1>3, <1>6, <1>7, <2>2, TaskFacts DEF Rightly, AsksRightly
  <2>4. Becomes(c, u)
    <3>1. To(c, "pin")
      BY <1>1, <1>5, <1>7 DEF VerifyFingerprint, Matching
    <3>. QED BY <1>1, <2>1, <3>1 DEF To
  <2>. QED BY <1>4, <2>3, <2>4, Asks
<1>8. CASE onFile # NoKey /\ Matching(onFile, t.key)
  <2>1. PICK u : u = [t EXCEPT !.step = "trust"]
    OBVIOUS
  <2>2. u \in Asking /\ u.step = "trust" /\ u.goal = t.goal /\ u.of = t.of /\ u.key = t.key
    BY <1>3, <2>1, GoesOn
  <2>3. u \in Clientele /\ (~contended => Rightly(u))
    BY <1>2, <1>3, <1>6, <1>8, <2>2, TaskFacts DEF Rightly, AsksRightly, Matching
  <2>4. Becomes(c, u)
    <3>1. To(c, "trust")
      BY <1>1, <1>5, <1>8 DEF VerifyFingerprint
    <3>. QED BY <1>1, <2>1, <3>1 DEF To
  <2>. QED BY <1>4, <2>3, <2>4, Asks
<1>9. CASE onFile # NoKey /\ ~Matching(onFile, t.key)
  <2>1. Becomes(c, Done)
    BY <1>1, <1>5, <1>9 DEF VerifyFingerprint
  <2>. QED BY <1>4, <2>1, Asks, TaskFacts DEF Rightly
<1>. QED BY <1>7, <1>8, <1>9

LEMMA RecordKeeps == ASSUME TrustInv, NEW c \in Clients, RecordFingerprint(c) PROVE TrustInv'
<1>1. PICK t : t = client[c]
  OBVIOUS
<1>2. TrustTypeOK /\ t \in Clientele /\ t.step = "pin" /\ (~contended => Rightly(t))
  BY <1>1 DEF TrustInv, TrustTypeOK, RecordFingerprint
<1>3. t \in Asking /\ t.of \in Handles /\ t.key \in Keys /\ t.goal \in Goals
  BY <1>2, TaskFacts
<1>4. PICK pinned : pinned = [key |-> t.key, armor |-> TRUE]
  OBVIOUS
<1>5. PICK copy : copy = [Loaded("pins") EXCEPT ![t.of] = pinned]
  OBVIOUS
<1>6. copy \in Copies
  BY <1>2, <1>3, <1>4, <1>5, LoadedFits, CopyChanged DEF Entry, Stores
<1>7. PICK u : u = [step |-> "write", goal |-> t.goal, of |-> t.of, key |-> t.key,
                    file |-> "pins", copy |-> copy]
  OBVIOUS
<1>8. u \in Saving /\ u.step = "write" /\ u.goal = t.goal /\ u.of = t.of /\ u.key = t.key
      /\ u.file = "pins" /\ u.copy = copy
  BY <1>3, <1>6, <1>7, BeginsToSave DEF Stores
<1>9. ASSUME ~contended PROVE Rightly(u)
  <2>1. AsksRightly(t) /\ Loaded("pins") = store["pins"]
    BY <1>2, <1>3, <1>9 DEF TrustInv, PinsVouched, Loaded, Rightly
  <2>2. copy = [store["pins"] EXCEPT ![u.of] = [key |-> u.key, armor |-> TRUE]]
    BY <1>4, <1>5, <1>8, <2>1
  <2>3. u.goal # "repin" /\ store["pins"][u.of] = NoKey
    BY <1>2, <1>8, <2>1 DEF AsksRightly
  <2>. QED BY <1>8, <2>2, <2>3, TaskFacts DEF Rightly, SavesRightly
<1>10. Becomes(c, u)
  BY <1>1, <1>4, <1>5, <1>7 DEF RecordFingerprint, Changes
<1>11. u \in Clientele
  BY <1>8, TaskFacts
<1>. QED BY <1>9, <1>10, <1>11, Asks DEF RecordFingerprint

LEMMA TrustedKeeps == ASSUME TrustInv, NEW c \in Clients, Trusted(c) PROVE TrustInv'
<1>1. PICK t : t = client[c]
  OBVIOUS
<1>2. TrustTypeOK /\ t \in Clientele /\ t.step = "trust" /\ (~contended => Rightly(t))
  BY <1>1 DEF TrustInv, TrustTypeOK, Trusted
<1>3. t \in Asking /\ t.of \in Handles /\ t.key \in Keys
  BY <1>2, TaskFacts
<1>4. UNCHANGED <<trustFiles, repinned>> /\ trusted' = [trusted EXCEPT ![t.of] = @ \cup {t.key}]
  BY <1>1 DEF Trusted
<1>5. \A h \in Handles : trusted'[h] = IF h = t.of THEN trusted[h] \cup {t.key} ELSE trusted[h]
  BY <1>2, <1>4 DEF TrustTypeOK
<1>6. trusted' \in [Handles -> SUBSET Keys]
  BY <1>2, <1>3, <1>4 DEF TrustTypeOK
<1>7. PICK s \in {"load", "merge", "none"} : Becomes(c, IF s = "none" THEN Done ELSE [t EXCEPT !.step = s])
  BY <1>1 DEF Trusted, To
<1>8. PICK u : u = IF s = "none" THEN Done ELSE [t EXCEPT !.step = s]
  OBVIOUS
<1>9. u = Done \/ (u \in Asking /\ u.step \in {"load", "merge"} /\ u.goal = t.goal /\ u.of = t.of /\ u.key = t.key)
  <2>1. CASE s = "none"
    BY <1>8, <2>1
  <2>2. CASE s # "none"
    <3>1. s \in {"load", "merge"} /\ u = [t EXCEPT !.step = s]
      BY <1>8, <2>2
    <3>2. s \in {"verify", "pin", "trust", "load", "merge", "upsert"}
      BY <3>1
    <3>3. /\ [t EXCEPT !.step = s] \in Asking /\ [t EXCEPT !.step = s].step = s
          /\ [t EXCEPT !.step = s].goal = t.goal /\ [t EXCEPT !.step = s].of = t.of
          /\ [t EXCEPT !.step = s].key = t.key
      BY <1>3, <3>2, GoesOn
    <3>. QED BY <3>1, <3>3
  <2>. QED BY <2>1, <2>2
<1>10. u \in Clientele /\ Becomes(c, u)
  BY <1>7, <1>8, <1>9, TaskFacts
<1>11. ~contended' => ~contended
  BY <1>2, <1>10, ClientsAfter
<1>12. ASSUME ~contended' PROVE PinsVouched' /\ PeersVouched' /\ Rightly(u)'
  <2>1. PinsVouched /\ PeersVouched /\ AsksRightly(t)
    BY <1>2, <1>3, <1>11, <1>12 DEF TrustInv, Rightly
  <2>2. t.key \in Vouched(t.of) /\ store["pins"][t.of] # NoKey
    BY <1>2, <2>1 DEF AsksRightly
  <2>3. \A h \in Handles : /\ trusted[h] \subseteq trusted'[h] /\ repinned[h] \subseteq repinned'[h]
                           /\ trusted'[h] \ repinned'[h] \subseteq trusted[h] \ repinned[h]
                           /\ trusted'[h] # trusted[h] => store["pins"][h] # NoKey
    BY <1>4, <1>5, <2>2 DEF Vouched
  <2>4. PinsVouched' /\ PeersVouched'
    BY <1>4, <2>1, <2>3, VouchedStays
  <2>5. Rightly(u)
    BY <1>9, <2>1, <2>2, TaskFacts DEF Rightly, AsksRightly
  <2>6. Rightly(u)'
    BY <1>2, <1>4, <1>10, <2>3, <2>5, RightlyStays DEF trustFiles
  <2>. QED BY <2>4, <2>6
<1>13. \A h \in Handles : trusted[h] \subseteq trusted'[h] /\ repinned[h] \subseteq repinned'[h]
  BY <1>4, <1>5
<1>. QED BY <1>2, <1>4, <1>6, <1>10, <1>12, <1>13, Proceeds DEF trustFiles, TrustTypeOK

LEMMA RepinKeeps ==
  ASSUME TrustInv, NEW c \in Clients, NEW h \in Handles, NEW k \in Keys, NEW b \in BOOLEAN,
         Repin(c, h, k, b)
  PROVE  TrustInv'
<1>0. TrustTypeOK
  BY DEF TrustInv
<1>1. PICK pinned : pinned = [key |-> k, armor |-> b]
  OBVIOUS
<1>2. PICK copy : copy = [Loaded("pins") EXCEPT ![h] = pinned]
  OBVIOUS
<1>3. copy \in Copies
  BY <1>0, <1>1, <1>2, LoadedFits, CopyChanged DEF Entry, Stores
<1>4. PICK u : u = [step |-> "write", goal |-> "repin", of |-> h, key |-> k, file |-> "pins", copy |-> copy]
  OBVIOUS
<1>5. u \in Saving /\ u.step = "write" /\ u.goal = "repin" /\ u.of = h /\ u.key = k
      /\ u.file = "pins" /\ u.copy = copy
  BY <1>3, <1>4, BeginsToSave DEF Stores, Goals
<1>6. Becomes(c, u) /\ u \in Clientele
  BY <1>1, <1>2, <1>4, <1>5, TaskFacts DEF Repin, Changes
<1>7. UNCHANGED <<trustFiles, trusted>> /\ repinned' = [repinned EXCEPT ![h] = @ \cup {k}]
  BY DEF Repin
<1>8. \A i \in Handles : repinned'[i] = IF i = h THEN repinned[i] \cup {k} ELSE repinned[i]
  BY <1>0, <1>7 DEF TrustTypeOK
<1>9. repinned' \in [Handles -> SUBSET Keys]
  BY <1>0, <1>7 DEF TrustTypeOK
<1>10. ~contended' => ~contended
  BY <1>0, <1>6, ClientsAfter
<1>11. ASSUME ~contended' PROVE PinsVouched' /\ PeersVouched' /\ Rightly(u)'
  <2>1. PinsVouched /\ PeersVouched /\ Loaded("pins") = store["pins"]
    BY <1>10, <1>11 DEF TrustInv, PinsVouched, Loaded
  <2>2. PinsVouched' /\ PeersVouched'
    BY <1>7, <1>8, <2>1, VouchedStays
  <2>3. copy = [store'["pins"] EXCEPT ![u.of] = [key |-> u.key, armor |-> b]]
    BY <1>1, <1>2, <1>5, <1>7, <2>1 DEF trustFiles
  <2>4. u.key \in repinned'[u.of]
    BY <1>5, <1>8
  <2>. QED BY <1>5, <2>2, <2>3, <2>4, TaskFacts DEF Rightly, SavesRightly
<1>12. \A i \in Handles : trusted[i] \subseteq trusted'[i] /\ repinned[i] \subseteq repinned'[i]
  BY <1>7, <1>8
<1>. QED BY <1>0, <1>6, <1>7, <1>9, <1>11, <1>12, Proceeds DEF trustFiles, TrustTypeOK

-------------------------------------------------------------------------------
(* The peers an operator added.                                            *)

LEMMA PeersLoaded ==
  ASSUME TrustInv, ~contended
  PROVE  CopyVouched(Loaded("peers"))
<1>1. CASE store["peers"] = Garbled
  BY <1>1 DEF Loaded, CopyVouched
<1>2. CASE store["peers"] # Garbled
  BY <1>2 DEF Loaded, TrustInv, PeersVouched
<1>. QED BY <1>1, <1>2

\* A client that begins to save the peers.
LEMMA SavesPeers ==
  ASSUME TrustInv, NEW c \in Clients, NEW g \in Goals, NEW h \in Handles, NEW k \in Keys,
         NEW copy \in Copies, ~contended => CopyVouched(copy),
         Changes(c, g, h, k, "peers", copy), UNCHANGED <<trustFiles, repinned, trusted>>
  PROVE  TrustInv'
<1>1. PICK u : u = [step |-> "write", goal |-> g, of |-> h, key |-> k, file |-> "peers", copy |-> copy]
  OBVIOUS
<1>2. u \in Saving /\ u.step = "write" /\ u.file = "peers" /\ u.copy = copy
  BY <1>1, BeginsToSave DEF Stores
<1>3. u \in Clientele /\ (~contended => Rightly(u))
  BY <1>2, TaskFacts DEF Rightly, SavesRightly
<1>4. Becomes(c, u)
  BY <1>1 DEF Changes
<1>. QED BY <1>3, <1>4, Asks

LEMMA AddPeerKeeps == ASSUME TrustInv, NEW c \in Clients, AddPeer(c) PROVE TrustInv'
<1>1. PICK t : t = client[c]
  OBVIOUS
<1>2. TrustTypeOK /\ t \in Clientele /\ t.step = "load" /\ (~contended => Rightly(t))
  BY <1>1 DEF TrustInv, TrustTypeOK, AddPeer
<1>3. t \in Asking /\ t.of \in Handles /\ t.key \in Keys /\ t.goal \in Goals
  BY <1>2, TaskFacts
<1>4. PICK pinned : pinned = [key |-> t.key, armor |-> FALSE]
  OBVIOUS
<1>5. PICK copy : copy = [Loaded("peers") EXCEPT ![t.of] = pinned]
  OBVIOUS
<1>6. pinned \in Entry /\ pinned.key = t.key
  BY <1>3, <1>4 DEF Entry
<1>7. copy \in Copies /\ copy[t.of] = pinned /\ \A h \in Handles \ {t.of} : copy[h] = Loaded("peers")[h]
  BY <1>2, <1>3, <1>5, <1>6, LoadedFits, CopyChanged DEF Stores
<1>8. ASSUME ~contended PROVE CopyVouched(copy)
  <2>1. t.key \in Vouched(t.of) /\ CopyVouched(Loaded("peers"))
    BY <1>2, <1>3, <1>8, PeersLoaded DEF Rightly, AsksRightly
  <2>. QED BY <1>6, <1>7, <2>1 DEF CopyVouched
<1>9. Changes(c, t.goal, t.of, t.key, "peers", copy) /\ UNCHANGED <<trustFiles, repinned, trusted>>
  BY <1>1, <1>4, <1>5 DEF AddPeer
<1>. QED BY <1>3, <1>7, <1>8, <1>9, SavesPeers

LEMMA RemovePeerKeeps ==
  ASSUME TrustInv, NEW c \in Clients, NEW h \in Handles, RemovePeer(c, h) PROVE TrustInv'
<1>0. TrustTypeOK
  BY DEF TrustInv
<1>1. PICK copy : copy = [Loaded("peers") EXCEPT ![h] = NoKey]
  OBVIOUS
<1>2. copy \in Copies /\ copy[h] = NoKey /\ \A i \in Handles \ {h} : copy[i] = Loaded("peers")[i]
  BY <1>0, <1>1, LoadedFits, CopyChanged DEF Stores
<1>3. ~contended => CopyVouched(copy)
  BY <1>2, PeersLoaded DEF CopyVouched
<1>4. PICK k : k = Loaded("peers")[h].key
  OBVIOUS
<1>5. k \in Keys
  <2>1. Loaded("peers") \in Copies
    BY <1>0, LoadedFits DEF Stores
  <2>2. Loaded("peers")[h] \in Entry
    BY <2>1 DEF RemovePeer, Copies
  <2>. QED BY <1>4, <2>2 DEF Entry
<1>6. Changes(c, "remove", h, k, "peers", copy) /\ UNCHANGED <<trustFiles, repinned, trusted>>
  BY <1>1, <1>4 DEF RemovePeer
<1>. QED BY <1>2, <1>3, <1>5, <1>6, SavesPeers DEF Goals

-------------------------------------------------------------------------------
(* The peers that discovery found.                                         *)

LEMMA MergeKeeps == ASSUME TrustInv, NEW c \in Clients, MergePeer(c) PROVE TrustInv'
<1>1. PICK t : t = client[c]
  OBVIOUS
<1>2. TrustTypeOK /\ t \in Clientele /\ t.step = "merge" /\ (~contended => Rightly(t))
  BY <1>1 DEF TrustInv, TrustTypeOK, MergePeer
<1>3. t \in Asking \cup Filing /\ t.of \in Handles /\ t.key \in Keys \cup {NoPrint}
      /\ t.goal \in Goals /\ (t \in Filing <=> t.key = NoPrint)
  BY <1>2, TaskFacts, TrustAssumption
<1>4. PICK old \in FoundPeer(c, t.of) :
        Becomes(c, [t EXCEPT !.step = "upsert", !.key = Merged(old, t.key)])
  BY <1>1 DEF MergePeer
<1>5. old \in {directory[t.of], NoKey}
  BY <1>4 DEF FoundPeer
<1>6. PICK k : k = Merged(old, t.key)
  OBVIOUS
<1>7. k \in Keys \cup {NoPrint}
  BY <1>2, <1>3, <1>5, <1>6 DEF Merged, TrustTypeOK
<1>8. PICK u : u = [t EXCEPT !.step = "upsert", !.key = k]
  OBVIOUS
<1>9. /\ k \in Keys => u \in Asking
      /\ k = NoPrint => u \in Filing
      /\ u.step = "upsert" /\ u.goal = t.goal /\ u.of = t.of /\ u.key = k
  BY <1>3, <1>7, <1>8, MergingOn
<1>10. ASSUME ~contended PROVE Rightly(u)
  <2>1. t.goal # "repin" /\ (t \in Asking => t.key \in Vouched(t.of))
        /\ directory[t.of] \in Vouched(t.of) \cup {NoKey, NoPrint}
    BY <1>2, <1>3, <1>10 DEF TrustInv, PeersVouched, Rightly, AsksRightly
  <2>2. k \in Keys => k \in Vouched(t.of)
    BY <1>2, <1>3, <1>5, <1>6, <2>1, TrustAssumption DEF Merged
  <2>. QED BY <1>7, <1>9, <2>1, <2>2, TaskFacts DEF Rightly, AsksRightly
<1>11. u \in Clientele
  BY <1>7, <1>9, TaskFacts
<1>12. Becomes(c, u) /\ UNCHANGED <<trustFiles, repinned, trusted>>
  BY <1>4, <1>6, <1>8 DEF MergePeer
<1>. QED BY <1>10, <1>11, <1>12, Asks

LEMMA UpsertPeerKeeps == ASSUME TrustInv, NEW c \in Clients, UpsertPeer(c) PROVE TrustInv'
<1>1. PICK t : t = client[c]
  OBVIOUS
<1>2. TrustTypeOK /\ t \in Clientele /\ t.step = "upsert" /\ (~contended => Rightly(t))
  BY <1>1 DEF TrustInv, TrustTypeOK, UpsertPeer
<1>3. t \in Asking \cup Filing /\ t.of \in Handles /\ t.key \in Keys \cup {NoPrint}
      /\ (t \in Filing => t.key = NoPrint)
  BY <1>2, TaskFacts
<1>4. /\ UNCHANGED <<store, temp, repinned, trusted>> /\ Becomes(c, Done)
      /\ directory' = [directory EXCEPT ![t.of] = t.key]
  BY <1>1 DEF UpsertPeer
<1>5. directory' \in [Handles -> Keys \cup {NoKey, NoPrint}]
      /\ \A h \in Handles : directory'[h] = IF h = t.of THEN t.key ELSE directory[h]
  BY <1>2, <1>3, <1>4 DEF TrustTypeOK
<1>6. Done \in Clientele /\ (~contended' => ~contended)
  BY <1>2, <1>4, TaskFacts, ClientsAfter
<1>7. ASSUME ~contended' PROVE PinsVouched' /\ PeersVouched' /\ Rightly(Done)'
  <2>1. PinsVouched /\ PeersVouched /\ (t \in Asking => AsksRightly(t))
    BY <1>2, <1>3, <1>6, <1>7 DEF TrustInv, Rightly
  <2>2. \A h \in Handles : Vouched(h)' = Vouched(h)
    BY <1>4 DEF Vouched
  <2>3. \A h \in Handles : directory'[h] \in Vouched(h) \cup {NoKey, NoPrint}
    BY <1>2, <1>3, <1>5, <2>1 DEF PeersVouched, AsksRightly
  <2>4. PinsVouched' /\ PeersVouched'
    BY <1>4, <2>1, <2>2, <2>3 DEF PinsVouched, PeersVouched, CopyVouched
  <2>. QED BY <2>4, TaskFacts DEF Rightly
<1>. QED BY <1>2, <1>4, <1>5, <1>6, <1>7, Proceeds DEF TrustTypeOK

-------------------------------------------------------------------------------
(* Saving a store.                                                         *)

LEMMA WriteKeeps == ASSUME TrustInv, NEW c \in Clients, WriteTemp(c) PROVE TrustInv'
<1>1. PICK t : t = client[c]
  OBVIOUS
<1>2. TrustTypeOK /\ t \in Clientele /\ t.step = "write" /\ (~contended => Rightly(t))
  BY <1>1 DEF TrustInv, TrustTypeOK, WriteTemp
<1>3. t \in Saving /\ t.file \in Stores /\ t.copy \in Copies
  BY <1>2, TaskFacts
<1>4. PICK u : u = [t EXCEPT !.step = "replace"]
  OBVIOUS
<1>5. u \in Saving /\ u.step = "replace" /\ u.goal = t.goal /\ u.of = t.of /\ u.key = t.key
      /\ u.file = t.file /\ u.copy = t.copy
  BY <1>3, <1>4, SavesOn
<1>6. u \in Clientele /\ Becomes(c, u) /\ UNCHANGED <<store, directory, repinned, trusted>>
      /\ temp' = [temp EXCEPT ![t.file] = t.copy]
  BY <1>1, <1>4, <1>5, TaskFacts DEF WriteTemp, To
<1>7. /\ temp' \in [Stores -> Copies \cup {NoKey}] /\ temp'[t.file] = t.copy
      /\ \A f \in Stores \ {t.file} : temp'[f] = temp[f]
  BY <1>2, <1>3, <1>6 DEF TrustTypeOK
<1>8. ~contended' => ~contended
  BY <1>2, <1>6, ClientsAfter
<1>9. \A h \in Handles : Vouched(h)' = Vouched(h)
  BY <1>6 DEF Vouched
<1>10. ASSUME ~contended' PROVE PinsVouched' /\ PeersVouched' /\ Rightly(u)'
  <2>1. PinsVouched /\ PeersVouched /\ SavesRightly(t)
    BY <1>2, <1>3, <1>8, <1>10 DEF TrustInv, Rightly
  <2>2. PinsVouched'
    BY <1>6, <1>9, <2>1 DEF PinsVouched, CopyVouched
  <2>3. temp'["peers"] # NoKey => CopyVouched(temp["peers"])'
    <3>1. CASE t.file = "peers"
      BY <1>7, <1>9, <2>1, <3>1 DEF SavesRightly, CopyVouched
    <3>2. CASE t.file # "peers"
      <4>1. temp'["peers"] = temp["peers"]
        BY <1>7, <3>2 DEF Stores
      <4>. QED BY <1>9, <2>1, <4>1 DEF PeersVouched, CopyVouched
    <3>. QED BY <3>1, <3>2
  <2>4. PeersVouched'
    BY <1>6, <1>9, <2>1, <2>3 DEF PeersVouched, CopyVouched
  <2>5. SavesRightly(u)'
    BY <1>5, <1>6, <1>7, <1>9, <2>1 DEF SavesRightly, CopyVouched
  <2>. QED BY <1>5, <2>2, <2>4, <2>5, TaskFacts DEF Rightly
<1>11. ASSUME ~contended'
       PROVE  \/ store'["pins"] = store["pins"] /\ temp'["pins"] \in {temp["pins"], NoKey}
              \/ \A d \in Clients \ {c} : ~Pinning(client[d])
  <2>1. CASE t.file = "pins"
    BY <1>1, <1>3, <1>8, <1>11, <2>1, TaskFacts DEF TrustInv, OnePinner
  <2>2. CASE t.file # "pins"
    BY <1>6, <1>7, <2>2 DEF Stores
  <2>. QED BY <2>1, <2>2
<1>. QED BY <1>2, <1>6, <1>7, <1>10, <1>11, Proceeds DEF TrustTypeOK

\* Replacing the peers.
LEMMA ReplacePeers ==
  ASSUME TrustInv, NEW c \in Clients, Replace(c), client[c].file = "peers"
  PROVE  TrustInv'
<1>1. PICK t : t = client[c]
  OBVIOUS
<1>2. TrustTypeOK /\ t \in Clientele /\ t.step = "replace" /\ (~contended => Rightly(t))
  BY <1>1 DEF TrustInv, TrustTypeOK, Replace
<1>3. t \in Saving /\ t.file = "peers"
  BY <1>1, <1>2, TaskFacts
<1>4. Becomes(c, Done) /\ UNCHANGED <<trusted, directory, repinned>>
      /\ (\/ UNCHANGED <<store, temp>>
          \/ /\ temp["peers"] # NoKey /\ temp' = [temp EXCEPT !["peers"] = NoKey]
             /\ \E s \in {temp["peers"], Garbled} : store' = [store EXCEPT !["peers"] = s])
  BY <1>1, <1>3 DEF Replace
<1>5. /\ store' \in [Stores -> Copies \cup {Garbled}] /\ temp' \in [Stores -> Copies \cup {NoKey}]
      /\ store'["pins"] = store["pins"] /\ temp'["pins"] = temp["pins"]
      /\ temp'["peers"] \in {temp["peers"], NoKey}
      /\ \/ store'["peers"] \in {store["peers"], Garbled}
         \/ temp["peers"] # NoKey /\ store'["peers"] = temp["peers"]
  <2>1. CASE UNCHANGED <<store, temp>>
    BY <1>2, <2>1 DEF TrustTypeOK
  <2>2. CASE /\ temp["peers"] # NoKey /\ temp' = [temp EXCEPT !["peers"] = NoKey]
             /\ \E s \in {temp["peers"], Garbled} : store' = [store EXCEPT !["peers"] = s]
    <3>1. temp["peers"] \in Copies
      BY <1>2, <2>2 DEF TrustTypeOK, Stores
    <3>. QED BY <1>2, <2>2, <3>1 DEF TrustTypeOK, Stores
  <2>. QED BY <1>4, <2>1, <2>2
<1>6. Done \in Clientele /\ (~contended' => ~contended)
  BY <1>2, <1>4, TaskFacts, ClientsAfter
<1>7. ASSUME ~contended' PROVE PinsVouched' /\ PeersVouched' /\ Rightly(Done)'
  <2>1. PinsVouched /\ PeersVouched /\ \A h \in Handles : Vouched(h)' = Vouched(h)
    BY <1>4, <1>6, <1>7 DEF TrustInv, Vouched
  <2>2. PinsVouched'
    BY <1>4, <1>5, <2>1 DEF PinsVouched, CopyVouched
  <2>3. PeersVouched'
    BY <1>4, <1>5, <2>1 DEF PeersVouched, CopyVouched
  <2>. QED BY <2>2, <2>3, TaskFacts DEF Rightly
<1>8. \A h \in Handles :
        /\ trusted[h] \subseteq trusted'[h] /\ repinned[h] \subseteq repinned'[h]
        /\ store["pins"][h] # NoKey => store'["pins"][h] # NoKey
  BY <1>4, <1>5
<1>. QED BY <1>2, <1>4, <1>5, <1>6, <1>7, <1>8, Proceeds DEF TrustTypeOK

\* Replacing the pins by the copy that a contact, or a re-pin, made of them.
LEMMA ReplacePins ==
  ASSUME TrustInv, NEW c \in Clients, Replace(c), client[c].file = "pins"
  PROVE  TrustInv'
<1>1. PICK t : t = client[c]
  OBVIOUS
<1>2. TrustTypeOK /\ t \in Clientele /\ t.step = "replace" /\ (~contended => Rightly(t))
  BY <1>1 DEF TrustInv, TrustTypeOK, Replace
<1>3. t \in Saving /\ t.file = "pins" /\ t.of \in Handles /\ t.key \in Keys /\ t.goal \in Goals
      /\ Pinning(t)
  BY <1>1, <1>2, TaskFacts
<1>4. UNCHANGED <<directory, repinned>>
  BY DEF Replace
<1>5. CASE temp["pins"] = NoKey
  <2>1. Becomes(c, Done) /\ UNCHANGED <<trustFiles, repinned, trusted>>
    BY <1>1, <1>3, <1>5 DEF Replace, trustFiles
  <2>. QED BY <2>1, Asks, TaskFacts DEF Rightly
<1>6. CASE temp["pins"] # NoKey
  <2>1. /\ temp' = [temp EXCEPT !["pins"] = NoKey]
        /\ \/ store' = [store EXCEPT !["pins"] = temp["pins"]]
           \/ /\ \E d \in Clients \ {c} : client[d].step = "write" /\ client[d].file = "pins"
              /\ store' = [store EXCEPT !["pins"] = Garbled]
        /\ IF t.goal # "repin"
           THEN /\ trusted' = [trusted EXCEPT ![t.of] = @ \cup {t.key}]
                /\ Becomes(c, [step |-> "trust", goal |-> t.goal, of |-> t.of, key |-> t.key])
           ELSE Becomes(c, Done) /\ UNCHANGED trusted
    BY <1>1, <1>3, <1>6 DEF Replace
  <2>2. /\ store' \in [Stores -> Copies \cup {Garbled}] /\ temp' \in [Stores -> Copies \cup {NoKey}]
        /\ store'["peers"] = store["peers"] /\ temp'["peers"] = temp["peers"]
    <3>1. temp["pins"] \in Copies
      BY <1>2, <1>6 DEF TrustTypeOK, Stores
    <3>. QED BY <1>2, <2>1, <3>1 DEF TrustTypeOK, Stores
  <2>3. PICK u : IF t.goal # "repin"
                 THEN u = [step |-> "trust", goal |-> t.goal, of |-> t.of, key |-> t.key]
                 ELSE u = Done
    OBVIOUS
  <2>4. Becomes(c, u)
    BY <2>1, <2>3
  <2>5. IF t.goal # "repin"
        THEN u \in Asking /\ u.step = "trust" /\ u.goal = t.goal /\ u.of = t.of /\ u.key = t.key
        ELSE u = Done
    BY <1>3, <2>3, BeginsToAsk
  <2>6. u \in Clientele
    BY <2>5, TaskFacts
  <2>7. /\ trusted' \in [Handles -> SUBSET Keys]
        /\ \A h \in Handles : trusted'[h] = IF t.goal # "repin" /\ h = t.of THEN trusted[h] \cup {t.key}
                                                                            ELSE trusted[h]
    <3>0. trusted \in [Handles -> SUBSET Keys]
      BY <1>2 DEF TrustTypeOK
    <3>1. CASE t.goal # "repin"
      <4>1. trusted' = [trusted EXCEPT ![t.of] = @ \cup {t.key}]
        BY <2>1, <3>1
      <4>. QED BY <1>3, <3>0, <3>1, <4>1
    <3>2. CASE t.goal = "repin"
      BY <2>1, <3>0, <3>2
    <3>. QED BY <3>1, <3>2
  <2>8. ~contended' => ~contended
    BY <1>2, <2>4, <2>6, ClientsAfter
  <2>9. ASSUME ~contended'
        PROVE  /\ PinsVouched' /\ PeersVouched' /\ Rightly(u)'
               /\ \A d \in Clients \ {c} : ~Pinning(client[d])
               /\ \A h \in Handles : store["pins"][h] # NoKey => store'["pins"][h] # NoKey
    <3>1. PinsVouched /\ PeersVouched /\ SavesRightly(t) /\ OnePinner
      BY <1>2, <1>3, <2>8, <2>9 DEF TrustInv, Rightly
    <3>2. \A d \in Clients \ {c} : ~Pinning(client[d])
      BY <1>1, <1>3, <3>1 DEF OnePinner
    <3>3. store' = [store EXCEPT !["pins"] = temp["pins"]]
      BY <2>1, <3>2 DEF Pinning, Writing
    <3>4. store'["pins"] = t.copy
      BY <1>2, <1>3, <1>6, <3>1, <3>3 DEF SavesRightly, TrustTypeOK, Stores
    <3>5. PICK b \in BOOLEAN : t.copy = [store["pins"] EXCEPT ![t.of] = [key |-> t.key, armor |-> b]]
      BY <1>3, <3>1 DEF SavesRightly
    <3>6. PICK pinned : pinned = [key |-> t.key, armor |-> b]
      OBVIOUS
    <3>7. pinned \in Entry /\ pinned.key = t.key /\ pinned # NoKey
      BY <1>3, <3>6, TrustAssumption DEF Entry
    <3>8. store["pins"] \in Copies
      BY <1>2, <3>1 DEF PinsVouched, TrustTypeOK, Stores
    <3>9. /\ store'["pins"] \in Copies /\ store'["pins"][t.of] = pinned
          /\ \A h \in Handles \ {t.of} : store'["pins"][h] = store["pins"][h]
      BY <1>3, <3>4, <3>5, <3>6, <3>7, <3>8, CopyChanged
    <3>10. \A h \in Handles : Vouched(h) \subseteq Vouched(h)'
      BY <1>4, <2>7 DEF Vouched
    <3>11. t.key \in Vouched(t.of)'
      BY <1>3, <1>4, <2>7, <3>1 DEF Vouched, SavesRightly
    <3>12. \A h \in Handles : store["pins"][h] # NoKey => store'["pins"][h] # NoKey
      BY <3>7, <3>9
    <3>13. CopyVouched(store["pins"])'
      <4>1. ASSUME NEW h \in Handles, store'["pins"][h] # NoKey PROVE store'["pins"][h].key \in Vouched(h)'
        <5>1. CASE h = t.of
          BY <3>7, <3>9, <3>11, <5>1
        <5>2. CASE h # t.of
          BY <3>1, <3>9, <3>10, <4>1, <5>2 DEF PinsVouched, CopyVouched
        <5>. QED BY <5>1, <5>2
      <4>. QED BY <4>1 DEF CopyVouched
    <3>14. ASSUME NEW h \in Handles
           PROVE  /\ trusted'[h] # {} => store'["pins"][h] # NoKey
                  /\ \A p, q \in trusted'[h] \ repinned'[h] : p = q
      <4>1. CASE h = t.of /\ t.goal # "repin"
        <5>1. trusted[h] = {}
          BY <1>3, <3>1, <4>1 DEF SavesRightly, PinsVouched
        <5>2. trusted'[h] = {t.key}
          BY <2>7, <4>1, <5>1
        <5>. QED BY <3>7, <3>9, <4>1, <5>2
      <4>2. CASE ~(h = t.of /\ t.goal # "repin")
        <5>1. trusted'[h] = trusted[h] /\ repinned'[h] = repinned[h]
          BY <1>4, <2>7, <4>2
        <5>. QED BY <3>1, <3>12, <5>1 DEF PinsVouched
      <4>. QED BY <4>1, <4>2
    <3>15. store'["pins"] # Garbled
      BY <3>9, TrustAssumption
    <3>16. PinsVouched'
      BY <3>13, <3>14, <3>15 DEF PinsVouched
    <3>17. PeersVouched'
      BY <1>4, <2>2, <3>1, <3>10 DEF PeersVouched, CopyVouched
    <3>18. Rightly(u)'
      BY <2>5, <3>7, <3>9, <3>11, TaskFacts DEF Rightly, AsksRightly
    <3>. QED BY <3>2, <3>12, <3>16, <3>17, <3>18
  <2>10. \A h \in Handles : trusted[h] \subseteq trusted'[h] /\ repinned[h] \subseteq repinned'[h]
    BY <1>4, <2>7
  <2>. QED BY <1>2, <1>4, <2>2, <2>4, <2>6, <2>7, <2>9, <2>10, Proceeds DEF TrustTypeOK
<1>. QED BY <1>5, <1>6

LEMMA DiesKeeps == ASSUME TrustInv, NEW c \in Clients, ClientDies(c) PROVE TrustInv'
<1>1. TrustTypeOK /\ Becomes(c, Done) /\ UNCHANGED <<store, repinned, trusted>>
  BY DEF TrustInv, ClientDies
<1>2. /\ temp' \in [Stores -> Copies \cup {NoKey}]
      /\ \A f \in Stores : temp'[f] \in {temp[f], NoKey}
  BY <1>1 DEF ClientDies, TrustTypeOK
<1>3. /\ directory' \in [Handles -> Keys \cup {NoKey, NoPrint}]
      /\ \A h \in Handles : directory'[h] \in {directory[h], NoKey}
  BY <1>1 DEF ClientDies, TrustTypeOK
<1>4. Done \in Clientele /\ (~contended' => ~contended)
  BY <1>1, TaskFacts, ClientsAfter
<1>5. ASSUME ~contended' PROVE PinsVouched' /\ PeersVouched' /\ Rightly(Done)'
  <2>1. PinsVouched /\ PeersVouched /\ \A h \in Handles : Vouched(h)' = Vouched(h)
    BY <1>1, <1>4, <1>5 DEF TrustInv, Vouched
  <2>2. PinsVouched'
    BY <1>1, <2>1 DEF PinsVouched, CopyVouched
  <2>3. temp'["peers"] \in {temp["peers"], NoKey}
    BY <1>2 DEF Stores
  <2>4. PeersVouched'
    BY <1>1, <1>3, <2>1, <2>3 DEF PeersVouched, CopyVouched
  <2>. QED BY <2>2, <2>4, TaskFacts DEF Rightly
<1>6. store'["pins"] = store["pins"] /\ temp'["pins"] \in {temp["pins"], NoKey}
  BY <1>1, <1>2 DEF Stores
<1>. QED BY <1>1, <1>2, <1>3, <1>4, <1>5, <1>6, Proceeds DEF TrustTypeOK

LEMMA RemoveDiscoveredKeeps ==
  ASSUME TrustInv, NEW h \in Handles, RemoveDiscovered(h) PROVE TrustInv'
<1>1. TrustTypeOK /\ UNCHANGED <<store, temp, client, repinned, trusted, contended>>
      /\ directory' = [directory EXCEPT ![h] = NoKey]
  BY DEF TrustInv, RemoveDiscovered
<1>2. /\ directory' \in [Handles -> Keys \cup {NoKey, NoPrint}]
      /\ \A i \in Handles : directory'[i] \in {directory[i], NoKey}
  BY <1>1 DEF TrustTypeOK
<1>3. TrustTypeOK'
  BY <1>1, <1>2 DEF TrustTypeOK
<1>4. ASSUME ~contended PROVE OnePinner' /\ PinsVouched' /\ PeersVouched'
                              /\ \A c \in Clients : Rightly(client[c])'
  <2>1. OnePinner /\ PinsVouched /\ PeersVouched /\ \A c \in Clients : Rightly(client[c])
    BY <1>4 DEF TrustInv
  <2>2. OnePinner' /\ PinsVouched'
    BY <1>1, <2>1 DEF OnePinner, PinsVouched, CopyVouched, Vouched
  <2>3. PeersVouched'
    BY <1>1, <1>2, <2>1 DEF PeersVouched, CopyVouched, Vouched
  <2>4. ASSUME NEW c \in Clients PROVE Rightly(client[c])'
    BY <1>1, <2>1 DEF Rightly, AsksRightly, SavesRightly, CopyVouched, Vouched
  <2>. QED BY <2>2, <2>3, <2>4
<1>. QED BY <1>1, <1>3, <1>4 DEF TrustInv

-------------------------------------------------------------------------------
LEMMA TrustStep == TrustInv /\ [TrustNext]_trustVars => TrustInv'
<1>. SUFFICES ASSUME TrustInv, [TrustNext]_trustVars PROVE TrustInv'
  OBVIOUS
<1>1. CASE UNCHANGED trustVars
  <2>1. UNCHANGED <<client, trusted, repinned, contended>> /\ UNCHANGED trustFiles
    BY <1>1 DEF trustVars, trustFiles
  <2>2. UNCHANGED <<OnePinner, PinsVouched>>
    BY <2>1 DEF trustFiles, OnePinner, PinsVouched, CopyVouched, Vouched
  <2>3. UNCHANGED PeersVouched
    BY <2>1 DEF trustFiles, PeersVouched, CopyVouched, Vouched
  <2>4. ASSUME NEW c \in Clients PROVE UNCHANGED Rightly(client[c])
    BY <2>1 DEF trustFiles, Rightly, AsksRightly, SavesRightly, CopyVouched, Vouched
  <2>5. TrustTypeOK'
    BY <1>1 DEF trustVars, trustFiles, TrustInv, TrustTypeOK
  <2>. QED BY <2>1, <2>2, <2>3, <2>4, <2>5 DEF TrustInv
<1>2. ASSUME NEW c \in Clients,
             \/ VerifyFingerprint(c) \/ RecordFingerprint(c) \/ Trusted(c) \/ AddPeer(c) \/ WriteTemp(c)
             \/ Replace(c) \/ MergePeer(c) \/ UpsertPeer(c) \/ ClientDies(c)
      PROVE  TrustInv'
  <2>1. Replace(c) => TrustInv'
    <3>. SUFFICES ASSUME Replace(c) PROVE TrustInv'
      OBVIOUS
    <3>1. client[c] \in Saving
      <4>1. client[c] \in Clientele /\ client[c].step = "replace"
        BY DEF TrustInv, TrustTypeOK, Replace
      <4>. QED BY <4>1, TaskFacts
    <3>2. client[c].file \in Stores
      BY <3>1, TaskFacts
    <3>. QED BY <3>2, ReplacePins, ReplacePeers DEF Stores
  <2>. QED BY <1>2, <2>1, VerifyKeeps, RecordKeeps, TrustedKeeps, AddPeerKeeps, WriteKeeps, MergeKeeps,
              UpsertPeerKeeps, DiesKeeps
<1>3. ASSUME NEW c \in Clients, NEW h \in Handles,
             \/ RemovePeer(c, h) \/ RecordUnverified(c, h)
             \/ \E k \in Keys : \/ \E g \in Goals : Contact(c, g, h, k)
                                \/ \E b \in BOOLEAN : Repin(c, h, k, b)
      PROVE  TrustInv'
  BY <1>3, RemovePeerKeeps, UnverifiedKeeps, ContactKeeps, RepinKeeps
<1>4. ASSUME NEW h \in Handles, RemoveDiscovered(h) PROVE TrustInv'
  BY <1>4, RemoveDiscoveredKeeps
<1>. QED BY <1>1, <1>2, <1>3, <1>4 DEF TrustNext

LEMMA TrustHolds == TrustInv => TrustKeeps
<1>. SUFFICES ASSUME TrustInv, ~contended PROVE OneKey /\ KeysComeFromPins /\ KeysAgree
  BY DEF TrustKeeps
<1>1. TrustTypeOK /\ PinsVouched /\ PeersVouched /\ Loaded("pins") = store["pins"]
  BY DEF TrustInv, PinsVouched, Loaded
<1>2. OneKey
  <2>. SUFFICES ASSUME NEW h \in Handles
                PROVE  /\ Cardinality(trusted[h] \ repinned[h]) <= 1
                       /\ trusted[h] # {} => Loaded("pins")[h] # NoKey
    BY DEF OneKey
  <2>1. Cardinality(trusted[h] \ repinned[h]) <= 1
    <3>1. CASE trusted[h] \ repinned[h] = {}
      <4>1. Cardinality(trusted[h] \ repinned[h]) = 0
        BY <3>1, FS_EmptySet
      <4>. QED BY <4>1
    <3>2. CASE trusted[h] \ repinned[h] # {}
      <4>1. PICK k : trusted[h] \ repinned[h] = {k}
        BY <1>1, <3>2 DEF PinsVouched
      <4>2. Cardinality(trusted[h] \ repinned[h]) = 1
        BY <4>1, FS_Singleton
      <4>. QED BY <4>2
    <3>. QED BY <3>1, <3>2
  <2>2. trusted[h] # {} => Loaded("pins")[h] # NoKey
    BY <1>1 DEF PinsVouched
  <2>. QED BY <2>1, <2>2
<1>3. ASSUME NEW h \in Handles
      PROVE  VerifierKey(h) \in Vouched(h) \cup {NoKey, NoPrint} /\ PeerKey(h) \in Vouched(h) \cup {NoKey}
  <2>1. VerifierKey(h) \in Vouched(h) \cup {NoKey, NoPrint}
    BY <1>1 DEF VerifierKey, PinsVouched, PeersVouched, CopyVouched
  <2>2. PeerKey(h) \in Vouched(h) \cup {NoKey}
    BY PeersLoaded DEF CopyVouched, PeerKey
  <2>. QED BY <2>1, <2>2
<1>4. KeysComeFromPins
  BY <1>3 DEF KeysComeFromPins, Vouched
<1>5. KeysAgree
  <2>. SUFFICES ASSUME NEW h \in Handles, repinned[h] = {},
                       NEW a \in {VerifierKey(h), PeerKey(h)} \ {NoKey, NoPrint},
                       NEW b \in {VerifierKey(h), PeerKey(h)} \ {NoKey, NoPrint}
                PROVE  a = b
    BY DEF KeysAgree
  <2>1. a \in trusted[h] \ repinned[h] /\ b \in trusted[h] \ repinned[h]
    BY <1>3 DEF Vouched
  <2>. QED BY <1>1, <2>1 DEF PinsVouched
<1>. QED BY <1>2, <1>4, <1>5

(* However many clients make contacts, add and remove peers, re-pin keys   *)
(* and die: as long as no two of them change the pins at the same time, a  *)
(* handle never has two trusted keys but by a re-pin, no pin is forgotten, *)
(* the keys in use were trusted or re-pinned first, and without a re-pin   *)
(* the peers and the inbox have the same one.                              *)
THEOREM PinsAreKept == TrustSpec => [](TrustTypeOK /\ TrustKeeps)
<1>1. TrustInv => TrustTypeOK
  BY DEF TrustInv
<1>. QED BY <1>1, TrustBegins, TrustStep, TrustHolds, PTL DEF TrustSpec

-------------------------------------------------------------------------------
(* What a restore that met nobody leaves in a file, from the one that was  *)
(* there and the one it restores.                                          *)
Outcome(done, f) ==
  IF done.staged[f] = Nothing \/ (done.before[f] # Nothing /\ ~done.force)
  THEN done.before[f] ELSE done.staged[f]
Halved(files) == files["agentKey"] = files["agentPub"]
OwnKeys == {"operatorKey", "agentKey"}
Halves  == {"agentKey", "agentPub"}
InStock(e) == IF onDisk[e] = Nothing THEN 0 ELSE 1

ReadsTruly ==
  trustJob.step = "read" =>
    /\ trustJob.from <= keysMade /\ trustJob.read["homeKey"] = Nothing
    /\ trustJob.from = keysMade =>
         \A k \in OwnKeys : onDisk[k] = Nothing \/ k \in trustJob.todo \/ trustJob.read[k] = onDisk[k]
    /\ ~torn => \/ \A x \in Halves : x \notin trustJob.todo /\ trustJob.read[x] = Nothing
                \/ \A x \in Halves : /\ onDisk[x] # Nothing
                                     /\ x \in trustJob.todo \/ trustJob.read[x] = onDisk[x]
RestoresTruly ==
  Restoring =>
    /\ trustJob.staged = archive /\ restores >= 1
    /\ \A f \in trustJob.todo : trustJob.staged[f] # Nothing /\ f \notin trustJob.conflicts
    /\ trustJob.step = "put" => trustJob.file \in trustJob.todo
    /\ ~trustJob.met =>
         /\ \A f \in TrustFiles : onDisk[f] = IF f \in BackupSet \ trustJob.todo
                                              THEN Outcome(trustJob, f) ELSE trustJob.before[f]
         /\ \A f \in trustJob.conflicts : trustJob.staged[f] \notin {Nothing, onDisk[f]}
         /\ \A f \in BackupSet \ (trustJob.todo \cup trustJob.conflicts) :
              trustJob.staged[f] \in {Nothing, onDisk[f]}
         /\ trustJob.step = "put" => trustJob.force \/ onDisk[trustJob.file] = Nothing
    /\ ~torn => ~trustJob.met /\ Halved(trustJob.before) /\ ~atBackup.torn
    /\ \A e \in Waiting \cap trustJob.todo : sentOn[e] + InStock(e) <= restores
OneOrigin ==
  /\ atBackup.made <= keysMade /\ archive["homeKey"] = Nothing
  /\ atBackup.made = keysMade => \A k \in OwnKeys :
       /\ onDisk[k] \in {Nothing, archive[k]}
       /\ Restoring /\ k \notin trustJob.todo \cup trustJob.conflicts => archive[k] \in {Nothing, onDisk[k]}
HalvesBelong ==
  /\ ~torn /\ ~Restoring => Halved(onDisk)
  /\ ~atBackup.torn => Halved(archive)
SentRightly == \A e \in Waiting : sentOn[e] + InStock(e) <= 1 + restores

BackupInv == BackupTypeOK /\ ReadsTruly /\ RestoresTruly /\ OneOrigin /\ HalvesBelong /\ SentRightly

LEMMA BackupBegins == BackupInit => BackupInv
<1>. SUFFICES ASSUME BackupInit PROVE BackupInv
  OBVIOUS
<1>1. NoFiles \in FileMaps /\ NoFiles = [f \in TrustFiles |-> 0]
  BY BackupAssumption DEF NoFiles, FileMaps, Holds, Nothing
<1>2. {"operatorKey", "agentKey", "agentPub", "homeKey"} \subseteq TrustFiles
  BY DEF TrustFiles, BackupSet
<1>3. trustJob = NoTask /\ NoTask.step = "idle" /\ NoTask \in {NoTask} \cup Reads \cup Restores
  BY DEF BackupInit, NoTask
<1>4. BackupTypeOK
  <2>1. \A n \in Nat : 0 \in 0..n
    OBVIOUS
  <2>2. sentOn \in [Waiting -> 0..(MaxRestores + 1)]
    BY BackupAssumption DEF BackupInit
  <2>. QED BY <1>1, <1>3, <2>1, <2>2, BackupAssumption DEF BackupInit, BackupTypeOK, Nothing
<1>5. ReadsTruly /\ RestoresTruly
  BY <1>3 DEF ReadsTruly, RestoresTruly, Restoring
<1>6. OneOrigin /\ HalvesBelong
  BY <1>1, <1>2, <1>3 DEF BackupInit, OneOrigin, HalvesBelong, Halved, OwnKeys, Nothing, Restoring
<1>7. SentRightly
  <2>. SUFFICES ASSUME NEW e \in Waiting PROVE sentOn[e] + InStock(e) <= 1 + restores
    BY DEF SentRightly
  <2>1. e \in TrustFiles
    BY DEF TrustFiles, BackupSet
  <2>2. InStock(e) = 0 /\ sentOn[e] = 0 /\ restores = 0
    BY <1>1, <2>1 DEF BackupInit, InStock, Nothing
  <2>. QED BY <2>2
<1>. QED BY <1>4, <1>5, <1>6, <1>7 DEF BackupInv

LEMMA BackupHolds == BackupInv => BackupKeeps
<1>. SUFFICES ASSUME BackupInv PROVE BackupKeeps
  OBVIOUS
<1>1. BackupTypeOK /\ RestoresTruly /\ OneOrigin /\ HalvesBelong /\ SentRightly
  BY DEF BackupInv
<1>2. Restored => trustJob.step = "restore" /\ trustJob.todo = {} /\ Restoring
  BY DEF Restored, Restoring
<1>3. RestoreIsTrue
  BY <1>1, <1>2 DEF RestoreIsTrue, RestoresTruly, BackupTypeOK, Reads, Restores, TrustFiles, NoTask, Restoring, Outcome
<1>4. SameIdentity
  BY <1>1, <1>2 DEF SameIdentity, OneOrigin, HalvesBelong, Halved, Recoverable, Signer, OwnKeys,
     Nothing
<1>5. SentPerRestore
  <2>. SUFFICES ASSUME NEW e \in Waiting PROVE sentOn[e] <= 1 + restores
    BY DEF SentPerRestore
  <2>1. sentOn[e] + InStock(e) <= 1 + restores /\ InStock(e) \in {0, 1}
    BY <1>1 DEF SentRightly, InStock
  <2>. QED BY <1>1, <2>1, BackupAssumption DEF BackupTypeOK
<1>. QED BY <1>3, <1>4, <1>5 DEF BackupKeeps
LEMMA TrustJobFacts ==
  ASSUME BackupTypeOK
  PROVE  /\ Restoring <=> trustJob \in Restores
         /\ trustJob.step = "read" <=> trustJob \in Reads
         /\ trustJob = NoTask <=> trustJob.step = "idle"
         /\ trustJob \notin Restores \cup Reads => trustJob = NoTask
BY DEF BackupTypeOK, Restoring, Reads, Restores, NoTask

(* Somebody else writes a file: only a restore under way notes it.         *)
LEMMA MetFacts ==
  ASSUME BackupTypeOK, Met
  PROVE  /\ trustJob' \in {NoTask} \cup Reads \cup Restores /\ torn' \in BOOLEAN
         /\ ~Restoring => ~Restoring' /\ trustJob' = trustJob /\ torn' = torn
         /\ Restoring =>
              /\ Restoring' /\ torn' /\ trustJob'.met /\ trustJob'.step = trustJob.step
              /\ trustJob'.step # "read"
              /\ trustJob'.todo = trustJob.todo /\ trustJob'.staged = trustJob.staged
              /\ trustJob'.file = trustJob.file /\ trustJob'.conflicts = trustJob.conflicts
<1>1. CASE ~Restoring
  BY <1>1 DEF Met, BackupTypeOK, Restoring
<1>2. CASE Restoring
  <2>1. trustJob \in Restores
    BY <1>2, TrustJobFacts
  <2>2. trustJob' = [trustJob EXCEPT !.met = TRUE] /\ torn'
    BY <1>2 DEF Met
  <2>. QED BY <1>2, <2>1, <2>2 DEF Restores, Restoring
<1>. QED BY <1>1, <1>2

LEMMA SetFile ==
  ASSUME NEW files \in FileMaps, NEW f \in TrustFiles, NEW n \in Holds(f) \cap Nat
  PROVE  [files EXCEPT ![f] = n] \in FileMaps
BY DEF FileMaps

LEMMA FileFacts ==
  /\ \A f \in TrustFiles : Holds(f) \subseteq Nat /\ 0 \in Holds(f)
  /\ PrivateKeys \cup OwnKeys \cup Halves \cup {"pins"} \cup Waiting \subseteq TrustFiles
  /\ \A k \in PrivateKeys \cup OwnKeys \cup Halves : Holds(k) = 0..MaxIdentities /\ k \notin Waiting \cup {"pins"}
  /\ "homeKey" \notin BackupSet
  /\ \A e \in Waiting : e # "pins" /\ Holds(e) = {0, 1} /\ e \notin PrivateKeys \cup OwnKeys \cup Halves
  /\ Holds("pins") = 0..MaxPinned
BY BackupAssumption DEF Holds, TrustFiles, BackupSet, PrivateKeys, OwnKeys, Halves

(* The key that signs is an identity's.                                    *)
LEMMA SignerFacts == ASSUME NEW files \in FileMaps PROVE Signer(files) \in 0..MaxIdentities
<1>1. ASSUME NEW k \in PrivateKeys PROVE files[k] \in 0..MaxIdentities
  BY FileFacts DEF FileMaps
<1>2. /\ files["agentKey"] \in 0..MaxIdentities /\ files["homeKey"] \in 0..MaxIdentities
      /\ files["operatorKey"] \in 0..MaxIdentities
  BY <1>1 DEF PrivateKeys
<1>. QED BY <1>2 DEF Signer

(* Another writer touches none of the keys.                                *)
LEMMA KeysUntouched ==
  ASSUME BackupInv, Met, onDisk' \in FileMaps,
         \A k \in OwnKeys \cup Halves : onDisk'[k] = onDisk[k],
         UNCHANGED <<archive, keysMade, atBackup>>
  PROVE  ReadsTruly' /\ OneOrigin' /\ HalvesBelong'
<1>1. BackupTypeOK /\ ReadsTruly /\ OneOrigin /\ HalvesBelong
  BY DEF BackupInv
<1>2. ReadsTruly'
  BY <1>1, MetFacts DEF ReadsTruly, Restoring
<1>3. OneOrigin'
  BY <1>1, MetFacts DEF OneOrigin
<1>4. HalvesBelong'
  BY <1>1, MetFacts DEF HalvesBelong, Halved, Halves
<1>. QED BY <1>2, <1>3, <1>4

LEMMA RestoreMeets ==
  ASSUME BackupInv, Met, UNCHANGED <<archive, restores, atBackup>>,
         \A e \in Waiting \cap trustJob.todo : Restoring => (sentOn[e] + InStock(e))' <= restores
  PROVE  RestoresTruly'
BY MetFacts DEF BackupInv, RestoresTruly

LEMMA PinKeeps == BackupInv /\ PinPeer => BackupInv'
<1>. SUFFICES ASSUME BackupInv, PinPeer PROVE BackupInv'
  OBVIOUS
<1>1. BackupTypeOK /\ RestoresTruly /\ SentRightly /\ Met /\ onDisk \in FileMaps
  BY DEF BackupInv, PinPeer, BackupTypeOK
<1>2. onDisk["pins"] \in Nat
  BY <1>1, FileFacts DEF FileMaps
<1>3. onDisk' \in FileMaps /\ \A f \in TrustFiles \ {"pins"} : onDisk'[f] = onDisk[f]
  <2>1. onDisk["pins"] + 1 \in Holds("pins")
    BY <1>2, FileFacts, BackupAssumption DEF PinPeer
  <2>. QED BY <1>1, <1>2, <2>1, SetFile, FileFacts DEF PinPeer, FileMaps
<1>4. ReadsTruly' /\ OneOrigin' /\ HalvesBelong'
  BY <1>1, <1>3, KeysUntouched, FileFacts DEF PinPeer, tally
<1>5. \A e \in Waiting : InStock(e)' = InStock(e) /\ sentOn'[e] = sentOn[e] /\ restores' = restores
  BY <1>3, FileFacts DEF InStock, PinPeer, tally
<1>6. RestoresTruly'
  BY <1>1, <1>5, RestoreMeets DEF PinPeer, RestoresTruly, tally
<1>7. SentRightly'
  BY <1>1, <1>5 DEF SentRightly
<1>8. BackupTypeOK'
  BY <1>1, <1>3, MetFacts DEF BackupTypeOK, PinPeer, tally
<1>. QED BY <1>4, <1>6, <1>7, <1>8 DEF BackupInv

LEMMA KeepKeeps == ASSUME NEW e \in Waiting, BackupInv, KeepEntry(e) PROVE BackupInv'
<1>1. BackupTypeOK /\ RestoresTruly /\ SentRightly /\ Met /\ onDisk \in FileMaps
  BY DEF BackupInv, KeepEntry, BackupTypeOK
<1>2. onDisk' \in FileMaps /\ onDisk'[e] = 1 /\ \A f \in TrustFiles \ {e} : onDisk'[f] = onDisk[f]
  BY <1>1, SetFile, FileFacts DEF KeepEntry, FileMaps
<1>3. ReadsTruly' /\ OneOrigin' /\ HalvesBelong'
  BY <1>1, <1>2, KeysUntouched, FileFacts DEF KeepEntry, tally
<1>4. \A x \in Waiting : sentOn'[x] + InStock(x)' <= 1 + restores
  <2>. SUFFICES ASSUME NEW x \in Waiting PROVE sentOn'[x] + InStock(x)' <= 1 + restores
    OBVIOUS
  <2>1. CASE x = e
    BY <1>1, <1>2, <2>1, BackupAssumption DEF KeepEntry, tally, InStock, Nothing, BackupTypeOK
  <2>2. CASE x # e
    <3>1. InStock(x)' = InStock(x) /\ sentOn'[x] = sentOn[x]
      BY <1>2, <2>2, FileFacts DEF KeepEntry, tally, InStock
    <3>. QED BY <1>1, <3>1 DEF SentRightly
  <2>. QED BY <2>1, <2>2
<1>5. \A x \in Waiting \cap trustJob.todo : Restoring => sentOn'[x] + InStock(x)' <= restores
  <2>. SUFFICES ASSUME NEW x \in Waiting \cap trustJob.todo, Restoring
                PROVE  sentOn'[x] + InStock(x)' <= restores
    OBVIOUS
  <2>1. CASE x = e
    BY <1>1, <1>2, <2>1, BackupAssumption DEF KeepEntry, tally, InStock, Nothing, BackupTypeOK, RestoresTruly
  <2>2. CASE x # e
    <3>1. InStock(x)' = InStock(x) /\ sentOn'[x] = sentOn[x]
      BY <1>2, <2>2, FileFacts DEF KeepEntry, tally, InStock
    <3>. QED BY <1>1, <3>1 DEF RestoresTruly
  <2>. QED BY <2>1, <2>2
<1>6. RestoresTruly'
  BY <1>5, <1>1, RestoreMeets DEF KeepEntry, tally
<1>7. SentRightly'
  BY <1>4 DEF SentRightly, KeepEntry, tally
<1>8. BackupTypeOK'
  BY <1>1, <1>2, MetFacts DEF BackupTypeOK, KeepEntry, tally
<1>. QED BY <1>3, <1>6, <1>7, <1>8 DEF BackupInv

LEMMA SendKeeps == ASSUME NEW e \in Waiting, BackupInv, SendEntry(e) PROVE BackupInv'
<1>1. BackupTypeOK /\ RestoresTruly /\ SentRightly /\ Met /\ onDisk \in FileMaps
  BY DEF BackupInv, SendEntry, BackupTypeOK
<1>2. onDisk' \in FileMaps /\ onDisk'[e] = 0 /\ \A f \in TrustFiles \ {e} : onDisk'[f] = onDisk[f]
  BY <1>1, SetFile, FileFacts DEF SendEntry, FileMaps, Nothing
<1>3. ReadsTruly' /\ OneOrigin' /\ HalvesBelong'
  BY <1>1, <1>2, KeysUntouched, FileFacts DEF SendEntry
<1>4. \A x \in Waiting : sentOn'[x] + InStock(x)' = sentOn[x] + InStock(x)
  <2>. SUFFICES ASSUME NEW x \in Waiting PROVE sentOn'[x] + InStock(x)' = sentOn[x] + InStock(x)
    OBVIOUS
  <2>1. CASE x = e
    BY <1>1, <1>2, <2>1, BackupAssumption DEF SendEntry, InStock, Nothing, BackupTypeOK
  <2>2. CASE x # e
    BY <1>1, <1>2, <2>2, FileFacts DEF SendEntry, InStock, BackupTypeOK
  <2>. QED BY <2>1, <2>2
<1>5. RestoresTruly'
  BY <1>1, <1>4, RestoreMeets DEF SendEntry, RestoresTruly
<1>6. SentRightly'
  BY <1>1, <1>4 DEF SentRightly, SendEntry
<1>7. sentOn' \in [Waiting -> 0..(MaxRestores + 1)]
  <2>1. sentOn[e] + 1 <= 1 + restores
    BY <1>1 DEF SentRightly, InStock, SendEntry
  <2>. QED BY <1>1, <2>1, BackupAssumption DEF SendEntry, BackupTypeOK
<1>8. BackupTypeOK'
  BY <1>1, <1>2, <1>7, MetFacts DEF BackupTypeOK, SendEntry
<1>. QED BY <1>3, <1>5, <1>6, <1>8 DEF BackupInv

(* A new identity: no archive is of the present ones any more.             *)
LEMMA MakeKeeps == ASSUME NEW k \in PrivateKeys, BackupInv, MakeIdentity(k) PROVE BackupInv'
<1>1. /\ BackupTypeOK /\ ReadsTruly /\ RestoresTruly /\ OneOrigin /\ HalvesBelong /\ SentRightly
      /\ Met /\ onDisk \in FileMaps
  BY DEF BackupInv, MakeIdentity, BackupTypeOK
<1>2. keysMade' = keysMade + 1 /\ keysMade' \in 0..MaxIdentities \cap Nat /\ keysMade \in Nat
  BY <1>1, BackupAssumption DEF MakeIdentity, BackupTypeOK
<1>3. /\ onDisk' \in FileMaps /\ \A f \in TrustFiles \ (PrivateKeys \cup Halves) : onDisk'[f] = onDisk[f]
      /\ k # "agentKey" => \A x \in Halves : onDisk'[x] = onDisk[x]
      /\ k = "agentKey" => Halved(onDisk')
  <2>1. CASE k # "agentKey"
    <3>1. onDisk' = [onDisk EXCEPT ![k] = keysMade']
      BY <2>1 DEF MakeIdentity
    <3>2. k \in TrustFiles /\ keysMade' \in Holds(k) \cap Nat /\ k \notin Halves
      BY <1>2, <2>1, FileFacts DEF PrivateKeys, Halves
    <3>3. onDisk' \in FileMaps
      BY <1>1, <3>1, <3>2, SetFile
    <3>. QED BY <1>1, <2>1, <3>1, <3>2, <3>3, FileFacts DEF FileMaps
  <2>2. CASE k = "agentKey"
    <3>1. onDisk' = [[onDisk EXCEPT !["agentKey"] = keysMade'] EXCEPT !["agentPub"] = keysMade']
      BY <2>2 DEF MakeIdentity
    <3>2. [onDisk EXCEPT !["agentKey"] = keysMade'] \in FileMaps
      BY <1>1, <1>2, SetFile, FileFacts DEF Halves
    <3>3. onDisk' \in FileMaps
      BY <1>2, <3>1, <3>2, SetFile, FileFacts DEF Halves
    <3>. QED BY <1>1, <2>2, <3>1, <3>3, FileFacts DEF FileMaps, Halves, Halved
  <2>. QED BY <2>1, <2>2
<1>4. ReadsTruly'
  <2>. SUFFICES ASSUME trustJob'.step = "read" PROVE ReadsTruly'
    BY DEF ReadsTruly
  <2>1. trustJob' = trustJob /\ torn' = torn /\ trustJob \in Reads
    BY <1>1, MetFacts, TrustJobFacts DEF Restoring
  <2>2. trustJob.from <= keysMade /\ trustJob.from \in Nat
    BY <1>1, <2>1, BackupAssumption DEF ReadsTruly, Reads
  <2>3. trustJob.from # keysMade' /\ trustJob.from <= keysMade'
    BY <1>2, <2>2
  <2>4. ~torn => \/ \A x \in Halves : x \notin trustJob.todo /\ trustJob.read[x] = Nothing
                 \/ \A x \in Halves : /\ onDisk'[x] # Nothing
                                      /\ x \in trustJob.todo \/ trustJob.read[x] = onDisk'[x]
    BY <1>1, <1>3, <2>1 DEF ReadsTruly, MakeIdentity, Halves
  <2>. QED BY <1>1, <2>1, <2>3, <2>4 DEF ReadsTruly
<1>5. OneOrigin'
  <2>1. atBackup.made \in Nat /\ atBackup.made <= keysMade
    BY <1>1, BackupAssumption DEF OneOrigin, BackupTypeOK
  <2>2. atBackup'.made <= keysMade' /\ atBackup'.made # keysMade' /\ archive' = archive
    BY <1>2, <2>1 DEF MakeIdentity
  <2>. QED BY <1>1, <2>2 DEF OneOrigin
<1>6. HalvesBelong'
  BY <1>1, <1>3, MetFacts DEF HalvesBelong, Halved, Halves, MakeIdentity
<1>7. \A e \in Waiting : InStock(e)' = InStock(e) /\ sentOn'[e] = sentOn[e] /\ restores' = restores
  BY <1>3, FileFacts DEF InStock, MakeIdentity
<1>8. RestoresTruly'
  BY <1>1, <1>7, RestoreMeets DEF MakeIdentity, RestoresTruly
<1>9. SentRightly'
  BY <1>1, <1>7 DEF SentRightly
<1>10. BackupTypeOK'
  BY <1>1, <1>2, <1>3, MetFacts DEF BackupTypeOK, MakeIdentity
<1>. QED BY <1>4, <1>5, <1>6, <1>8, <1>9, <1>10 DEF BackupInv

LEMMA DaemonKeeps == BackupInv /\ StartDaemon => BackupInv'
<1>. SUFFICES ASSUME BackupInv, StartDaemon PROVE BackupInv'
  OBVIOUS
<1>1. Signer(onDisk) \in 0..MaxIdentities
  BY SignerFacts DEF BackupInv, BackupTypeOK
<1>2. BackupTypeOK'
  BY <1>1 DEF BackupInv, BackupTypeOK, StartDaemon, tally
<1>. QED BY <1>2 DEF BackupInv, StartDaemon, tally, ReadsTruly, RestoresTruly, Restoring, OneOrigin,
            HalvesBelong, SentRightly, InStock

LEMMA NoFilesFacts == NoFiles \in FileMaps /\ \A f \in TrustFiles : NoFiles[f] = 0
  BY BackupAssumption DEF NoFiles, FileMaps, Holds, Nothing

LEMMA WipeKeeps == BackupInv /\ WipeMachine => BackupInv'
<1>. SUFFICES ASSUME BackupInv, WipeMachine PROVE BackupInv'
  OBVIOUS
<1>1. BackupTypeOK /\ OneOrigin /\ HalvesBelong /\ SentRightly
  BY DEF BackupInv
<1>2. trustJob' = NoTask /\ trustJob'.step = "idle" /\ ~Restoring' /\ torn' = FALSE
  BY DEF WipeMachine, NoTask, Restoring
<1>3. onDisk' = NoFiles /\ \A f \in TrustFiles : onDisk'[f] = 0
  BY NoFilesFacts DEF WipeMachine
<1>4. BackupTypeOK'
  <2>1. wiped' \in 0..MaxWipes
    BY <1>1, BackupAssumption DEF BackupTypeOK, WipeMachine
  <2>2. daemon' \in 0..MaxIdentities
    BY BackupAssumption DEF WipeMachine, Nothing
  <2>. QED BY <1>1, <1>2, <1>3, <2>1, <2>2, NoFilesFacts DEF BackupTypeOK, WipeMachine
<1>5. ReadsTruly' /\ RestoresTruly'
  BY <1>2 DEF ReadsTruly, RestoresTruly
<1>6. OneOrigin'
  BY <1>1, <1>2, <1>3, FileFacts DEF OneOrigin, WipeMachine, Nothing
<1>7. HalvesBelong'
  BY <1>1, <1>3, FileFacts DEF HalvesBelong, Halved, Halves, WipeMachine
<1>8. SentRightly'
  <2>. SUFFICES ASSUME NEW e \in Waiting PROVE sentOn'[e] + InStock(e)' <= 1 + restores'
    BY DEF SentRightly
  <2>1. InStock(e)' = 0 /\ InStock(e) \in {0, 1} /\ sentOn[e] \in Nat /\ restores \in Nat
    BY <1>1, <1>3, FileFacts, BackupAssumption DEF InStock, Nothing, BackupTypeOK
  <2>2. sentOn[e] + InStock(e) <= 1 + restores
    BY <1>1 DEF SentRightly
  <2>. QED BY <2>1, <2>2 DEF WipeMachine
<1>. QED BY <1>4, <1>5, <1>6, <1>7, <1>8 DEF BackupInv

LEMMA BackupStarts == ASSUME NEW b \in BOOLEAN, BackupInv, StartBackup(b) PROVE BackupInv'
<1>1. BackupTypeOK /\ OneOrigin /\ HalvesBelong /\ SentRightly /\ ~Restoring /\ onDisk \in FileMaps
  BY DEF BackupInv, StartBackup, NoTask, Restoring, BackupTypeOK
<1>2. /\ trustJob' = [step |-> "read", todo |-> InPlace(onDisk), read |-> NoFiles, from |-> keysMade]
      /\ trustJob' \in Reads /\ ~Restoring'
  BY <1>1, NoFilesFacts DEF StartBackup, Reads, InPlace, BackupTypeOK, Restoring
<1>3. BackupTypeOK'
  BY <1>1, <1>2 DEF BackupTypeOK, StartBackup, machine, tally
<1>4. ReadsTruly'
  <2>1. trustJob'.from = keysMade /\ trustJob'.todo = InPlace(onDisk) /\ trustJob'.read = NoFiles
    BY <1>2
  <2>2. keysMade' = keysMade /\ onDisk' = onDisk /\ torn' = torn /\ keysMade \in Nat
    BY <1>1, BackupAssumption DEF StartBackup, machine, tally, BackupTypeOK
  <2>3. \A k \in OwnKeys \cup Halves : k \in InPlace(onDisk) <=> onDisk[k] # Nothing
    BY DEF InPlace, OwnKeys, Halves, BackupSet
  <2>4. ~torn => onDisk["agentKey"] = onDisk["agentPub"]
    BY <1>1 DEF HalvesBelong, Halved
  <2>5. ~torn => \/ \A x \in Halves : x \notin InPlace(onDisk) /\ NoFiles[x] = Nothing
                 \/ \A x \in Halves : onDisk[x] # Nothing /\ x \in InPlace(onDisk)
    BY <2>3, <2>4, NoFilesFacts, FileFacts DEF Halves, Nothing
  <2>6. NoFiles["homeKey"] = Nothing
    BY NoFilesFacts, FileFacts DEF PrivateKeys, Nothing
  <2>. QED BY <2>1, <2>2, <2>3, <2>5, <2>6 DEF ReadsTruly
<1>. QED BY <1>1, <1>2, <1>3, <1>4 DEF BackupInv, StartBackup, machine, tally, RestoresTruly, OneOrigin,
            HalvesBelong, SentRightly, InStock

LEMMA ReadKeeps == BackupInv /\ ReadPayload => BackupInv'
<1>. SUFFICES ASSUME BackupInv, ReadPayload PROVE BackupInv'
  OBVIOUS
<1>1. BackupTypeOK /\ ReadsTruly /\ OneOrigin /\ HalvesBelong /\ SentRightly /\ ~Restoring
  BY DEF BackupInv, ReadPayload, Restoring
<1>2. trustJob \in Reads
  BY <1>1, TrustJobFacts DEF ReadPayload
<1>3. PICK f \in First(trustJob.todo) :
        trustJob' = IF onDisk[f] = Nothing THEN NoTask
                    ELSE [trustJob EXCEPT !.todo = @ \ {f}, !.read[f] = onDisk[f]]
  BY DEF ReadPayload
<1>4. f \in trustJob.todo /\ f \in BackupSet /\ f \in TrustFiles /\ f # "homeKey"
  BY <1>2, <1>3, FileFacts DEF First, Reads, TrustFiles
<1>5. UNCHANGED <<onDisk, daemon, archive, keysMade, wiped, restores, sentOn, atBackup, torn>>
  BY DEF ReadPayload, machine, tally
<1>6. CASE onDisk[f] = Nothing
  <2>1. trustJob' = NoTask /\ trustJob'.step = "idle" /\ ~Restoring'
    BY <1>3, <1>6 DEF NoTask, Restoring
  <2>. QED BY <1>1, <1>5, <2>1 DEF BackupInv, BackupTypeOK, ReadsTruly, RestoresTruly, OneOrigin,
              HalvesBelong, SentRightly, InStock
<1>7. CASE onDisk[f] # Nothing
  <2>1. trustJob' = [trustJob EXCEPT !.todo = @ \ {f}, !.read[f] = onDisk[f]]
    BY <1>3, <1>7
  <2>2. [trustJob.read EXCEPT ![f] = onDisk[f]] \in FileMaps
    BY <1>1, <1>2, <1>4, SetFile DEF Reads, BackupTypeOK, FileMaps
  <2>3. /\ trustJob' \in Reads /\ ~Restoring' /\ trustJob'.step = "read"
        /\ trustJob'.todo = trustJob.todo \ {f} /\ trustJob'.from = trustJob.from
        /\ trustJob'.read = [trustJob.read EXCEPT ![f] = onDisk[f]]
    BY <1>2, <2>1, <2>2 DEF Reads, Restoring
  <2>4. \A g \in TrustFiles : trustJob'.read[g] = IF g = f THEN onDisk[f] ELSE trustJob.read[g]
    BY <1>2, <2>3 DEF Reads, FileMaps
  <2>5. ReadsTruly'
    BY <1>1, <1>2, <1>4, <1>5, <1>7, <2>3, <2>4, FileFacts DEF ReadsTruly, Reads, Halves, OwnKeys, PrivateKeys
  <2>. QED BY <1>1, <1>5, <2>3, <2>5 DEF BackupInv, BackupTypeOK, RestoresTruly, OneOrigin,
              HalvesBelong, SentRightly, InStock
<1>. QED BY <1>6, <1>7

LEMMA ReplaceKeeps == BackupInv /\ ReplaceArchive => BackupInv'
<1>. SUFFICES ASSUME BackupInv, ReplaceArchive PROVE BackupInv'
  OBVIOUS
<1>1. BackupTypeOK /\ ReadsTruly /\ OneOrigin /\ HalvesBelong /\ SentRightly /\ ~Restoring
  BY DEF BackupInv, ReplaceArchive, Restoring
<1>2. trustJob \in Reads /\ trustJob.todo = {} /\ trustJob.from \in 0..MaxIdentities /\ trustJob.from \in Nat
  BY <1>1, TrustJobFacts, BackupAssumption DEF ReplaceArchive, Reads
<1>3. /\ trustJob' = NoTask /\ trustJob'.step = "idle" /\ ~Restoring' /\ archive' = trustJob.read
      /\ atBackup' = [made |-> trustJob.from, signer |-> Signer(onDisk), torn |-> torn]
      /\ UNCHANGED <<onDisk, daemon, keysMade, wiped, restores, sentOn, torn>>
  BY DEF ReplaceArchive, NoTask, Restoring, machine, tally
<1>4. Signer(onDisk) \in 0..MaxIdentities
  BY <1>1, SignerFacts DEF BackupTypeOK
<1>5. BackupTypeOK'
  BY <1>1, <1>2, <1>3, <1>4 DEF BackupTypeOK, Reads
<1>6. ReadsTruly' /\ RestoresTruly'
  BY <1>3 DEF ReadsTruly, RestoresTruly
<1>7. /\ trustJob.from <= keysMade /\ trustJob.read["homeKey"] = Nothing
      /\ trustJob.from = keysMade =>
           \A k \in OwnKeys : onDisk[k] = Nothing \/ trustJob.read[k] = onDisk[k]
      /\ ~torn => trustJob.read["agentKey"] = trustJob.read["agentPub"]
  BY <1>1, <1>2, <1>3 DEF ReadsTruly, ReplaceArchive, HalvesBelong, Halved, Halves
<1>8. OneOrigin'
  BY <1>3, <1>7 DEF OneOrigin
<1>9. HalvesBelong'
  BY <1>1, <1>3, <1>7 DEF HalvesBelong, Halved
<1>10. SentRightly'
  BY <1>1, <1>3 DEF SentRightly, InStock
<1>. QED BY <1>5, <1>6, <1>8, <1>9, <1>10 DEF BackupInv

LEMMA RestoreStarts == ASSUME NEW b \in BOOLEAN, BackupInv, StartRestore(b) PROVE BackupInv'
<1>1. BackupTypeOK /\ OneOrigin /\ HalvesBelong /\ SentRightly /\ ~Restoring
  BY DEF BackupInv, StartRestore, NoTask, Restoring
<1>2. /\ trustJob' = [step |-> "restore", todo |-> InPlace(archive), staged |-> archive,
                       file |-> "none", before |-> onDisk, force |-> b, conflicts |-> {}, met |-> FALSE]
      /\ Restoring' /\ restores' = restores + 1 /\ torn' = (torn \/ atBackup.torn)
      /\ UNCHANGED <<onDisk, daemon, archive, keysMade, wiped, sentOn, atBackup>>
  BY DEF StartRestore, Restoring, machine
<1>3. trustJob' \in Restores /\ InPlace(archive) \subseteq BackupSet
  BY <1>1, <1>2 DEF Restores, InPlace, BackupTypeOK
<1>4. /\ trustJob'.step = "restore" /\ trustJob'.todo = InPlace(archive) /\ trustJob'.staged = archive
      /\ trustJob'.before = onDisk /\ trustJob'.conflicts = {} /\ trustJob'.met = FALSE
  BY <1>2
<1>5. restores \in Nat /\ restores' \in 0..MaxRestores
  BY <1>1, <1>2, BackupAssumption DEF BackupTypeOK, StartRestore
<1>6. torn' \in BOOLEAN
  BY <1>1, <1>2 DEF BackupTypeOK
<1>7. BackupTypeOK'
  BY <1>1, <1>2, <1>3, <1>5, <1>6 DEF BackupTypeOK
<1>8. ReadsTruly'
  BY <1>4 DEF ReadsTruly
<1>9. \A f \in BackupSet : f \in trustJob'.todo <=> archive[f] # Nothing
  BY <1>4 DEF InPlace
<1>10. /\ \A f \in TrustFiles : onDisk'[f] = IF f \in BackupSet \ trustJob'.todo
                                              THEN Outcome(trustJob', f) ELSE trustJob'.before[f]
       /\ \A f \in BackupSet \ trustJob'.todo : trustJob'.staged[f] = Nothing
  BY <1>2, <1>4, <1>9 DEF Outcome
<1>11. ~torn' => Halved(trustJob'.before) /\ ~atBackup'.torn
  BY <1>1, <1>2, <1>4 DEF HalvesBelong
<1>12. \A e \in Waiting : (sentOn[e] + InStock(e))' <= restores'
  BY <1>1, <1>2, <1>5 DEF SentRightly, InStock
<1>13. RestoresTruly'
  <2>1. \A f \in trustJob'.todo : trustJob'.staged[f] # Nothing /\ f \notin trustJob'.conflicts
    BY <1>3, <1>4, <1>9
  <2>2. trustJob'.staged = archive' /\ restores' >= 1 /\ trustJob'.step # "put"
    BY <1>2, <1>4, <1>5
  <2>3. /\ \A f \in trustJob'.conflicts : trustJob'.staged[f] \notin {Nothing, onDisk'[f]}
        /\ \A f \in BackupSet \ (trustJob'.todo \cup trustJob'.conflicts) :
             trustJob'.staged[f] \in {Nothing, onDisk'[f]}
    BY <1>4, <1>10
  <2>4. ~torn' => ~trustJob'.met
    BY <1>4
  <2>. QED BY <1>10, <1>11, <1>12, <2>1, <2>2, <2>3, <2>4 DEF RestoresTruly
<1>14. OneOrigin'
  <2>1. \A k \in OwnKeys : k \in trustJob'.todo <=> archive[k] # Nothing
    BY <1>9 DEF OwnKeys, BackupSet
  <2>. QED BY <1>1, <1>2, <2>1 DEF OneOrigin
<1>15. HalvesBelong'
  BY <1>1, <1>2 DEF HalvesBelong
<1>16. SentRightly'
  <2>. SUFFICES ASSUME NEW e \in Waiting PROVE (sentOn[e] + InStock(e))' <= 1 + restores'
    BY DEF SentRightly
  <2>1. sentOn'[e] = sentOn[e] /\ InStock(e)' = InStock(e) /\ sentOn[e] \in Nat /\ InStock(e) \in Nat
    BY <1>1, <1>2, BackupAssumption DEF InStock, BackupTypeOK
  <2>2. sentOn[e] + InStock(e) <= 1 + restores
    BY <1>1 DEF SentRightly
  <2>. QED BY <1>2, <1>5, <2>1, <2>2
<1>. QED BY <1>7, <1>8, <1>13, <1>14, <1>15, <1>16 DEF BackupInv

LEMMA RestoreFacts ==
  ASSUME BackupInv, Restoring
  PROVE  /\ trustJob \in Restores /\ trustJob.staged = archive /\ trustJob.todo \subseteq BackupSet
         /\ trustJob.step # "read" /\ BackupTypeOK /\ RestoresTruly /\ OneOrigin /\ HalvesBelong /\ SentRightly
  BY TrustJobFacts DEF BackupInv, RestoresTruly, Restores, Restoring

LEMMA EndKeeps == BackupInv /\ (ReportRestore \/ JobDies) => BackupInv'
<1>. SUFFICES ASSUME BackupInv, ReportRestore \/ JobDies PROVE BackupInv'
  OBVIOUS
<1>1. /\ trustJob' = NoTask /\ trustJob'.step = "idle" /\ ~Restoring'
      /\ UNCHANGED <<onDisk, daemon, keysMade, wiped, restores, sentOn, archive, atBackup>>
  BY DEF ReportRestore, JobDies, NoTask, Restoring, machine, tally
<1>2. /\ BackupTypeOK /\ torn' \in BOOLEAN /\ OneOrigin /\ HalvesBelong /\ SentRightly
      /\ ~torn' /\ Restoring => ReportRestore
      /\ ~torn' => ~torn
  BY DEF BackupInv, BackupTypeOK, ReportRestore, JobDies
<1>3. BackupTypeOK'
  BY <1>1, <1>2 DEF BackupTypeOK
<1>4. ~torn' => Halved(onDisk)
  <2>1. ASSUME ~torn', Restoring PROVE Halved(onDisk)
    <3>1. trustJob \in Restores /\ trustJob.staged = archive /\ RestoresTruly /\ trustJob.todo = {} /\ ~torn
      BY <1>2, <2>1, RestoreFacts DEF ReportRestore
    <3>2. /\ ~trustJob.met /\ Halved(trustJob.before) /\ ~atBackup.torn
          /\ \A f \in BackupSet : onDisk[f] = Outcome(trustJob, f)
      BY <2>1, <3>1 DEF RestoresTruly, TrustFiles
    <3>3. Halved(archive)
      BY <1>2, <3>2 DEF HalvesBelong
    <3>. QED BY <3>1, <3>2, <3>3 DEF Halved, Outcome, BackupSet
  <2>. QED BY <1>2, <2>1 DEF HalvesBelong
<1>. QED BY <1>1, <1>2, <1>3, <1>4 DEF BackupInv, ReadsTruly, RestoresTruly, OneOrigin, HalvesBelong,
            SentRightly, InStock, Halved

(* The file a restore has in hand leaves its list: nothing else changes    *)
(* but what it says of that file.                                          *)
LEMMA CompareKeeps == BackupInv /\ ComparePayload => BackupInv'
<1>. SUFFICES ASSUME BackupInv, ComparePayload PROVE BackupInv'
  OBVIOUS
<1>1. /\ trustJob \in Restores /\ trustJob.staged = archive /\ Restoring /\ trustJob.step = "restore"
      /\ BackupTypeOK /\ RestoresTruly /\ OneOrigin /\ HalvesBelong /\ SentRightly
      /\ trustJob.todo \subseteq BackupSet
  BY RestoreFacts DEF ComparePayload, Restoring
<1>2. UNCHANGED <<onDisk, daemon, archive, keysMade, wiped, restores, sentOn, atBackup, torn>>
  BY DEF ComparePayload, machine, tally
<1>3. PICK f \in First(trustJob.todo) :
        LET rest == [trustJob EXCEPT !.todo = @ \ {f}] IN
        trustJob' = IF onDisk[f] = trustJob.staged[f] THEN rest
                    ELSE IF Conflicts(f) THEN [rest EXCEPT !.conflicts = @ \cup {f}]
                    ELSE [trustJob EXCEPT !.step = "put", !.file = f]
  BY DEF ComparePayload
<1>4. /\ f \in trustJob.todo /\ f \in BackupSet /\ f \in TrustFiles /\ trustJob.staged[f] # Nothing
      /\ f \notin trustJob.conflicts
  BY <1>1, <1>3 DEF First, TrustFiles, RestoresTruly
<1>5. /\ trustJob' \in Restores /\ Restoring' /\ trustJob'.step # "read"
      /\ trustJob'.staged = trustJob.staged /\ trustJob'.before = trustJob.before
      /\ trustJob'.force = trustJob.force /\ trustJob'.met = trustJob.met
      /\ \/ /\ onDisk[f] = trustJob.staged[f] /\ trustJob'.todo = trustJob.todo \ {f}
            /\ trustJob'.conflicts = trustJob.conflicts /\ trustJob'.step = "restore"
         \/ /\ Conflicts(f) /\ trustJob'.todo = trustJob.todo \ {f}
            /\ trustJob'.conflicts = trustJob.conflicts \cup {f} /\ trustJob'.step = "restore"
         \/ /\ ~Conflicts(f) /\ onDisk[f] # trustJob.staged[f] /\ trustJob'.todo = trustJob.todo
            /\ trustJob'.conflicts = trustJob.conflicts /\ trustJob'.step = "put" /\ trustJob'.file = f
  BY <1>1, <1>3, <1>4 DEF Restores, Restoring
<1>6. BackupTypeOK'
  BY <1>1, <1>2, <1>5 DEF BackupTypeOK
<1>7. ReadsTruly' /\ HalvesBelong' /\ SentRightly'
  BY <1>1, <1>2, <1>5 DEF ReadsTruly, HalvesBelong, SentRightly, InStock
<1>8. OneOrigin'
  BY <1>1, <1>2, <1>5 DEF OneOrigin
<1>9. \A g \in TrustFiles : Outcome(trustJob', g) = Outcome(trustJob, g)
  BY <1>5 DEF Outcome
<1>10. ~trustJob.met => /\ onDisk[f] = trustJob.before[f]
                        /\ trustJob'.step # "put" => onDisk[f] = Outcome(trustJob, f)
  BY <1>1, <1>4, <1>5 DEF RestoresTruly, Outcome, Conflicts, Differs
<1>11. ~trustJob'.met =>
         /\ \A g \in TrustFiles : onDisk'[g] = IF g \in BackupSet \ trustJob'.todo
                                              THEN Outcome(trustJob', g) ELSE trustJob'.before[g]
         /\ \A g \in trustJob'.conflicts : trustJob'.staged[g] \notin {Nothing, onDisk'[g]}
         /\ \A g \in BackupSet \ (trustJob'.todo \cup trustJob'.conflicts) :
              trustJob'.staged[g] \in {Nothing, onDisk'[g]}
         /\ trustJob'.step = "put" => trustJob'.force \/ onDisk'[trustJob'.file] = Nothing
  BY <1>1, <1>2, <1>4, <1>5, <1>9, <1>10 DEF RestoresTruly, Conflicts, Differs
<1>12. RestoresTruly'
  <2>1. /\ trustJob'.staged = archive' /\ restores' >= 1
        /\ \A g \in trustJob'.todo : trustJob'.staged[g] # Nothing /\ g \notin trustJob'.conflicts
        /\ trustJob'.step = "put" => trustJob'.file \in trustJob'.todo
    BY <1>1, <1>2, <1>4, <1>5 DEF RestoresTruly
  <2>2. ~torn' => ~trustJob'.met /\ Halved(trustJob'.before) /\ ~atBackup'.torn
    BY <1>1, <1>2, <1>5 DEF RestoresTruly
  <2>3. \A e \in Waiting \cap trustJob'.todo : (sentOn[e] + InStock(e))' <= restores'
    BY <1>1, <1>2, <1>5 DEF RestoresTruly, InStock
  <2>. QED BY <1>11, <2>1, <2>2, <2>3 DEF RestoresTruly
<1>. QED BY <1>6, <1>7, <1>8, <1>12 DEF BackupInv

LEMMA PutPayloadKeeps == BackupInv /\ PutPayload => BackupInv'
<1>. SUFFICES ASSUME BackupInv, PutPayload PROVE BackupInv'
  OBVIOUS
<1>. DEFINE f == trustJob.file
<1>1. /\ trustJob \in Restores /\ trustJob.staged = archive /\ Restoring /\ trustJob.step = "put"
      /\ BackupTypeOK /\ RestoresTruly /\ OneOrigin /\ HalvesBelong /\ SentRightly
      /\ trustJob.todo \subseteq BackupSet
  BY RestoreFacts DEF PutPayload, Restoring
<1>2. /\ UNCHANGED <<daemon, archive, keysMade, wiped, restores, sentOn, atBackup, torn>>
      /\ onDisk' = [onDisk EXCEPT ![f] = trustJob.staged[f]]
      /\ trustJob' = [trustJob EXCEPT !.step = "restore", !.todo = @ \ {f}]
  BY DEF PutPayload, tally
<1>3. /\ f \in trustJob.todo /\ f \in BackupSet /\ f \in TrustFiles /\ trustJob.staged[f] # Nothing
      /\ f \notin trustJob.conflicts /\ f # "homeKey"
  BY <1>1, FileFacts DEF TrustFiles, RestoresTruly
<1>4. /\ trustJob' \in Restores /\ Restoring' /\ trustJob'.step = "restore"
      /\ trustJob'.staged = trustJob.staged /\ trustJob'.before = trustJob.before
      /\ trustJob'.force = trustJob.force /\ trustJob'.met = trustJob.met
      /\ trustJob'.todo = trustJob.todo \ {f} /\ trustJob'.conflicts = trustJob.conflicts
  BY <1>1, <1>2 DEF Restores, Restoring
<1>5. /\ onDisk' \in FileMaps
      /\ \A g \in TrustFiles : onDisk'[g] = IF g = f THEN archive[f] ELSE onDisk[g]
  <2>1. archive[f] \in Holds(f) \cap Nat /\ onDisk \in FileMaps
    BY <1>1, <1>3 DEF BackupTypeOK, FileMaps
  <2>. QED BY <1>1, <1>2, <1>3, <2>1, SetFile DEF FileMaps
<1>6. BackupTypeOK'
  BY <1>1, <1>2, <1>4, <1>5 DEF BackupTypeOK
<1>7. ReadsTruly' /\ HalvesBelong'
  BY <1>1, <1>2, <1>4 DEF ReadsTruly, HalvesBelong
<1>8. OneOrigin'
  BY <1>1, <1>2, <1>3, <1>4, <1>5, FileFacts DEF OneOrigin
<1>9. \A g \in TrustFiles : Outcome(trustJob', g) = Outcome(trustJob, g)
  BY <1>4 DEF Outcome
<1>10. ~trustJob.met => Outcome(trustJob, f) = archive[f]
  BY <1>1, <1>3 DEF RestoresTruly, Outcome
<1>11. ~trustJob'.met =>
         /\ \A g \in TrustFiles : onDisk'[g] = IF g \in BackupSet \ trustJob'.todo
                                              THEN Outcome(trustJob', g) ELSE trustJob'.before[g]
         /\ \A g \in trustJob'.conflicts : trustJob'.staged[g] \notin {Nothing, onDisk'[g]}
         /\ \A g \in BackupSet \ (trustJob'.todo \cup trustJob'.conflicts) :
              trustJob'.staged[g] \in {Nothing, onDisk'[g]}
  <2>1. trustJob'.conflicts \subseteq TrustFiles
    BY <1>4 DEF Restores, TrustFiles
  <2>. QED BY <1>1, <1>3, <1>4, <1>5, <1>9, <1>10, <2>1 DEF RestoresTruly, TrustFiles
<1>12. ASSUME NEW e \in Waiting
       PROVE  /\ sentOn'[e] + InStock(e)' <= 1 + restores'
              /\ e \in trustJob'.todo => sentOn'[e] + InStock(e)' <= restores'
  <2>1. CASE e = f
    <3>1. sentOn[e] + InStock(e) <= restores /\ sentOn[e] \in Nat /\ restores \in Nat
      BY <1>1, <1>3, <2>1, BackupAssumption DEF RestoresTruly, BackupTypeOK
    <3>2. InStock(e) \in {0, 1} /\ InStock(e)' \in {0, 1} /\ sentOn'[e] = sentOn[e]
      BY <1>2 DEF InStock
    <3>. QED BY <1>2, <1>4, <2>1, <3>1, <3>2
  <2>2. CASE e # f
    <3>1. InStock(e)' = InStock(e) /\ sentOn'[e] = sentOn[e]
      BY <1>2, <1>5, <2>2, FileFacts DEF InStock
    <3>. QED BY <1>1, <1>2, <1>4, <2>2, <3>1 DEF RestoresTruly, SentRightly
  <2>. QED BY <2>1, <2>2
<1>13. RestoresTruly'
  <2>1. /\ trustJob'.staged = archive' /\ restores' >= 1 /\ trustJob'.step # "put"
        /\ \A g \in trustJob'.todo : trustJob'.staged[g] # Nothing /\ g \notin trustJob'.conflicts
    BY <1>1, <1>2, <1>4 DEF RestoresTruly
  <2>2. ~torn' => ~trustJob'.met /\ Halved(trustJob'.before) /\ ~atBackup'.torn
    BY <1>1, <1>2, <1>4 DEF RestoresTruly
  <2>3. \A e \in Waiting \cap trustJob'.todo : sentOn'[e] + InStock(e)' <= restores'
    BY <1>12
  <2>. QED BY <1>11, <2>1, <2>2, <2>3 DEF RestoresTruly
<1>14. SentRightly'
  BY <1>12 DEF SentRightly
<1>. QED BY <1>6, <1>7, <1>8, <1>13, <1>14 DEF BackupInv

LEMMA BackupStep == BackupInv /\ [BackupNext]_backupVars => BackupInv'
<1>1. BackupInv /\ UNCHANGED backupVars => BackupInv'
  BY DEF backupVars, machine, tally, BackupInv, BackupTypeOK, ReadsTruly, RestoresTruly, Restoring, OneOrigin,
     HalvesBelong, SentRightly, InStock
<1>. QED BY <1>1, PinKeeps, KeepKeeps, SendKeeps, MakeKeeps, DaemonKeeps, WipeKeeps, BackupStarts, ReadKeeps,
            ReplaceKeeps, RestoreStarts, EndKeeps, CompareKeeps, PutPayloadKeeps DEF BackupNext

(* However often a node is backed up, wiped and restored, by commands that *)
(* may die between any two files, and beside daemons that go on writing: a *)
(* restore leaves or brings back what it says, the node signs as before,   *)
(* and a restored entry goes out once per restore.                         *)
THEOREM RestoresAreTrue == BackupSpec => [](BackupTypeOK /\ BackupKeeps)
<1>1. BackupInv => BackupTypeOK
  BY DEF BackupInv
<1>. QED BY <1>1, BackupBegins, BackupStep, BackupHolds, PTL DEF BackupSpec

(* A node knows its peers and itself by the same keys as before, through   *)
(* contacts, removals and re-pins, backups, wipes and restores: the two    *)
(* share no state, and each keeps its part.                                *)
THEOREM KeysAreKept == TrustSpec /\ BackupSpec => []KeysKeep
<1>1. TrustSpec => []TrustKeeps
  <2>1. TrustSpec => []TrustInv
    BY TrustBegins, TrustStep, PTL DEF TrustSpec
  <2>. QED BY <2>1, TrustHolds, PTL
<1>2. BackupSpec => []BackupKeeps
  <2>1. BackupSpec => []BackupInv
    BY BackupBegins, BackupStep, PTL DEF BackupSpec
  <2>. QED BY <2>1, BackupHolds, PTL
<1>3. TrustKeeps /\ BackupKeeps => KeysKeep
  BY DEF KeysKeep
<1>. QED BY <1>1, <1>2, <1>3, PTL

-------------------------------------------------------------------------------
(* The file transfer, for any number of chunks and contents, and whatever  *)
(* happens to the source and to the process.  What a run holds in memory   *)
(* is what the state file says (InStep); a mark, on file or about to be    *)
(* written, pays for one envelope of its chunk, a crash or a mark taken    *)
(* back for another (Counted).                                             *)
InStep == sender # AtRest => saved # NoState /\ sender.state = saved

\* The chunk that is about to be marked was put.
AboutToMark(c) == sender.step = "mark" /\ IsNext(c)
MarkIsDue == \A c \in ChunkIds : AboutToMark(c) => puts[c][saved.sums[c]] > 0

Marks(c) == IF (saved # NoState /\ c \in saved.verified) \/ AboutToMark(c) THEN 1 ELSE 0
Counted  == \A c \in ChunkIds, v \in Contents : puts[c][v] <= crashed + lapsed[c] + Marks(c)

TransferInv == TransferTypeOK /\ InStep /\ MarkIsDue /\ Counted /\ MarksAreTrue /\ OneFile

USE TransferAssumption, NoStateAssumption

-------------------------------------------------------------------------------
\* What is at each step of a run, and that the steps are apart.
LEMMA RunSteps ==
  ASSUME TransferInv
  PROVE  /\ sender = AtRest <=> sender.step = "rest"
         /\ sender.step \in {"rest", "recheck", "open", "chunk", "mark"}
         /\ sender # AtRest => saved \in States /\ sender.state = saved
         /\ sender.step \in {"chunk", "mark"} => sender \in [step : {"chunk", "mark"}, state : States, data : Data]
BY DEF TransferInv, TransferTypeOK, InStep, Runs, AtRest

LEMMA TransferStart == TransferInit => TransferInv
BY DEF TransferInit, TransferInv, TransferTypeOK, InStep, MarkIsDue, AboutToMark, Counted, Marks,
       MarksAreTrue, OneFile, Runs, AtRest

\* send_file and resume_file put a run in step with the state file.
LEMMA RunBegins ==
  ASSUME TransferInv, SendFile \/ SendAgain \/ ResumeFile
  PROVE  TransferInv'
<1> USE DEF file
<1>1. ASSUME SendFile PROVE TransferInv'
  <2> DEFINE state == [sums |-> source, verified |-> {}, completed |-> FALSE]
  <2>1. state \in States /\ state # NoState
    <3>1. source \in Data BY DEF TransferInv, TransferTypeOK
    <3>2. state \in States BY <3>1 DEF States
    <3> QED BY <3>2
  <2>2. /\ saved' = state /\ sender' = [step |-> "open", state |-> state] /\ saved = NoState
        /\ UNCHANGED <<file, crashed, puts, lapsed>>
    BY <1>1 DEF SendFile
  <2>3. state.verified = {} /\ state.completed = FALSE
    OBVIOUS
  <2> HIDE DEF state
  <2>4. \A c \in ChunkIds, v \in Contents : ~(puts[c][v] > 0) /\ puts[c][v] \in Nat
    BY <2>2 DEF TransferInv, TransferTypeOK, OneFile
  <2>5. TransferTypeOK' BY <2>1, <2>2 DEF TransferInv, TransferTypeOK, Runs
  <2>6. InStep' /\ MarkIsDue' BY <2>1, <2>2 DEF InStep, MarkIsDue, AboutToMark
  <2>7. Counted' BY <2>2, <2>4 DEF TransferInv, TransferTypeOK, Counted, Marks, AboutToMark
  <2>8. MarksAreTrue' /\ OneFile' BY <2>2, <2>3, <2>4 DEF MarksAreTrue, OneFile
  <2> QED BY <2>5, <2>6, <2>7, <2>8 DEF TransferInv
<1>2. ASSUME SendAgain \/ ResumeFile PROVE TransferInv'
  <2>1. /\ saved \in States /\ sender.step = "rest" /\ UNCHANGED <<file, saved, crashed, puts, lapsed>>
        /\ sender' \in [step : {"recheck", "open"}, state : States] /\ sender'.state = saved
    BY <1>2 DEF SendAgain, ResumeFile, TransferInv, TransferTypeOK, AtRest
  <2>2. TransferTypeOK' /\ InStep' /\ MarkIsDue'
    BY <2>1 DEF TransferInv, TransferTypeOK, Runs, InStep, MarkIsDue, AboutToMark
  <2>3. Counted' BY <2>1 DEF TransferInv, Counted, Marks, AboutToMark
  <2>4. MarksAreTrue' /\ OneFile' BY <2>1 DEF TransferInv, MarksAreTrue, OneFile
  <2> QED BY <2>2, <2>3, <2>4 DEF TransferInv
<1> QED BY <1>1, <1>2

\* A mark that is taken back pays for the envelope it stood for.
LEMMA RecheckKeeps ==
  ASSUME TransferInv, Recheck
  PROVE  TransferInv'
<1> USE DEF file
<1>1. sender.step = "recheck" /\ sender # AtRest /\ saved \in States /\ sender.state = saved
  BY RunSteps DEF Recheck
<1>2. CASE present
  <2> DEFINE U == Unmarked(saved)
             new == [saved EXCEPT !.verified = @ \ U]
  <2>1. /\ new \in States /\ new.sums = saved.sums /\ new.completed = saved.completed
        /\ new.verified = saved.verified \ U /\ U \subseteq saved.verified
    BY <1>1 DEF States, Unmarked
  <2>2. /\ saved' = new /\ sender' = [step |-> "open", state |-> new]
        /\ lapsed' = [c \in ChunkIds |-> lapsed[c] + IF c \in U THEN 1 ELSE 0]
        /\ UNCHANGED <<file, crashed, puts>>
    BY <1>1, <1>2 DEF Recheck
  <2> HIDE DEF new, U
  <2>3. TransferTypeOK'
    BY <2>1, <2>2 DEF TransferInv, TransferTypeOK, Runs
  <2>4. InStep' /\ MarkIsDue' BY <2>1, <2>2 DEF InStep, MarkIsDue, AboutToMark
  <2>5. Counted'
    <3> SUFFICES ASSUME NEW c \in ChunkIds, NEW v \in Contents
                 PROVE  puts[c][v] <= crashed + lapsed'[c] + Marks(c)'
      BY <2>2 DEF Counted
    <3>1. puts[c][v] <= crashed + lapsed[c] + Marks(c) /\ puts[c][v] \in Nat /\ lapsed[c] \in Nat /\ crashed \in Nat
      BY DEF TransferInv, TransferTypeOK, Counted
    <3>2. ~AboutToMark(c) /\ ~AboutToMark(c)' BY <1>1, <2>2 DEF AboutToMark
    <3>3. lapsed'[c] = lapsed[c] + IF c \in U THEN 1 ELSE 0 BY <2>2
    <3> QED BY <1>1, <2>1, <2>2, <3>1, <3>2, <3>3 DEF Marks
  <2>6. MarksAreTrue' /\ OneFile'
    BY <1>1, <2>1, <2>2 DEF TransferInv, MarksAreTrue, OneFile
  <2> QED BY <2>3, <2>4, <2>5, <2>6 DEF TransferInv
<1>3. CASE ~present
  <2>1. sender' = AtRest /\ UNCHANGED <<file, saved, crashed, puts, lapsed>>
    BY <1>3 DEF Recheck
  <2>2. TransferTypeOK' /\ InStep' /\ MarkIsDue'
    BY <2>1 DEF TransferInv, TransferTypeOK, Runs, InStep, MarkIsDue, AboutToMark, AtRest
  <2>3. Counted' BY <1>1, <2>1 DEF TransferInv, Counted, Marks, AboutToMark, AtRest
  <2>4. MarksAreTrue' /\ OneFile' BY <2>1 DEF TransferInv, MarksAreTrue, OneFile
  <2> QED BY <2>2, <2>3, <2>4 DEF TransferInv
<1> QED BY <1>2, <1>3

\* The chunk put is the next one, with the bytes of its sum.
LEMMA PutKeeps ==
  ASSUME TransferInv, NEW c \in ChunkIds, PutChunk(c)
  PROVE  TransferInv'
<1> USE DEF file
<1>1. /\ saved \in States /\ sender.state = saved /\ sender.step = "chunk"
      /\ sender \in [step : {"chunk", "mark"}, state : States, data : Data]
  BY RunSteps DEF PutChunk, AtRest
<1>2. /\ sender' \in [step : {"chunk", "mark"}, state : States, data : Data]
      /\ sender'.step = "mark" /\ sender'.state = saved
      /\ UNCHANGED <<file, saved, crashed, lapsed>>
  BY <1>1 DEF PutChunk
<1>3. /\ c \notin saved.verified /\ saved.sums[c] \in Contents
      /\ puts' = [puts EXCEPT ![c][saved.sums[c]] = @ + 1]
  BY <1>1 DEF PutChunk, IsNext, Unsent, BytesMatch, States, Data
<1>4. puts \in [ChunkIds -> [Contents -> Nat]] BY DEF TransferInv, TransferTypeOK
<1>5. /\ puts'[c][saved.sums[c]] = puts[c][saved.sums[c]] + 1
      /\ \A d \in ChunkIds, v \in Contents : d # c \/ v # saved.sums[c] => puts'[d][v] = puts[d][v]
      /\ puts' \in [ChunkIds -> [Contents -> Nat]]
  BY <1>3, <1>4
<1>6. \A d \in ChunkIds : IsNext(d)' <=> d = c
  <2>1. Unsent' = Unsent BY <1>1, <1>2 DEF Unsent
  <2> QED BY <2>1 DEF PutChunk, IsNext, ChunkIds
<1>7. TransferTypeOK' /\ InStep'
  BY <1>1, <1>2, <1>5 DEF TransferInv, TransferTypeOK, Runs, InStep
<1>8. MarkIsDue' BY <1>2, <1>4, <1>3, <1>5, <1>6 DEF MarkIsDue, AboutToMark
<1>9. Counted'
  <2> SUFFICES ASSUME NEW d \in ChunkIds, NEW v \in Contents
               PROVE  puts'[d][v] <= crashed + lapsed[d] + Marks(d)'
    BY <1>2 DEF Counted
  <2>1. puts[d][v] <= crashed + lapsed[d] + Marks(d) /\ puts[d][v] \in Nat /\ lapsed[d] \in Nat /\ crashed \in Nat
    BY DEF TransferInv, TransferTypeOK, Counted
  <2>2. CASE d = c
    <3>1. Marks(c) = 0 /\ Marks(c)' = 1
      BY <1>1, <1>2, <1>3, <1>6 DEF Marks, AboutToMark
    <3> QED BY <1>3, <1>4, <1>5, <2>1, <2>2, <3>1
  <2>3. CASE d # c
    <3>1. Marks(d)' = Marks(d) BY <1>1, <1>2, <1>6, <2>3 DEF Marks, AboutToMark
    <3> QED BY <1>5, <2>1, <2>3, <3>1
  <2> QED BY <2>2, <2>3
<1>10. MarksAreTrue' /\ OneFile'
  <2>1. \A d \in ChunkIds, v \in Contents : puts[d][v] > 0 => puts'[d][v] > 0 BY <1>3, <1>4, <1>5
  <2>2. \A d \in ChunkIds : saved.sums[d] \in Contents BY <1>1 DEF States, Data
  <2>3. MarksAreTrue' BY <1>1, <1>2, <2>1, <2>2 DEF TransferInv, MarksAreTrue, States
  <2>4. OneFile' BY <1>1, <1>2, <1>5 DEF TransferInv, OneFile
  <2> QED BY <2>3, <2>4
<1> QED BY <1>7, <1>8, <1>9, <1>10 DEF TransferInv

\* The mark replaces the mark that was about to be written.
LEMMA MarkKeeps ==
  ASSUME TransferInv, NEW c \in ChunkIds, MarkChunk(c)
  PROVE  TransferInv'
<1> USE DEF file
<1> DEFINE new == [saved EXCEPT !.verified = @ \cup {c}]
<1>1. /\ saved \in States /\ sender.state = saved /\ sender.step = "mark"
      /\ sender \in [step : {"chunk", "mark"}, state : States, data : Data]
  BY RunSteps DEF MarkChunk, AtRest
<1>2. /\ new \in States /\ new.sums = saved.sums /\ new.completed = saved.completed
      /\ new.verified = saved.verified \cup {c} /\ new # NoState
  BY <1>1 DEF States
<1>3. /\ saved' = new /\ sender' \in [step : {"chunk", "mark"}, state : States, data : Data]
      /\ sender'.step = "chunk" /\ sender'.state = new /\ UNCHANGED <<file, crashed, puts, lapsed>>
  BY <1>1, <1>2 DEF MarkChunk, MarkedSent
<1> HIDE DEF new
<1>4. TransferTypeOK' /\ InStep' /\ MarkIsDue'
  BY <1>2, <1>3 DEF TransferInv, TransferTypeOK, Runs, InStep, MarkIsDue, AboutToMark
<1>5. AboutToMark(c) /\ \A d \in ChunkIds : AboutToMark(d) => d = c
  BY <1>1 DEF MarkChunk, AboutToMark, IsNext, ChunkIds, Unsent
<1>6. \A d \in ChunkIds : Marks(d)' = Marks(d)
  BY <1>1, <1>2, <1>3, <1>5 DEF Marks, AboutToMark
<1>7. Counted' BY <1>3, <1>6 DEF TransferInv, Counted
<1>8. MarksAreTrue' /\ OneFile'
  BY <1>1, <1>2, <1>3, <1>5 DEF TransferInv, MarksAreTrue, OneFile, MarkIsDue
<1> QED BY <1>4, <1>7, <1>8 DEF TransferInv

\* The steps that put and mark nothing.
LEMMA OtherKeeps ==
  ASSUME TransferInv,
         \/ OpenSource \/ Complete \/ TransferCrash
         \/ \E c \in ChunkIds : IntegrityError(c)
         \/ \E bytes \in Data, there \in BOOLEAN : RewriteSource(bytes, there)
  PROVE  TransferInv'
<1> USE DEF file
<1>1. CASE OpenSource
  <2>1. /\ saved \in States /\ sender.state = saved /\ sender.step = "open"
        /\ UNCHANGED <<file, saved, crashed, puts, lapsed>>
    BY <1>1, RunSteps DEF OpenSource, AtRest
  <2>2. sender' = AtRest \/ (sender' = [step |-> "chunk", state |-> saved, data |-> source])
    BY <1>1, <2>1 DEF OpenSource
  <2>3. TransferTypeOK' /\ InStep' /\ MarkIsDue'
    BY <2>1, <2>2 DEF TransferInv, TransferTypeOK, Runs, InStep, MarkIsDue, AboutToMark, AtRest
  <2>4. Counted' BY <2>1, <2>2 DEF TransferInv, Counted, Marks, AboutToMark, AtRest
  <2> QED BY <2>1, <2>3, <2>4 DEF TransferInv, MarksAreTrue, OneFile
<1>2. CASE Complete
  <2> DEFINE new == [saved EXCEPT !.completed = TRUE]
  <2>1. /\ saved \in States /\ sender.state = saved /\ sender.step = "chunk" /\ Unsent = {}
        /\ sender' = AtRest /\ UNCHANGED <<file, crashed, puts, lapsed>>
    BY <1>2, RunSteps DEF Complete, AtRest
  <2>2. /\ new \in States /\ new.sums = saved.sums /\ new.completed
        /\ new.verified = saved.verified /\ new # NoState /\ saved.verified = ChunkIds
    BY <2>1 DEF States, Unsent
  <2>3. saved' = new BY <1>2, <2>1 DEF Complete
  <2> HIDE DEF new
  <2>4. TransferTypeOK' /\ InStep' /\ MarkIsDue'
    BY <2>1, <2>2, <2>3 DEF TransferInv, TransferTypeOK, Runs, InStep, MarkIsDue, AboutToMark, AtRest
  <2>5. Counted' BY <2>1, <2>2, <2>3 DEF TransferInv, Counted, Marks, AboutToMark, AtRest
  <2>6. MarksAreTrue' /\ OneFile' BY <2>1, <2>2, <2>3 DEF TransferInv, MarksAreTrue, OneFile
  <2> QED BY <2>4, <2>5, <2>6 DEF TransferInv
<1>3. CASE TransferCrash
  <2>1. /\ sender' = AtRest /\ crashed' = crashed + 1 /\ crashed < TransferCrashes
        /\ UNCHANGED <<file, saved, puts, lapsed>>
    BY <1>3 DEF TransferCrash
  <2>2. TransferTypeOK' /\ InStep' /\ MarkIsDue'
    BY <2>1 DEF TransferInv, TransferTypeOK, Runs, InStep, MarkIsDue, AboutToMark, AtRest
  <2>3. Counted'
    <3> SUFFICES ASSUME NEW c \in ChunkIds, NEW v \in Contents
                 PROVE  puts[c][v] <= crashed + 1 + lapsed[c] + Marks(c)'
      BY <2>1 DEF Counted
    <3>1. puts[c][v] <= crashed + lapsed[c] + Marks(c) /\ puts[c][v] \in Nat /\ lapsed[c] \in Nat /\ crashed \in Nat
      BY DEF TransferInv, TransferTypeOK, Counted
    <3>2. Marks(c) <= 1 + Marks(c)' /\ Marks(c) \in Nat /\ Marks(c)' \in Nat BY DEF Marks
    <3> QED BY <3>1, <3>2
  <2> QED BY <2>1, <2>2, <2>3 DEF TransferInv, MarksAreTrue, OneFile
<1>4. CASE \E c \in ChunkIds : IntegrityError(c)
  <2>1. sender' = AtRest /\ sender.step = "chunk" /\ UNCHANGED <<file, saved, crashed, puts, lapsed>>
    BY <1>4 DEF IntegrityError
  <2>2. TransferTypeOK' /\ InStep' /\ MarkIsDue'
    BY <2>1 DEF TransferInv, TransferTypeOK, Runs, InStep, MarkIsDue, AboutToMark, AtRest
  <2>3. Counted' BY <2>1 DEF TransferInv, Counted, Marks, AboutToMark, AtRest
  <2> QED BY <2>1, <2>2, <2>3 DEF TransferInv, MarksAreTrue, OneFile
<1>5. CASE \E bytes \in Data, there \in BOOLEAN : RewriteSource(bytes, there)
  <2>1. /\ source' \in Data /\ present' \in BOOLEAN /\ rewritten' = rewritten + 1
        /\ rewritten < Rewrites /\ UNCHANGED <<saved, sender, crashed, puts, lapsed>>
    BY <1>5 DEF RewriteSource
  <2> QED BY <2>1 DEF TransferInv, TransferTypeOK, InStep, MarkIsDue, Counted, Marks, AboutToMark,
                      IsNext, Unsent, MarksAreTrue, OneFile
<1> QED BY <1>1, <1>2, <1>3, <1>4, <1>5

LEMMA InvKeeps == TransferInv => TransferKeeps
<1> SUFFICES ASSUME TransferInv PROVE SentOnce BY DEF TransferKeeps, TransferInv
<1> SUFFICES ASSUME NEW c \in ChunkIds, NEW v \in Contents PROVE puts[c][v] <= 1 + crashed + lapsed[c]
  BY DEF SentOnce
<1>1. puts[c][v] <= crashed + lapsed[c] + Marks(c) /\ puts[c][v] \in Nat /\ lapsed[c] \in Nat /\ crashed \in Nat
  BY DEF TransferInv, TransferTypeOK, Counted
<1>2. Marks(c) \in {0, 1} BY DEF Marks
<1> QED BY <1>1, <1>2

(* file.py, "so interrupted transfers can be resumed": the state file      *)
(* marks only what was put, every envelope ever put belongs to the file    *)
(* whose sums were taken, and a chunk is put again only when its mark was  *)
(* lost in a crash or taken back.                                          *)
THEOREM StateFileIsTrue == TransferSpec => [](TransferTypeOK /\ TransferKeeps)
<1>1. TransferInv /\ [TransferNext]_transferVars => TransferInv'
  <2> SUFFICES ASSUME TransferInv, [TransferNext]_transferVars PROVE TransferInv' OBVIOUS
  <2>1. CASE SendFile \/ SendAgain \/ ResumeFile BY <2>1, RunBegins
  <2>2. CASE Recheck BY <2>2, RecheckKeeps
  <2>3. CASE \E c \in ChunkIds : PutChunk(c) \/ MarkChunk(c) BY <2>3, PutKeeps, MarkKeeps
  <2>4. CASE \/ OpenSource \/ Complete \/ TransferCrash
             \/ \E c \in ChunkIds : IntegrityError(c)
             \/ \E bytes \in Data, there \in BOOLEAN : RewriteSource(bytes, there)
    BY <2>4, OtherKeeps
  <2>5. CASE UNCHANGED transferVars
    BY <2>5 DEF transferVars, file, TransferInv, TransferTypeOK, InStep, MarkIsDue, Counted, Marks,
                AboutToMark, IsNext, Unsent, MarksAreTrue, OneFile
  <2> QED BY <2>1, <2>2, <2>3, <2>4, <2>5 DEF TransferNext
<1>2. TransferInv => TransferTypeOK BY DEF TransferInv
<1> QED BY TransferStart, InvKeeps, <1>1, <1>2, PTL DEF TransferSpec
===============================================================================
