---------------------- MODULE ConversationWork_proofs ----------------------
(***************************************************************************)
(* The proofs that a running goal is always worked on, and that no turn    *)
(* overtakes the reports its agent waits for.  A turn decides its goal     *)
(* when it ends, and the controller learns of it from the frames: so what  *)
(* counts first is the ends of turns that are still to be handled, one, or *)
(* two when the outcome of the first is deferred (WorkInv); and then what  *)
(* an agent's calls have brought about by the time they return (ReportInv).*)
(***************************************************************************)
EXTENDS Conversation_proofs

\* What the frames of a process say of its turns: a turn ends in them, two do,
\* every turn that begins in them ends there, and a prompt was accepted.
HasEnd(q) == \E i \in 1..Len(q) : q[i].kind = "agent_end"
HasTwoEnds(q) ==
  \E i, j \in 1..Len(q) : i < j /\ q[i].kind = "agent_end" /\ q[j].kind = "agent_end"
StartsEnd(q) ==
  \A i \in 1..Len(q) : q[i].kind = "agent_start" =>
    \E j \in 1..Len(q) : i < j /\ q[j].kind = "agent_end"
AcceptedIn(q, m) ==
  \E i \in 1..Len(q) : q[i].kind = "response" /\ q[i].message = m /\ q[i].accepted

\* Ends of turns that are still to be handled: one at least, two at least.
Busy(a) == omp[a] # "idle"
OneEnd(a) == Busy(a) \/ HasEnd(frames[a])
TwoEnds(a) ==
  \/ HasTwoEnds(frames[a])
  \/ Busy(a) /\ (followUps[a] > 0 \/ HasEnd(frames[a]))

\* A prompt whose failure moves the goal or is a lost report, and that has not
\* brought about a turn yet.
Weighty(m) == messages[m].first \/ messages[m].reopened # None \/ messages[m].report # None
Pending(a) == \E m \in OpenTo(a) : Weighty(m) /\ ~AcceptedIn(frames[a], m)

\* What begins ends, as far as a's frames go; an outcome is deferred in a turn.
TurnsEnd(a) ==
  /\ Busy(a) \/ StartsEnd(frames[a])
  /\ session[a] = "streaming" => OneEnd(a)
  /\ defer[a] => session[a] = "streaming"

\* A running goal has a prompt to come, or the end of a turn that will decide
\* it: a second end, when the outcome of the first is deferred.
Decided(a) ==
  ~lost /\ goal[a] = "running" /\ Live(a) =>
    \/ omp[a] = "dead"
    \/ Pending(a)
    \/ IF defer[a] THEN TwoEnds(a) ELSE OneEnd(a)

\* The prompts an agent is to read, and those it has answered, are to it.
Own(a, m) == m \in 1..Len(messages) /\ (m \in Open => messages[m].to = a)
Asking(q) == {q[i].message : i \in 1..Len(q)}
Answering(q) == {q[i].message : i \in {j \in 1..Len(q) : q[j].kind = "response"}}
Mail(a) == Asking(stdin[a]) \cup Answering(frames[a])
MailIsOwn == \A a \in Agents : \A m \in Mail(a) : Own(a, m)

WorkInv == MailIsOwn /\ \A a \in Agents : TurnsEnd(a) /\ Decided(a)

-----------------------------------------------------------------------------
(* Sequences of frames *)


LEMMA TailOf ==
  ASSUME NEW S, NEW q \in Seq(S), q # <<>>
  PROVE  /\ Len(q) \in Nat /\ Len(q) >= 1 /\ Len(Tail(q)) = Len(q) - 1
         /\ Head(q) = q[1]
         /\ \A i \in 1..Len(Tail(q)) : i + 1 \in 1..Len(q) /\ Tail(q)[i] = q[i + 1]
OBVIOUS

LEMMA EndsOfTail ==
  ASSUME NEW q \in Seq(Frames), q # <<>>
  PROVE  /\ StartsEnd(q) => StartsEnd(Tail(q))
         /\ Head(q).kind # "agent_end" =>
              (HasEnd(q) => HasEnd(Tail(q))) /\ (HasTwoEnds(q) => HasTwoEnds(Tail(q)))
         /\ HasTwoEnds(q) => HasEnd(Tail(q))
         /\ Head(q).kind = "agent_start" /\ StartsEnd(q) => HasEnd(Tail(q))
         /\ \A m : AcceptedIn(Tail(q), m) => AcceptedIn(q, m)
<1> DEFINE r == Tail(q)
<1>1. /\ Len(q) \in Nat /\ Len(q) >= 1 /\ Len(r) = Len(q) - 1 /\ Head(q) = q[1]
      /\ \A i \in 1..Len(r) : i + 1 \in 1..Len(q) /\ r[i] = q[i + 1]
  BY TailOf
<1> HIDE DEF r
<1>2. \A j \in 2..Len(q) : j - 1 \in 1..Len(r) /\ r[j - 1] = q[j]
  BY <1>1
<1>3. StartsEnd(q) => StartsEnd(r)
  <2> SUFFICES ASSUME StartsEnd(q), NEW i \in 1..Len(r), r[i].kind = "agent_start"
               PROVE  \E j \in 1..Len(r) : i < j /\ r[j].kind = "agent_end"
    BY DEF StartsEnd
  <2>1. PICK j \in 1..Len(q) : i + 1 < j /\ q[j].kind = "agent_end"
    BY <1>1 DEF StartsEnd
  <2>2. j - 1 \in 1..Len(r) /\ i < j - 1 /\ r[j - 1].kind = "agent_end"
    BY <1>1, <1>2, <2>1
  <2> QED BY <2>2
<1>4. ASSUME Head(q).kind # "agent_end", HasEnd(q)
      PROVE  HasEnd(r)
  <2>1. PICK j \in 1..Len(q) : q[j].kind = "agent_end"
    BY <1>4 DEF HasEnd
  <2>2. j \in 2..Len(q)
    BY <1>1, <1>4, <2>1
  <2> QED BY <1>2, <2>1, <2>2 DEF HasEnd
<1>5. ASSUME HasTwoEnds(q)
      PROVE  HasEnd(r) /\ (Head(q).kind # "agent_end" => HasTwoEnds(r))
  <2>1. PICK i, j \in 1..Len(q) : i < j /\ q[i].kind = "agent_end" /\ q[j].kind = "agent_end"
    BY <1>5 DEF HasTwoEnds
  <2>2. j \in 2..Len(q) /\ (Head(q).kind # "agent_end" => i \in 2..Len(q))
    BY <1>1, <2>1
  <2>3. j - 1 \in 1..Len(r) /\ r[j - 1].kind = "agent_end"
    BY <1>2, <2>1, <2>2
  <2>4. Head(q).kind # "agent_end" =>
          i - 1 \in 1..Len(r) /\ i - 1 < j - 1 /\ r[i - 1].kind = "agent_end"
    BY <1>2, <2>1, <2>2
  <2> QED BY <2>3, <2>4 DEF HasEnd, HasTwoEnds
<1>6. ASSUME Head(q).kind = "agent_start", StartsEnd(q)
      PROVE  HasEnd(r)
  <2>1. PICK j \in 1..Len(q) : 1 < j /\ q[j].kind = "agent_end"
    BY <1>1, <1>6 DEF StartsEnd
  <2>2. j \in 2..Len(q)
    BY <1>1, <2>1
  <2> QED BY <1>2, <2>1, <2>2 DEF HasEnd
<1>7. \A m : AcceptedIn(r, m) => AcceptedIn(q, m)
  BY <1>1 DEF AcceptedIn
<1> QED BY <1>3, <1>4, <1>5, <1>6, <1>7 DEF r

LEMMA AppendOf ==
  ASSUME NEW S, NEW q \in Seq(S), NEW f \in S
  PROVE  /\ Len(q) \in Nat /\ Append(q, f) \in Seq(S) /\ Len(Append(q, f)) = Len(q) + 1
         /\ Append(q, f)[Len(q) + 1] = f
         /\ \A i \in 1..Len(q) : Append(q, f)[i] = q[i]
OBVIOUS

LEMMA EndsOfAppend ==
  ASSUME NEW q \in Seq(Frames), NEW f \in Frames
  PROVE  /\ f.kind = "agent_end" => HasEnd(Append(q, f)) /\ StartsEnd(Append(q, f))
         /\ HasEnd(q) => HasEnd(Append(q, f))
         /\ HasTwoEnds(q) => HasTwoEnds(Append(q, f))
         /\ f.kind = "agent_end" /\ HasEnd(q) => HasTwoEnds(Append(q, f))
         /\ f.kind # "agent_start" /\ StartsEnd(q) => StartsEnd(Append(q, f))
         /\ \A m : AcceptedIn(Append(q, f), m) =>
              AcceptedIn(q, m) \/ (f.kind = "response" /\ f.message = m /\ f.accepted)
<1> DEFINE r == Append(q, f)
           n == Len(q) + 1
<1>1. /\ Len(q) \in Nat /\ Len(r) = n /\ r[n] = f
      /\ \A i \in 1..Len(q) : r[i] = q[i]
  BY AppendOf
<1>2. n \in 1..Len(r) /\ \A i \in 1..Len(q) : i \in 1..Len(r) /\ i < n
  BY <1>1
<1>3. \A i \in 1..Len(r) : i \in 1..Len(q) \/ i = n
  BY <1>1
<1> HIDE DEF r, n
<1>4. f.kind = "agent_end" => HasEnd(r) /\ StartsEnd(r)
  BY <1>1, <1>2, <1>3 DEF HasEnd, StartsEnd
<1>5. HasEnd(q) => HasEnd(r)
  BY <1>1, <1>2 DEF HasEnd
<1>6. HasTwoEnds(q) => HasTwoEnds(r)
  BY <1>1, <1>2 DEF HasTwoEnds
<1>7. f.kind = "agent_end" /\ HasEnd(q) => HasTwoEnds(r)
  BY <1>1, <1>2 DEF HasEnd, HasTwoEnds
<1>8. f.kind # "agent_start" /\ StartsEnd(q) => StartsEnd(r)
  BY <1>1, <1>2, <1>3 DEF StartsEnd
<1>9. \A m : AcceptedIn(r, m) => AcceptedIn(q, m) \/ (f.kind = "response" /\ f.message = m /\ f.accepted)
  BY <1>1, <1>3 DEF AcceptedIn
<1> QED BY <1>4, <1>5, <1>6, <1>7, <1>8, <1>9 DEF r

\* What a step may do to the frames of an agent without taking away the end of
\* a turn, or accepting a prompt.
Keeps(q, r) ==
  /\ StartsEnd(q) => StartsEnd(r)
  /\ HasEnd(q) => HasEnd(r)
  /\ HasTwoEnds(q) => HasTwoEnds(r)
  /\ \A m : AcceptedIn(r, m) => AcceptedIn(q, m)

LEMMA SameKeeps == \A q : Keeps(q, q)
BY DEF Keeps

LEMMA TailKeeps ==
  ASSUME NEW q \in Seq(Frames), q # <<>>, Head(q).kind # "agent_end"
  PROVE  Keeps(q, Tail(q))
BY EndsOfTail DEF Keeps

LEMMA AppendKeeps ==
  ASSUME NEW q \in Seq(Frames), NEW f \in Frames, f.kind # "agent_start",
         ~(f.kind = "response" /\ f.accepted)
  PROVE  Keeps(q, Append(q, f))
BY EndsOfAppend DEF Keeps

LEMMA EmitIsAppend ==
  ASSUME NEW S, NEW q \in Seq(S), NEW f \in S, NEW g \in S
  PROVE  q \o <<f>> = Append(q, f) /\ q \o <<f, g>> = Append(Append(q, f), g)
<1>1. q \o <<f>> = Append(q, f)
  OBVIOUS
<1>2. q \o <<f, g>> = Append(Append(q, f), g)
  OBVIOUS
<1> QED BY <1>1, <1>2

LEMMA AskingOf ==
  ASSUME NEW S, NEW q \in Seq(S)
  PROVE  /\ Asking(<<>>) = {}
         /\ q # <<>> => Asking(Tail(q)) \subseteq Asking(q) /\ Head(q).message \in Asking(q)
         /\ \A e \in S : Asking(Append(q, e)) \subseteq Asking(q) \cup {e.message}
<1>1. Asking(<<>>) = {}
  BY DEF Asking
<1>2. ASSUME q # <<>>
      PROVE  Asking(Tail(q)) \subseteq Asking(q) /\ Head(q).message \in Asking(q)
  BY <1>2, TailOf DEF Asking
<1>3. ASSUME NEW e \in S
      PROVE  Asking(Append(q, e)) \subseteq Asking(q) \cup {e.message}
  <2>1. \A i \in 1..Len(Append(q, e)) :
          (i \in 1..Len(q) /\ Append(q, e)[i] = q[i]) \/ Append(q, e)[i] = e
    BY AppendOf
  <2> QED BY <2>1 DEF Asking
<1> QED BY <1>1, <1>2, <1>3

LEMMA AnsweringOf ==
  ASSUME NEW S, NEW q \in Seq(S)
  PROVE  /\ Answering(<<>>) = {}
         /\ q # <<>> => /\ Answering(Tail(q)) \subseteq Answering(q)
                        /\ Head(q).kind = "response" => Head(q).message \in Answering(q)
         /\ \A e \in S : Answering(Append(q, e)) \subseteq
              Answering(q) \cup (IF e.kind = "response" THEN {e.message} ELSE {})
         /\ \A m : AcceptedIn(q, m) => m \in Answering(q)
<1>1. Answering(<<>>) = {}
  BY DEF Answering
<1>2. ASSUME q # <<>>
      PROVE  /\ Answering(Tail(q)) \subseteq Answering(q)
             /\ Head(q).kind = "response" => Head(q).message \in Answering(q)
  <2>1. /\ Len(q) >= 1 /\ Len(q) \in Nat /\ Head(q) = q[1]
        /\ \A i \in 1..Len(Tail(q)) : i + 1 \in 1..Len(q) /\ Tail(q)[i] = q[i + 1]
    BY <1>2, TailOf
  <2>2. ASSUME NEW m \in Answering(Tail(q))
        PROVE  m \in Answering(q)
    <3>1. PICK i \in 1..Len(Tail(q)) : Tail(q)[i].kind = "response" /\ m = Tail(q)[i].message
      BY <2>2 DEF Answering
    <3> QED BY <2>1, <3>1 DEF Answering
  <2>3. 1 \in 1..Len(q) BY <2>1
  <2> QED BY <2>1, <2>2, <2>3 DEF Answering
<1>3. ASSUME NEW e \in S
      PROVE  Answering(Append(q, e)) \subseteq
               Answering(q) \cup (IF e.kind = "response" THEN {e.message} ELSE {})
  <2>1. \A i \in 1..Len(Append(q, e)) :
          (i \in 1..Len(q) /\ Append(q, e)[i] = q[i]) \/ Append(q, e)[i] = e
    BY AppendOf
  <2> QED BY <2>1 DEF Answering
<1>4. \A m : AcceptedIn(q, m) => m \in Answering(q)
  BY DEF AcceptedIn, Answering
<1> QED BY <1>1, <1>2, <1>3, <1>4

-----------------------------------------------------------------------------
(* Prompts *)

\* What any step does to the prompts: none is forgotten, opened again or
\* changed while it is open.
MessagesStay ==
  /\ Len(messages') >= Len(messages)
  /\ \A m \in 1..Len(messages) : m \in Open' => m \in Open /\ messages'[m] = messages[m]

\* The prompts to come of b are still to come.
PendingStays(b) ==
  \A m \in OpenTo(b) : Weighty(m) /\ ~AcceptedIn(frames[b], m) =>
    m \in Open' /\ messages'[m] = messages[m]

LEMMA LenIsNat ==
  ASSUME ConversationTypeOK
  PROVE  Len(messages) \in Nat /\ DOMAIN messages = 1..Len(messages)
BY DEF ConversationTypeOK

LEMMA SamePrompts ==
  ASSUME ConversationTypeOK, UNCHANGED messages
  PROVE  MessagesStay /\ \A b \in Agents : PendingStays(b)
BY LenIsNat DEF MessagesStay, PendingStays, Open, OpenTo

LEMMA PostedPrompts ==
  ASSUME ConversationTypeOK, NEW a \in Agents, NEW first, NEW reopened, NEW report,
         Post(a, first, reopened, report), NEW n, n = Id
  PROVE  /\ MessagesStay /\ \A b \in Agents : PendingStays(b)
         /\ n \notin 1..Len(messages) /\ n \in 1..Len(messages')
         /\ n \in OpenTo(a)' /\ messages'[n].to = a
         /\ first \/ reopened # None \/ report # None => Weighty(n)'
<1> DEFINE d == [status |-> "queued", to |-> a, first |-> first,
                 reopened |-> reopened, report |-> report]
<1>1. /\ Len(messages) \in Nat /\ DOMAIN messages = 1..Len(messages)
      /\ messages' = Append(messages, d) /\ n = Len(messages) + 1
  BY LenIsNat DEF Post, Id
<1>2. /\ Len(messages') = n /\ DOMAIN messages' = 1..n /\ messages'[n] = d
      /\ \A m \in 1..Len(messages) : messages'[m] = messages[m]
  BY <1>1 DEF ConversationTypeOK
<1>3. d.status = "queued" /\ d.to = a /\ d.first = first /\ d.reopened = reopened /\ d.report = report
  OBVIOUS
<1> HIDE DEF d
<1>4. MessagesStay
  BY <1>1, <1>2 DEF MessagesStay, Open
<1>5. \A b \in Agents : PendingStays(b)
  BY <1>1, <1>2 DEF PendingStays, Open, OpenTo
<1>6. n \notin 1..Len(messages) /\ n \in 1..Len(messages')
  BY <1>1, <1>2
<1>7. n \in OpenTo(a)' /\ messages'[n].to = a
  BY <1>2, <1>3, <1>6 DEF Open, OpenTo
<1>8. first \/ reopened # None \/ report # None => Weighty(n)'
  BY <1>2, <1>3 DEF Weighty
<1> QED BY <1>4, <1>5, <1>6, <1>7, <1>8

LEMMA FailedPrompts ==
  ASSUME ConversationTypeOK, NEW failing, Fail(failing)
  PROVE  /\ MessagesStay
         /\ \A b \in Agents :
              (\A m \in failing \cap OpenTo(b) : ~Weighty(m)) => PendingStays(b)
<1>1. Len(messages) \in Nat /\ DOMAIN messages = 1..Len(messages)
  BY LenIsNat
<1>2. /\ DOMAIN messages' = 1..Len(messages) /\ Len(messages') = Len(messages)
      /\ \A m \in 1..Len(messages) :
           messages'[m] = IF m \in failing THEN [status |-> "failed"] ELSE messages[m]
  BY <1>1 DEF Fail
<1>3. MessagesStay
  BY <1>1, <1>2 DEF MessagesStay, Open
<1> QED BY <1>1, <1>2, <1>3 DEF PendingStays, Open, OpenTo

LEMMA DeliveredPrompts ==
  ASSUME ConversationTypeOK, NEW m \in Open,
         messages' = [messages EXCEPT ![m] = [status |-> "delivered"]]
  PROVE  /\ MessagesStay
         /\ \A b \in Agents : m \notin OpenTo(b) \/ AcceptedIn(frames[b], m) => PendingStays(b)
<1>1. Len(messages) \in Nat /\ DOMAIN messages = 1..Len(messages)
  BY LenIsNat
<1>2. /\ DOMAIN messages' = 1..Len(messages) /\ Len(messages') = Len(messages)
      /\ \A k \in 1..Len(messages) :
           messages'[k] = IF k = m THEN [status |-> "delivered"] ELSE messages[k]
  BY <1>1 DEF ConversationTypeOK
<1>3. MessagesStay
  BY <1>1, <1>2 DEF MessagesStay, Open
<1> QED BY <1>1, <1>2, <1>3 DEF PendingStays, Open, OpenTo

\* What a step adds for an agent to read or answers in its name is its own.
MailStep == \A a \in Agents : \A m \in Mail(a)' : m \in Mail(a) \/ Own(a, m)'

LEMMA MailStays ==
  ASSUME MailIsOwn, MessagesStay, Len(messages) \in Nat, Len(messages') \in Nat, MailStep
  PROVE  MailIsOwn'
<1>1. ASSUME NEW a \in Agents, NEW m, Own(a, m)
      PROVE  Own(a, m)'
  BY <1>1 DEF Own, MessagesStay
<1> QED BY <1>1 DEF MailIsOwn, MailStep

-----------------------------------------------------------------------------
(* An agent goes on *)

\* A step that changes nothing of what b works on, or makes it go on less.
GoesOn(b) ==
  /\ Keeps(frames[b], frames'[b])
  /\ session'[b] = session[b]
  /\ followUps'[b] = followUps[b]
  /\ Busy(b)' = Busy(b) /\ (omp[b] = "dead" => omp'[b] = "dead")
  /\ lost => lost'
  /\ defer'[b] = defer[b] \/ (lost' /\ session[b] = "streaming")
  /\ goal'[b] = "running" => goal[b] = "running" /\ (lost' \/ PendingStays(b))

LEMMA WorkGoesOn ==
  ASSUME NEW b \in Agents, TurnsEnd(b), Decided(b), GoesOn(b)
  PROVE  TurnsEnd(b)' /\ Decided(b)'
<1>1. /\ StartsEnd(frames[b]) => StartsEnd(frames'[b])
      /\ OneEnd(b) => OneEnd(b)'
      /\ TwoEnds(b) => TwoEnds(b)'
      /\ Busy(b)' <=> Busy(b)
  BY DEF GoesOn, Keeps, OneEnd, TwoEnds
<1>2. TurnsEnd(b)'
  BY <1>1 DEF TurnsEnd, GoesOn
<1>3. ASSUME ~lost', goal'[b] = "running", Pending(b)
      PROVE  Pending(b)'
  <2>1. PICK m \in OpenTo(b) : Weighty(m) /\ ~AcceptedIn(frames[b], m)
    BY <1>3 DEF Pending
  <2>2. m \in Open' /\ messages'[m] = messages[m] /\ ~AcceptedIn(frames'[b], m)
    BY <1>3, <2>1 DEF GoesOn, PendingStays, Keeps
  <2> QED BY <2>1, <2>2 DEF Pending, OpenTo, Weighty
<1>4. Decided(b)'
  BY <1>1, <1>3 DEF Decided, GoesOn, Live
<1> QED BY <1>2, <1>4

Works(b) == TurnsEnd(b)' /\ Decided(b)'
AgentsGoOn == \A b \in Agents : GoesOn(b) \/ Works(b)

LEMMA WorkStep ==
  ASSUME ConversationTypeOK, ConversationTypeOK', WorkInv, MessagesStay, MailStep, AgentsGoOn
  PROVE  WorkInv'
<1>1. Len(messages) \in Nat /\ Len(messages') \in Nat
  BY DEF ConversationTypeOK
<1>2. MailIsOwn'
  BY <1>1, MailStays DEF WorkInv
<1> QED BY <1>2, WorkGoesOn DEF WorkInv, AgentsGoOn, Works

LEMMA PoppedFrames ==
  ASSUME ConversationTypeOK, NEW a \in Agents, frames[a] # <<>>, Popped(a), NEW b \in Agents
  PROVE  /\ Answering(frames'[b]) \subseteq Answering(frames[b])
         /\ b # a \/ Head(frames[a]).kind # "agent_end" => Keeps(frames[b], frames'[b])
         /\ frames'[b] = IF b = a THEN Tail(frames[a]) ELSE frames[b]
<1>1. frames \in [Agents -> Seq(Frames)]
  BY DEF ConversationTypeOK
<1>2. frames'[b] = IF b = a THEN Tail(frames[a]) ELSE frames[b]
  BY <1>1 DEF Popped
<1>3. CASE b = a
  BY <1>1, <1>2, <1>3, AnsweringOf, TailKeeps
<1>4. CASE b # a
  BY <1>2, <1>4, SameKeeps
<1> QED BY <1>2, <1>3, <1>4

-----------------------------------------------------------------------------
(* Steps that leave prompts, turns and sessions alone *)

\* The controller attends to a frame, or the owner to a goal, and no prompt
\* and no end of a turn comes of it.
Attends ==
  /\ UNCHANGED <<messages, stdin, session, followUps>>
  /\ lost => lost'
  /\ \A b \in Agents :
       /\ Keeps(frames[b], frames'[b]) /\ Answering(frames'[b]) \subseteq Answering(frames[b])
       /\ Busy(b)' = Busy(b) /\ (omp[b] = "dead" => omp'[b] = "dead")
       /\ goal'[b] = "running" => goal[b] = "running"
       /\ defer'[b] = defer[b] \/ (lost' /\ session[b] = "streaming")

LEMMA AttendsWork ==
  ASSUME ConversationTypeOK, ConversationTypeOK', WorkInv, Attends
  PROVE  WorkInv'
<1>1. MessagesStay /\ \A b \in Agents : PendingStays(b)
  BY SamePrompts DEF Attends
<1>2. AgentsGoOn
  BY <1>1 DEF AgentsGoOn, GoesOn, Attends
<1>3. MailStep
  BY DEF MailStep, Mail, Attends
<1> QED BY <1>1, <1>2, <1>3, WorkStep

LEMMA SameFrames ==
  ASSUME UNCHANGED frames, NEW b
  PROVE  Keeps(frames[b], frames'[b]) /\ Answering(frames'[b]) \subseteq Answering(frames[b])
BY SameKeeps

LEMMA SameTurn ==
  ASSUME ConversationTypeOK, NEW a \in Agents,
         omp' = [omp EXCEPT ![a] = IF @ = "calling" THEN "turn" ELSE @], NEW b \in Agents
  PROVE  Busy(b)' = Busy(b) /\ (omp[b] = "dead" => omp'[b] = "dead")
BY DEF Busy, ConversationTypeOK

LEMMA NotRunning ==
  ASSUME NEW a, NEW state, state # "running", goal \in [Agents -> GoalStates \cup {None}],
         goal' = [goal EXCEPT ![a] = state], NEW b \in Agents
  PROVE  goal'[b] = "running" => goal[b] = "running"
OBVIOUS

LEMMA OwnerCreatesWork ==
  ASSUME ConversationTypeOK, ConversationTypeOK', WorkInv, NEW a \in Agents,
         NEW authority, OwnerCreates(a, authority)
  PROVE  WorkInv'
<1>1. /\ UNCHANGED <<messages, stdin, session, followUps, lost, frames, omp, defer>>
      /\ goal' = [goal EXCEPT ![a] = "draft"]
  BY DEF OwnerCreates, CreateOwnerGoal, CreateGoal, sessionVars, postVars, ompVars, historyVars
<1>2. \A b \in Agents : goal'[b] = "running" => goal[b] = "running"
  BY <1>1, NotRunning DEF ConversationTypeOK, DelegationTypeOK
<1>3. Attends
  BY <1>1, <1>2, SameFrames DEF Attends, Busy
<1> QED BY <1>3, AttendsWork

LEMMA LaunchFailsWork ==
  ASSUME ConversationTypeOK, ConversationTypeOK', WorkInv, NEW a \in Agents, LaunchFails(a),
         UNCHANGED <<messages, stdin, session, followUps, lost, frames, omp, defer>>
  PROVE  WorkInv'
<1>1. \A b \in Agents : goal'[b] = "running" => goal[b] = "running"
  BY NotRunning DEF LaunchFails, ConversationTypeOK, DelegationTypeOK
<1>2. Attends
  BY <1>1, SameFrames DEF Attends, Busy
<1> QED BY <1>2, AttendsWork

LEMMA HandlesUiRequestWork ==
  ASSUME ConversationTypeOK, ConversationTypeOK', WorkInv, NEW a \in Agents, HandlesUiRequest(a)
  PROVE  WorkInv'
<1>1. /\ frames[a] # <<>> /\ Head(frames[a]).kind # "agent_end" /\ Popped(a)
      /\ UNCHANGED <<messages, stdin, session, followUps, lost, omp, defer>>
      /\ goal' = [goal EXCEPT ![a] = IF @ = "running" THEN "waiting_input" ELSE @]
  BY DEF HandlesUiRequest, Handles, sessionVars, postVars, historyVars
<1>2. \A b \in Agents : goal'[b] = "running" => goal[b] = "running"
  BY <1>1 DEF ConversationTypeOK, DelegationTypeOK
<1>3. Attends
  BY <1>1, <1>2, PoppedFrames DEF Attends, Busy
<1> QED BY <1>3, AttendsWork

\* A call that has its result at once, and changes no goal to running.
LEMMA AnswersWork ==
  ASSUME ConversationTypeOK, ConversationTypeOK', WorkInv, NEW a \in Agents,
         Handles(a, "call"), Answers(a), UNCHANGED <<messages, stdin, session>>,
         lost => lost',
         \A b \in Agents : goal'[b] = "running" => goal[b] = "running",
         \A b \in Agents : defer'[b] = defer[b] \/ (lost' /\ session[b] = "streaming")
  PROVE  WorkInv'
<1>1. frames[a] # <<>> /\ Head(frames[a]).kind # "agent_end" /\ Popped(a) /\ UNCHANGED followUps
  BY DEF Handles, Answers
<1>2. Attends
  BY <1>1, PoppedFrames, SameTurn DEF Attends, Answers
<1> QED BY <1>2, AttendsWork

LEMMA AnsweredCallsWork ==
  ASSUME ConversationTypeOK, ConversationTypeOK', WorkInv, NEW a \in Agents,
         CallCreates(a) \/ CallRequestsVerification(a) \/ CallSubmits(a)
           \/ CallStartFails(a) \/ CallStartRefused(a) \/ CallRefused(a)
  PROVE  WorkInv'
<1>1. /\ Handles(a, "call") /\ Answers(a)
      /\ UNCHANGED <<messages, stdin, session, lost, defer>>
  BY DEF CallCreates, CallRequestsVerification, CallSubmits, CallStartFails, CallStartRefused,
         CallRefused, Calls, HandlesCall, sessionVars, postVars, historyVars
<1>2. \/ \E t : goal' = [goal EXCEPT ![t] = "draft"] \/ goal' = [goal EXCEPT ![t] = "failed"]
      \/ UNCHANGED goal
  BY DEF CallCreates, CreateChildGoal, CallRequestsVerification, CreateVerificationGoal,
         CreateGoal, CallSubmits, CallStartFails, LaunchFails, CallStartRefused, CallRefused,
         goalVars
<1>3. \A b \in Agents : goal'[b] = "running" => goal[b] = "running"
  BY <1>2, NotRunning DEF ConversationTypeOK, DelegationTypeOK
<1> QED BY <1>1, <1>3, AnswersWork

LEMMA CallSendFailsWork ==
  ASSUME ConversationTypeOK, ConversationTypeOK', WorkInv, NEW a \in Agents, CallSendFails(a)
  PROVE  WorkInv'
<1>1. /\ Handles(a, "call") /\ Answers(a) /\ UNCHANGED <<messages, stdin, session, goal>>
      /\ lost => lost'
  BY DEF CallSendFails, Calls, HandlesCall, goalVars, postVars
<1>2. PICK t \in {Asked(a).target}, report \in BOOLEAN :
        /\ defer' = [defer EXCEPT ![t] = @ \/ (report /\ session[t] = "streaming")]
        /\ report => lost'
  BY DEF CallSendFails
<1>3. defer \in [Agents -> BOOLEAN]
  BY DEF ConversationTypeOK
<1>4. \A b \in Agents : defer'[b] = defer[b] \/ (lost' /\ session[b] = "streaming")
  BY <1>2, <1>3
<1> QED BY <1>1, <1>4, AnswersWork

LEMMA CallReturnsWork ==
  ASSUME ConversationTypeOK, ConversationTypeOK', WorkInv, NEW a \in Agents, CallReturns(a)
  PROVE  WorkInv'
<1>1. /\ UNCHANGED <<messages, stdin, session, followUps, lost, frames, defer, goal>>
      /\ omp' = [omp EXCEPT ![a] = IF @ = "calling" THEN "turn" ELSE @]
  BY DEF CallReturns, goalVars, postVars, historyVars
<1>2. Attends
  BY <1>1, SameFrames, SameTurn DEF Attends
<1> QED BY <1>2, AttendsWork

-----------------------------------------------------------------------------
(* Prompts that fail, and sessions that end *)

LEMMA SessionEndsWork ==
  ASSUME ConversationTypeOK, ConversationTypeOK', WorkInv, NEW a \in Agents, SessionEnds(a),
         NEW state, goal' = [goal EXCEPT ![a] = state]
  PROVE  WorkInv'
<1>0. /\ DOMAIN session = Agents /\ DOMAIN omp = Agents /\ DOMAIN stdin = Agents
      /\ DOMAIN frames = Agents /\ DOMAIN followUps = Agents /\ DOMAIN defer = Agents
      /\ DOMAIN goal = Agents
  BY DEF ConversationTypeOK, DelegationTypeOK
<1>1. /\ session' = [session EXCEPT ![a] = "exited"] /\ omp' = [omp EXCEPT ![a] = "dead"]
      /\ stdin' = [stdin EXCEPT ![a] = <<>>] /\ frames' = [frames EXCEPT ![a] = <<>>]
      /\ followUps' = [followUps EXCEPT ![a] = 0] /\ defer' = [defer EXCEPT ![a] = FALSE]
      /\ Fail(OpenTo(a))
  BY DEF SessionEnds
<1>2. \A b \in Agents \ {a} :
        /\ session'[b] = session[b] /\ omp'[b] = omp[b] /\ stdin'[b] = stdin[b]
        /\ frames'[b] = frames[b] /\ followUps'[b] = followUps[b] /\ defer'[b] = defer[b]
        /\ goal'[b] = goal[b]
  <2> SUFFICES ASSUME NEW b \in Agents \ {a}
               PROVE  /\ session'[b] = session[b] /\ omp'[b] = omp[b] /\ stdin'[b] = stdin[b]
                      /\ frames'[b] = frames[b] /\ followUps'[b] = followUps[b]
                      /\ defer'[b] = defer[b] /\ goal'[b] = goal[b]
    OBVIOUS
  <2>1. session'[b] = session[b] /\ omp'[b] = omp[b] /\ goal'[b] = goal[b]
    BY <1>0, <1>1
  <2>2. stdin'[b] = stdin[b] /\ frames'[b] = frames[b]
    BY <1>0, <1>1
  <2>3. followUps'[b] = followUps[b] /\ defer'[b] = defer[b]
    BY <1>0, <1>1
  <2> QED BY <2>1, <2>2, <2>3
<1>3. /\ session'[a] = "exited" /\ omp'[a] = "dead" /\ stdin'[a] = <<>> /\ frames'[a] = <<>>
      /\ defer'[a] = FALSE
  BY <1>0, <1>1
<1>4. MessagesStay /\ \A b \in Agents \ {a} : PendingStays(b)
  BY <1>1, FailedPrompts DEF OpenTo
<1>5. lost => lost'
  BY <1>1 DEF Fail
<1>6. Works(a)
  BY <1>3 DEF Works, TurnsEnd, Decided, Busy, Live
<1>7. \A b \in Agents \ {a} : GoesOn(b)
  BY <1>2, <1>4, <1>5, SameKeeps DEF GoesOn, Busy
<1>8. Asking(<<>>) = {} /\ Answering(<<>>) = {}
  BY DEF Asking, Answering
<1>9. MailStep
  BY <1>2, <1>3, <1>8 DEF MailStep, Mail
<1> QED BY <1>4, <1>6, <1>7, <1>9, WorkStep DEF AgentsGoOn

\* A prompt that failed, and whose failure leaves its goal running, was not
\* what the goal waited for.
LEMMA FollowUpFailsWork ==
  ASSUME ConversationTypeOK, ConversationTypeOK', WorkInv, NEW m \in Open, FollowUpFails(m),
         \A b \in Agents : Keeps(frames[b], frames'[b])
                             /\ Answering(frames'[b]) \subseteq Answering(frames[b])
  PROVE  WorkInv'
<1> DEFINE a == messages[m].to
<1>1. /\ a \in Agents /\ messages[m].reopened \in {None, "waiting_input", "verifying"}
  BY OpenTyped
<1>2. /\ UNCHANGED <<session, defer, stdin, omp, followUps>> /\ Fail({m}) /\ ~messages[m].first
      /\ goal' = [goal EXCEPT ![a] =
           IF @ = "running" /\ messages[m].reopened # None THEN messages[m].reopened ELSE @]
  BY DEF FollowUpFails, Unsettled
<1>3. MessagesStay
  BY <1>2, FailedPrompts
<1>4. lost => lost'
  BY <1>2 DEF Fail
<1>5. ASSUME NEW b \in Agents, goal'[b] = "running"
      PROVE  goal[b] = "running" /\ (lost' \/ PendingStays(b))
  <2>1. goal[b] = "running" /\ (b = a => messages[m].reopened = None)
    BY <1>1, <1>2, <1>5, HierarchyAssumption DEF ConversationTypeOK, DelegationTypeOK
  <2>2. CASE b = a /\ messages[m].report = None
    <3>1. ~Weighty(m)
      BY <1>2, <2>1, <2>2 DEF Weighty
    <3> QED BY <1>2, <2>1, <3>1, FailedPrompts
  <2>3. CASE b = a /\ messages[m].report # None
    BY <1>2, <2>1, <2>3 DEF Fail
  <2>4. CASE b # a
    BY <1>2, <2>1, <2>4, FailedPrompts DEF OpenTo
  <2> QED BY <2>2, <2>3, <2>4
<1>6. AgentsGoOn
  BY <1>2, <1>4, <1>5 DEF AgentsGoOn, GoesOn, Busy
<1>7. MailStep
  BY <1>2 DEF MailStep, Mail
<1> QED BY <1>3, <1>6, <1>7, WorkStep

LEMMA FirstPromptFailsWork ==
  ASSUME ConversationTypeOK, ConversationTypeOK', WorkInv, NEW m \in Open, FirstPromptFails(m)
  PROVE  WorkInv'
<1> DEFINE a == messages[m].to
           state == IF goal[a] \in ActiveStates THEN "cancelled" ELSE goal[a]
<1>1. a \in Agents
  BY OpenTyped
<1>2. SessionEnds(a) /\ goal' = [goal EXCEPT ![a] = state]
  BY DEF FirstPromptFails
<1> QED BY <1>1, <1>2, SessionEndsWork

LEMMA TimesOutWork ==
  ASSUME ConversationTypeOK, ConversationTypeOK', WorkInv, NEW m \in Open, TimesOut(m)
  PROVE  WorkInv'
<1>1. CASE FollowUpFails(m) /\ UNCHANGED frames
  BY <1>1, FollowUpFailsWork, SameFrames
<1>2. CASE FirstPromptFails(m)
  BY <1>2, FirstPromptFailsWork
<1> QED BY <1>1, <1>2 DEF TimesOut

LEMMA OwnerEndsWork ==
  ASSUME ConversationTypeOK, ConversationTypeOK', WorkInv, NEW a \in Agents,
         OwnerCompletes(a) \/ OwnerCancels(a) \/ HandlesExit(a)
  PROVE  WorkInv'
<1>1. PICK state : SessionEnds(a) /\ goal' = [goal EXCEPT ![a] = state]
  BY DEF OwnerCompletes, OwnerCancels, HandlesExit
<1> QED BY <1>1, SessionEndsWork

LEMMA HandlesResponseWork ==
  ASSUME ConversationTypeOK, ConversationTypeOK', WorkInv, NEW a \in Agents, HandlesResponse(a)
  PROVE  WorkInv'
<1> DEFINE f == Head(frames[a])
           m == Head(frames[a]).message
<1>1. /\ frames[a] \in Seq(Frames) /\ frames[a] # <<>> /\ f.kind = "response"
  BY DEF HandlesResponse, Handles, ConversationTypeOK
<1>2. CASE /\ m \notin Open /\ Popped(a)
           /\ UNCHANGED <<goal, sessionVars, postVars, omp, followUps, owed, lost>>
  <2>1. Attends
    BY <1>1, <1>2, PoppedFrames DEF Attends, sessionVars, postVars, Busy
  <2> QED BY <2>1, AttendsWork
<1>3. CASE /\ m \in Open /\ f.accepted /\ Popped(a)
           /\ messages' = [messages EXCEPT ![m] = [status |-> "delivered"]]
           /\ UNCHANGED <<goal, sessionVars, stdin, omp, followUps, owed, lost>>
  <2>1. UNCHANGED <<goal, session, defer, stdin, omp, followUps, lost>>
    BY <1>3 DEF sessionVars
  <2>2. AcceptedIn(frames[a], m)
    BY <1>1, <1>3, TailOf DEF AcceptedIn
  <2>3. messages[m].to = a
    BY <1>1, <1>3, AnsweringOf DEF WorkInv, MailIsOwn, Mail, Own
  <2>4. MessagesStay /\ \A b \in Agents : PendingStays(b)
    BY <1>3, <2>2, <2>3, DeliveredPrompts DEF OpenTo
  <2>5. \A b \in Agents : Keeps(frames[b], frames'[b])
                            /\ Answering(frames'[b]) \subseteq Answering(frames[b])
    BY <1>1, <1>3, PoppedFrames
  <2>6. AgentsGoOn
    BY <2>1, <2>4, <2>5 DEF AgentsGoOn, GoesOn, Busy
  <2>7. MailStep
    BY <2>1, <2>5 DEF MailStep, Mail
  <2> QED BY <2>4, <2>6, <2>7, WorkStep
<1>4. CASE m \in Open /\ FollowUpFails(m) /\ Popped(a)
  <2>1. \A b \in Agents : Keeps(frames[b], frames'[b])
                            /\ Answering(frames'[b]) \subseteq Answering(frames[b])
    BY <1>1, <1>4, PoppedFrames
  <2> QED BY <1>4, <2>1, FollowUpFailsWork
<1>5. CASE m \in Open /\ FirstPromptFails(m)
  BY <1>5, FirstPromptFailsWork
<1> QED BY <1>2, <1>3, <1>4, <1>5 DEF HandlesResponse

-----------------------------------------------------------------------------
(* Prompts that are posted *)

\* A prompt that is new is not answered yet: it is one to come.
LEMMA PostedIsPending ==
  ASSUME ConversationTypeOK, ConversationTypeOK', WorkInv, NEW a \in Agents,
         NEW first, NEW reopened, NEW report, Post(a, first, reopened, report),
         Answering(frames'[a]) \subseteq Answering(frames[a]),
         first \/ reopened # None \/ report # None
  PROVE  Pending(a)'
<1>1. PICK n : n = Id
  OBVIOUS
<1>2. n \notin 1..Len(messages) /\ n \in OpenTo(a)' /\ Weighty(n)'
  BY <1>1, PostedPrompts
<1>3. n \notin Answering(frames[a])
  BY <1>2 DEF WorkInv, MailIsOwn, Mail, Own
<1>4. frames'[a] \in Seq(Frames)
  BY DEF ConversationTypeOK
<1>5. ~AcceptedIn(frames'[a], n)
  BY <1>3, <1>4, AnsweringOf
<1> QED BY <1>2, <1>5 DEF Pending

LEMMA PostedMail ==
  ASSUME ConversationTypeOK, ConversationTypeOK', WorkInv, NEW a \in Agents,
         NEW first, NEW reopened, NEW report, Post(a, first, reopened, report),
         \A b \in Agents : Answering(frames'[b]) \subseteq Answering(frames[b])
  PROVE  MessagesStay /\ MailStep
<1>1. PICK n : n = Id
  OBVIOUS
<1>2. MessagesStay /\ n \in 1..Len(messages') /\ messages'[n].to = a
  BY <1>1, PostedPrompts
<1>3. Own(a, n)'
  BY <1>2 DEF Own
<1> DEFINE e == [message |-> n, follows |-> session[a] = "streaming"]
<1>4. /\ stdin \in [Agents -> Seq([message : Nat, follows : BOOLEAN])]
      /\ e \in [message : Nat, follows : BOOLEAN]
      /\ stdin' = [stdin EXCEPT ![a] = Append(@, e)]
  BY <1>1, LenIsNat DEF ConversationTypeOK, Post, Id
<1>5. e.message = n
  OBVIOUS
<1> HIDE DEF e
<1>6. stdin'[a] = Append(stdin[a], e) /\ \A b \in Agents \ {a} : stdin'[b] = stdin[b]
  BY <1>4
<1>7. Asking(stdin'[a]) \subseteq Asking(stdin[a]) \cup {n}
  <2>1. PICK S : stdin[a] \in Seq(S) /\ e \in S
    BY <1>4
  <2>2. Asking(Append(stdin[a], e)) \subseteq Asking(stdin[a]) \cup {e.message}
    BY <2>1, AskingOf
  <2> QED BY <1>5, <1>6, <2>2
<1>8. MailStep
  BY <1>3, <1>6, <1>7 DEF MailStep, Mail
<1> QED BY <1>2, <1>8

\* What is common to the steps that launch an agent or prompt it: its process
\* has not read the prompt yet, and the frames of the others go on.
Prompts(t) ==
  /\ \A b \in Agents : Keeps(frames[b], frames'[b])
                         /\ Answering(frames'[b]) \subseteq Answering(frames[b])
  /\ UNCHANGED <<omp, followUps, lost>>
  /\ \A b \in Agents \ {t} : defer'[b] = defer[b]

LEMMA LaunchWork ==
  ASSUME ConversationTypeOK, ConversationTypeOK', WorkInv, NEW t \in Agents,
         Launch(t), Prompts(t), UNCHANGED defer
  PROVE  WorkInv'
<1>1. /\ session[t] = "none" /\ Post(t, TRUE, None, None)
      /\ session' = [session EXCEPT ![t] = "ready"]
      /\ goal' = [goal EXCEPT ![t] = "running"]
  BY DEF Launch
<1>2. /\ session'[t] = "ready"
      /\ \A b \in Agents \ {t} : session'[b] = session[b] /\ goal'[b] = goal[b]
  BY <1>1 DEF ConversationTypeOK, DelegationTypeOK
<1>3. MessagesStay /\ MailStep /\ \A b \in Agents : PendingStays(b)
  BY <1>1, PostedMail, PostedPrompts DEF Prompts
<1>4. Pending(t)'
  BY <1>1, PostedIsPending DEF Prompts
<1>5. TurnsEnd(t)'
  BY <1>1, <1>2 DEF TurnsEnd, WorkInv, Prompts, Keeps, Busy
<1>6. Works(t)
  BY <1>4, <1>5 DEF Works, Decided
<1>7. \A b \in Agents \ {t} : GoesOn(b)
  BY <1>2, <1>3 DEF GoesOn, Prompts, Busy
<1> QED BY <1>3, <1>6, <1>7, WorkStep DEF AgentsGoOn

LEMMA FollowUpWork ==
  ASSUME ConversationTypeOK, ConversationTypeOK', WorkInv, NEW t \in Agents,
         NEW report \in Agents \cup {None}, FollowUp(t, report), Prompts(t), UNCHANGED session,
         defer'[t] = defer[t] \/ (report # None /\ session[t] = "streaming")
  PROVE  WorkInv'
<1> DEFINE reopened == IF goal[t] = "running" THEN None ELSE goal[t]
<1>1. /\ Post(t, FALSE, reopened, report)
      /\ goal' = [goal EXCEPT ![t] = "running"]
      /\ goal[t] # "running" => goal[t] # None
  BY HierarchyAssumption DEF FollowUp, MayFollowUp, GoalStates
<1>2. \A b \in Agents \ {t} : goal'[b] = goal[b]
  BY <1>1 DEF ConversationTypeOK, DelegationTypeOK
<1>3. MessagesStay /\ MailStep /\ \A b \in Agents : PendingStays(b)
  BY <1>1, PostedMail, PostedPrompts DEF Prompts
<1>4. \A b \in Agents \ {t} : GoesOn(b)
  BY <1>2, <1>3 DEF GoesOn, Prompts, Busy
<1>5. CASE goal[t] = "running" /\ report = None
  <2>1. GoesOn(t)
    BY <1>3, <1>5 DEF GoesOn, Prompts, Busy
  <2> QED BY <1>3, <1>4, <2>1, WorkStep DEF AgentsGoOn
<1>6. CASE goal[t] # "running" \/ report # None
  <2>1. Pending(t)'
    BY <1>1, <1>6, PostedIsPending DEF Prompts
  <2>2. TurnsEnd(t)'
    BY DEF TurnsEnd, WorkInv, Prompts, Keeps, Busy, OneEnd
  <2>3. Works(t)
    BY <2>1, <2>2 DEF Works, Decided
  <2> QED BY <1>3, <1>4, <2>3, WorkStep DEF AgentsGoOn
<1> QED BY <1>5, <1>6

LEMMA OwnerStartsWork ==
  ASSUME ConversationTypeOK, ConversationTypeOK', WorkInv, NEW a \in Agents, OwnerStarts(a)
  PROVE  WorkInv'
<1>1. UNCHANGED <<defer, omp, followUps, frames, lost>>
  BY DEF OwnerStarts, ompVars, historyVars
<1>2. CASE Launch(a)
  BY <1>1, <1>2, LaunchWork, SameFrames DEF Prompts
<1>3. CASE LaunchFails(a) /\ UNCHANGED <<session, postVars>>
  BY <1>1, <1>3, LaunchFailsWork DEF postVars
<1> QED BY <1>2, <1>3 DEF OwnerStarts

LEMMA OwnerWritesWork ==
  ASSUME ConversationTypeOK, ConversationTypeOK', WorkInv, NEW a \in Agents, OwnerWrites(a)
  PROVE  WorkInv'
<1>1. /\ FollowUp(a, None)
      /\ UNCHANGED <<session, defer, omp, followUps, frames, lost>>
  BY DEF OwnerWrites, historyVars
<1>2. Prompts(a)
  BY <1>1, SameFrames DEF Prompts
<1> QED BY <1>1, <1>2, FollowUpWork

LEMMA CallStartsWork ==
  ASSUME ConversationTypeOK, ConversationTypeOK', WorkInv, NEW a \in Agents, CallStarts(a)
  PROVE  WorkInv'
<1> DEFINE t == Asked(a).target
<1>1. /\ frames[a] # <<>> /\ Head(frames[a]).kind = "call" /\ Popped(a)
      /\ Handles(a, "call") /\ Asked(a).tool = "start_child_agent"
      /\ Launch(t) /\ UNCHANGED <<defer, omp, followUps, lost>>
  BY DEF CallStarts, Calls, HandlesCall, Handles
<1>2. t \in Agents
  BY <1>1, AskedTyped
<1>3. Prompts(t)
  BY <1>1, PoppedFrames DEF Prompts
<1> QED BY <1>1, <1>2, <1>3, LaunchWork

LEMMA CallSendsWork ==
  ASSUME ConversationTypeOK, ConversationTypeOK', WorkInv, NEW a \in Agents, CallSends(a)
  PROVE  WorkInv'
<1> DEFINE t == Asked(a).target
           isReport == a \in awaited[t]
           report == IF isReport THEN a ELSE None
<1>1. /\ frames[a] # <<>> /\ Head(frames[a]).kind = "call" /\ Popped(a)
      /\ Handles(a, "call") /\ Asked(a).tool = "send_agent_message"
      /\ FollowUp(t, report) /\ UNCHANGED <<session, omp, followUps, lost>>
      /\ defer' = [defer EXCEPT ![t] = @ \/ (isReport /\ session[t] = "streaming")]
  BY DEF CallSends, Calls, HandlesCall, Handles
<1>2. t \in Agents /\ report \in Agents \cup {None} /\ (isReport => report # None)
  BY <1>1, AskedTyped, HierarchyAssumption
<1>3. /\ \A b \in Agents \ {t} : defer'[b] = defer[b]
      /\ defer'[t] = defer[t] \/ (report # None /\ session[t] = "streaming")
  BY <1>1, <1>2 DEF ConversationTypeOK
<1>4. Prompts(t)
  BY <1>1, <1>3, PoppedFrames DEF Prompts
<1> HIDE DEF t, report
<1> QED BY <1>1, <1>2, <1>3, <1>4, FollowUpWork

-----------------------------------------------------------------------------
(* Turns *)

\* A turn that begins in the frames ends there, if it is not under way.
LEMMA HandlesStartWork ==
  ASSUME ConversationTypeOK, ConversationTypeOK', WorkInv, NEW a \in Agents, HandlesStart(a)
  PROVE  WorkInv'
<1>1. /\ Live(a) /\ frames[a] # <<>> /\ Head(frames[a]).kind = "agent_start" /\ Popped(a)
      /\ UNCHANGED <<goal, defer, messages, stdin, omp, followUps, lost>>
      /\ session' = [session EXCEPT ![a] = "streaming"]
  BY DEF HandlesStart, Handles, goalVars, postVars, historyVars
<1>2. session'[a] = "streaming" /\ \A b \in Agents \ {a} : session'[b] = session[b]
  BY <1>1 DEF ConversationTypeOK
<1>3. /\ \A b \in Agents : Keeps(frames[b], frames'[b])
      /\ \A b \in Agents : Answering(frames'[b]) \subseteq Answering(frames[b])
      /\ frames'[a] = Tail(frames[a]) /\ frames[a] \in Seq(Frames)
  BY <1>1, PoppedFrames DEF ConversationTypeOK
<1>4. MessagesStay /\ \A b \in Agents : PendingStays(b)
  BY <1>1, SamePrompts
<1>5. MailStep
  BY <1>1, <1>3 DEF MailStep, Mail
<1>6. \A b \in Agents \ {a} : GoesOn(b)
  BY <1>1, <1>2, <1>3, <1>4 DEF GoesOn, Busy
<1>7. TurnsEnd(a)'
  <2>1. Busy(a) \/ StartsEnd(frames[a])
    BY DEF WorkInv, TurnsEnd
  <2>2. Busy(a) \/ (StartsEnd(frames'[a]) /\ HasEnd(frames'[a]))
    BY <1>1, <1>3, <2>1, EndsOfTail
  <2> QED BY <1>1, <1>2, <2>2 DEF TurnsEnd, OneEnd, Busy
<1>8. Decided(a)'
  <2>1. OneEnd(a) => OneEnd(a)'
    BY <1>1, <1>3 DEF OneEnd, Keeps, Busy
  <2>2. TwoEnds(a) => TwoEnds(a)'
    BY <1>1, <1>3 DEF TwoEnds, Keeps, Busy
  <2>3. Pending(a) => Pending(a)'
    BY <1>1, <1>3 DEF Pending, Weighty, OpenTo, Open, Keeps
  <2> QED BY <1>1, <1>2, <2>1, <2>2, <2>3 DEF Decided, WorkInv
<1> QED BY <1>4, <1>5, <1>6, <1>7, <1>8, WorkStep DEF AgentsGoOn, Works

\* At the end of a turn the goal is decided, unless there is a second end.
LEMMA HandlesEndWork ==
  ASSUME ConversationTypeOK, ConversationTypeOK', WorkInv, NEW a \in Agents, HandlesEnd(a)
  PROVE  WorkInv'
<1> DEFINE output == Head(frames[a]).output
<1>1. /\ Live(a) /\ frames[a] # <<>> /\ Popped(a)
      /\ UNCHANGED <<messages, stdin, omp, followUps, lost>>
      /\ session' = [session EXCEPT ![a] = "ready"] /\ defer' = [defer EXCEPT ![a] = FALSE]
      /\ goal' = [goal EXCEPT ![a] = IF @ = "running" THEN GoalAfterTurn(a, output) ELSE @]
  BY DEF HandlesEnd, Handles, postVars, historyVars
<1> HIDE DEF output
<1>2. /\ session'[a] = "ready" /\ defer'[a] = FALSE
      /\ \A b \in Agents \ {a} :
           session'[b] = session[b] /\ defer'[b] = defer[b] /\ goal'[b] = goal[b]
  BY <1>1 DEF ConversationTypeOK, DelegationTypeOK
<1>3. /\ \A b \in Agents : Answering(frames'[b]) \subseteq Answering(frames[b])
      /\ \A b \in Agents \ {a} : Keeps(frames[b], frames'[b])
      /\ frames'[a] = Tail(frames[a]) /\ frames[a] \in Seq(Frames)
  BY <1>1, PoppedFrames DEF ConversationTypeOK
<1>4. MessagesStay /\ \A b \in Agents : PendingStays(b)
  BY <1>1, SamePrompts
<1>5. MailStep
  BY <1>1, <1>3 DEF MailStep, Mail
<1>6. \A b \in Agents \ {a} : GoesOn(b)
  BY <1>1, <1>2, <1>3, <1>4 DEF GoesOn, Busy
<1>7. TurnsEnd(a)'
  BY <1>1, <1>2, <1>3, EndsOfTail DEF TurnsEnd, Busy, WorkInv
<1>8. Decided(a)'
  <2> SUFFICES ASSUME ~lost', goal'[a] = "running"
               PROVE  omp'[a] = "dead" \/ Pending(a)' \/ OneEnd(a)'
    BY <1>2 DEF Decided
  <2>1. goal[a] = "running" /\ GoalAfterTurn(a, output) = "running"
    BY <1>1 DEF ConversationTypeOK, DelegationTypeOK
  <2>2. defer[a]
    BY <2>1 DEF GoalAfterTurn, ConversationTypeOK
  <2>3. omp[a] = "dead" \/ Pending(a) \/ TwoEnds(a)
    BY <1>1, <2>1, <2>2 DEF WorkInv, Decided
  <2>4. Pending(a) => Pending(a)'
    BY <1>1, <1>3, EndsOfTail DEF Pending, Weighty, OpenTo, Open
  <2>5. TwoEnds(a) => OneEnd(a)'
    BY <1>1, <1>3, EndsOfTail DEF TwoEnds, OneEnd, Busy
  <2> QED BY <1>1, <2>3, <2>4, <2>5
<1> QED BY <1>4, <1>5, <1>6, <1>7, <1>8, WorkStep DEF AgentsGoOn, Works

-----------------------------------------------------------------------------
(* The OMP processes *)

LEMMA EmittedFrames ==
  ASSUME ConversationTypeOK, NEW a \in Agents, NEW f \in Frames, NEW g \in Frames
  PROVE  /\ Emit(a, <<f>>) => frames'[a] = Append(frames[a], f)
         /\ Emit(a, <<f, g>>) => frames'[a] = Append(Append(frames[a], f), g)
<1>1. frames \in [Agents -> Seq(Frames)]
  BY DEF ConversationTypeOK
<1>2. frames[a] \o <<f>> = Append(frames[a], f)
        /\ frames[a] \o <<f, g>> = Append(Append(frames[a], f), g)
  BY <1>1, EmitIsAppend
<1>3. Emit(a, <<f>>) => frames'[a] = frames[a] \o <<f>>
  BY <1>1 DEF Emit
<1>4. Emit(a, <<f, g>>) => frames'[a] = frames[a] \o <<f, g>>
  BY <1>1 DEF Emit
<1> QED BY <1>2, <1>3, <1>4

LEMMA EmitsAlone ==
  ASSUME ConversationTypeOK, NEW a \in Agents, NEW fs, Emit(a, fs)
  PROVE  \A b \in Agents \ {a} : frames'[b] = frames[b]
BY DEF ConversationTypeOK, Emit

\* What a process does by itself: the controller and the others go on.
OmpSteps(a) ==
  /\ UNCHANGED <<goal, session, defer, messages, lost>>
  /\ \A b \in Agents \ {a} :
       frames'[b] = frames[b] /\ omp'[b] = omp[b] /\ followUps'[b] = followUps[b]

LEMMA OmpStepsWork ==
  ASSUME ConversationTypeOK, ConversationTypeOK', WorkInv, NEW a \in Agents,
         OmpSteps(a), MailStep, GoesOn(a) \/ Works(a)
  PROVE  WorkInv'
<1>1. MessagesStay /\ \A b \in Agents : PendingStays(b)
  BY SamePrompts DEF OmpSteps
<1>2. \A b \in Agents \ {a} : GoesOn(b)
  BY <1>1, SameKeeps DEF OmpSteps, GoesOn, Busy
<1> QED BY <1>1, <1>2, WorkStep DEF AgentsGoOn

LEMMA OmpReadsWork ==
  ASSUME ConversationTypeOK, ConversationTypeOK', WorkInv, NEW a \in Agents, OmpReads(a)
  PROVE  WorkInv'
<1> DEFINE p == Head(stdin[a])
           answer(ok) == [kind |-> "response", message |-> p.message, accepted |-> ok]
           begin == [kind |-> "agent_start"]
           q == frames[a]
<1>1. /\ omp[a] # "dead" /\ stdin[a] # <<>> /\ stdin' = [stdin EXCEPT ![a] = Tail(@)]
      /\ UNCHANGED <<goal, session, defer, messages, lost>>
      /\ \/ omp[a] = "idle" /\ omp' = [omp EXCEPT ![a] = "turn"]
              /\ Emit(a, <<answer(TRUE), begin>>) /\ UNCHANGED followUps
         \/ omp[a] # "idle" /\ UNCHANGED omp /\ followUps' = [followUps EXCEPT ![a] = @ + 1]
              /\ Emit(a, <<answer(TRUE)>>)
         \/ omp[a] # "idle" /\ UNCHANGED <<omp, followUps>> /\ Emit(a, <<answer(FALSE)>>)
  BY DEF OmpReads, goalVars, sessionVars, historyVars
<1>2. /\ q \in Seq(Frames) /\ p.message \in Nat
      /\ Asking(Tail(stdin[a])) \subseteq Asking(stdin[a]) /\ p.message \in Asking(stdin[a])
  <2>1. q \in Seq(Frames) /\ stdin[a] \in Seq([message : Nat, follows : BOOLEAN])
    BY DEF ConversationTypeOK
  <2>2. p \in [message : Nat, follows : BOOLEAN]
    BY <1>1, <2>1, HeadTail
  <2>3. Asking(Tail(stdin[a])) \subseteq Asking(stdin[a]) /\ p.message \in Asking(stdin[a])
    BY <1>1, <2>1, AskingOf
  <2> QED BY <2>1, <2>2, <2>3
<1>3. /\ answer(TRUE) \in Frames /\ answer(FALSE) \in Frames /\ begin \in Frames
  BY <1>2 DEF Frames
<1>4. /\ answer(TRUE).kind = "response" /\ answer(TRUE).message = p.message
      /\ answer(FALSE).kind = "response" /\ answer(FALSE).message = p.message
      /\ answer(FALSE).accepted = FALSE /\ begin.kind = "agent_start"
  OBVIOUS
<1> HIDE DEF p, answer, begin, q
<1>5. OmpSteps(a)
  <2>1. \A b \in Agents \ {a} : frames'[b] = frames[b]
    BY <1>1, EmitsAlone
  <2>2. DOMAIN omp = Agents /\ DOMAIN followUps = Agents
    BY DEF ConversationTypeOK
  <2>3. \A b \in Agents \ {a} : omp'[b] = omp[b] /\ followUps'[b] = followUps[b]
    BY <1>1, <2>2
  <2> QED BY <1>1, <2>1, <2>3 DEF OmpSteps
<1>6. Own(a, p.message)
  <2>1. p.message \in Mail(a)
    BY <1>2 DEF Mail
  <2> QED BY <2>1 DEF WorkInv, MailIsOwn
<1>7. /\ Emit(a, <<answer(TRUE), begin>>) => frames'[a] = Append(Append(q, answer(TRUE)), begin)
      /\ Emit(a, <<answer(TRUE)>>) => frames'[a] = Append(q, answer(TRUE))
      /\ Emit(a, <<answer(FALSE)>>) => frames'[a] = Append(q, answer(FALSE))
  BY <1>3, EmittedFrames DEF q
<1>8. Answering(frames'[a]) \subseteq Answering(q) \cup {p.message}
  <2>1. Append(q, answer(TRUE)) \in Seq(Frames)
          /\ Answering(Append(q, answer(TRUE))) \subseteq Answering(q) \cup {p.message}
    BY <1>2, <1>3, <1>4, AnsweringOf, AppendOf
  <2>2. Answering(Append(q, answer(FALSE))) \subseteq Answering(q) \cup {p.message}
    BY <1>2, <1>3, <1>4, AnsweringOf
  <2>3. \A r \in Seq(Frames) : Answering(Append(r, begin)) \subseteq Answering(r)
    BY <1>3, <1>4, AnsweringOf
  <2> QED BY <1>1, <1>7, <2>1, <2>2, <2>3
<1>9. Asking(stdin'[a]) \subseteq Asking(stdin[a])
        /\ \A b \in Agents \ {a} : stdin'[b] = stdin[b]
  BY <1>1, <1>2 DEF ConversationTypeOK
<1>10. MailStep
  <2>1. \A m \in Mail(a)' : m \in Mail(a) \/ m = p.message
    BY <1>8, <1>9 DEF Mail, q
  <2>2. ASSUME NEW b \in Agents \ {a}, NEW m \in Mail(b)'
        PROVE  m \in Mail(b)
    BY <1>5, <1>9, <2>2 DEF Mail, OmpSteps
  <2>3. PICK k : k = p.message
    OBVIOUS
  <2>4. Own(a, k)'
    BY <1>1, <1>6, <2>3 DEF Own, Open
  <2> QED BY <2>1, <2>2, <2>3, <2>4 DEF MailStep
<1>11. CASE omp[a] = "idle" /\ omp'[a] = "turn"
              /\ frames'[a] = Append(Append(q, answer(TRUE)), begin)
  <2>1. HasEnd(q) => HasEnd(frames'[a])
    <3>1. Append(q, answer(TRUE)) \in Seq(Frames)
            /\ (HasEnd(q) => HasEnd(Append(q, answer(TRUE))))
      BY <1>2, <1>3, EndsOfAppend, AppendOf
    <3> QED BY <1>3, <1>11, <3>1, EndsOfAppend
  <2>2. defer[a] => HasEnd(q)
    BY <1>11 DEF WorkInv, TurnsEnd, OneEnd, Busy, q
  <2>3. Works(a)
    BY <1>5, <1>11, <2>1, <2>2 DEF Works, TurnsEnd, Decided, OneEnd, TwoEnds, Busy, OmpSteps, WorkInv
  <2> QED BY <1>5, <1>10, <2>3, OmpStepsWork
<1>12. CASE omp[a] # "idle" /\ omp'[a] = omp[a] /\ followUps'[a] = followUps[a] + 1
  <2>1. followUps'[a] > 0
    BY <1>12 DEF ConversationTypeOK
  <2>2. Works(a)
    BY <1>5, <1>12, <2>1 DEF Works, TurnsEnd, Decided, OneEnd, TwoEnds, Busy, OmpSteps, WorkInv
  <2> QED BY <1>5, <1>10, <2>2, OmpStepsWork
<1>13. CASE /\ UNCHANGED <<omp, followUps>> /\ frames'[a] = Append(q, answer(FALSE))
  <2>1. Keeps(q, frames'[a])
    BY <1>2, <1>3, <1>4, <1>13, AppendKeeps
  <2>2. PendingStays(a)
    BY <1>5, SamePrompts DEF OmpSteps
  <2>3. GoesOn(a)
    BY <1>5, <1>13, <2>1, <2>2 DEF GoesOn, OmpSteps, Busy, q
  <2> QED BY <1>5, <1>10, <2>3, OmpStepsWork
<1>14. \/ omp[a] = "idle" /\ omp'[a] = "turn"
            /\ frames'[a] = Append(Append(q, answer(TRUE)), begin)
       \/ omp[a] # "idle" /\ omp'[a] = omp[a] /\ followUps'[a] = followUps[a] + 1
       \/ UNCHANGED <<omp, followUps>> /\ frames'[a] = Append(q, answer(FALSE))
  BY <1>1, <1>7 DEF ConversationTypeOK
<1> QED BY <1>11, <1>12, <1>13, <1>14

LEMMA OmpAsksWork ==
  ASSUME ConversationTypeOK, ConversationTypeOK', WorkInv, NEW a \in Agents, OmpAsks(a)
  PROVE  WorkInv'
<1>1. PICK i \in asked[a] + 1 .. Len(Asks[a]) :
        \/ Asks[a][i].tool = "input" /\ Emit(a, <<[kind |-> "ui_request"]>>) /\ UNCHANGED omp
        \/ /\ Asks[a][i].tool # "input"
           /\ Emit(a, <<[kind |-> "call", asks |-> Asks[a][i]]>>)
           /\ omp' = [omp EXCEPT ![a] = "calling"]
  BY DEF OmpAsks
<1>2. /\ omp[a] = "turn"
      /\ UNCHANGED <<goal, session, defer, messages, stdin, followUps, lost>>
  BY DEF OmpAsks, goalVars, sessionVars, postVars, historyVars
<1>3. Asks[a][i].tool = "input" \/ Asks[a][i] \in Tools
  <2>1. i \in 1..Len(Asks[a])
    BY <1>1 DEF ConversationTypeOK
  <2> QED BY <2>1, EnvironmentAssumption
<1>4. PICK f \in Frames : Emit(a, <<f>>) /\ f.kind \in {"ui_request", "call"}
  <2>1. CASE Emit(a, <<[kind |-> "ui_request"]>>)
    <3> DEFINE g == [kind |-> "ui_request"]
    <3>1. g \in Frames /\ g.kind = "ui_request"
      BY DEF Frames
    <3> QED BY <2>1, <3>1
  <2>2. CASE Asks[a][i] \in Tools /\ Emit(a, <<[kind |-> "call", asks |-> Asks[a][i]]>>)
    <3> DEFINE g == [kind |-> "call", asks |-> Asks[a][i]]
    <3>1. g \in Frames /\ g.kind = "call"
      BY <2>2 DEF Frames
    <3> QED BY <2>2, <3>1
  <2> QED BY <1>1, <1>3, <2>1, <2>2
<1>5. frames[a] \in Seq(Frames)
  BY DEF ConversationTypeOK
<1>6. /\ frames'[a] = Append(frames[a], f) /\ \A b \in Agents \ {a} : frames'[b] = frames[b]
      /\ omp'[a] \in {"turn", "calling"} /\ \A b \in Agents \ {a} : omp'[b] = omp[b]
  <2>1. frames'[a] = Append(frames[a], f) /\ \A b \in Agents \ {a} : frames'[b] = frames[b]
    BY <1>4, EmittedFrames, EmitsAlone
  <2> QED BY <1>1, <1>2, <2>1 DEF ConversationTypeOK
<1>7. Keeps(frames[a], frames'[a]) /\ Answering(frames'[a]) \subseteq Answering(frames[a])
  BY <1>4, <1>5, <1>6, AppendKeeps, AnsweringOf
<1>8. OmpSteps(a)
  BY <1>2, <1>6 DEF OmpSteps
<1>9. MailStep
  BY <1>2, <1>6, <1>7 DEF MailStep, Mail
<1>10. GoesOn(a)
  BY <1>2, <1>6, <1>7, SamePrompts DEF GoesOn, Busy
<1> QED BY <1>8, <1>9, <1>10, OmpStepsWork

LEMMA OmpEndsWork ==
  ASSUME ConversationTypeOK, ConversationTypeOK', WorkInv, NEW a \in Agents, OmpEnds(a)
  PROVE  WorkInv'
<1> DEFINE begin == [kind |-> "agent_start"]
           q == frames[a]
<1>1. PICK end \in Frames :
        /\ end.kind = "agent_end"
        /\ \/ /\ followUps[a] > 0 /\ Emit(a, <<end, begin>>) /\ UNCHANGED omp
              /\ followUps' = [followUps EXCEPT ![a] = @ - 1]
           \/ /\ ~(followUps[a] > 0) /\ Emit(a, <<end>>) /\ omp' = [omp EXCEPT ![a] = "idle"]
              /\ UNCHANGED followUps
  BY DEF OmpEnds, Frames
<1>2. /\ omp[a] = "turn"
      /\ UNCHANGED <<goal, session, defer, messages, stdin, lost>>
  BY DEF OmpEnds, goalVars, sessionVars, postVars, historyVars
<1>3. begin \in Frames /\ begin.kind = "agent_start" /\ q \in Seq(Frames)
  BY DEF Frames, ConversationTypeOK
<1> HIDE DEF begin
<1>4. OmpSteps(a)
  <2>1. \A b \in Agents \ {a} : frames'[b] = frames[b]
    BY <1>1, EmitsAlone
  <2> QED BY <1>1, <1>2, <2>1 DEF OmpSteps, ConversationTypeOK
<1>5. \/ omp'[a] = "turn" /\ frames'[a] = Append(Append(q, end), begin)
      \/ omp'[a] = "idle" /\ ~(followUps[a] > 0) /\ frames'[a] = Append(q, end)
  <2>1. /\ Emit(a, <<end, begin>>) => frames'[a] = Append(Append(q, end), begin)
        /\ Emit(a, <<end>>) => frames'[a] = Append(q, end)
    BY <1>1, <1>3, EmittedFrames
  <2> QED BY <1>1, <1>2, <2>1 DEF ConversationTypeOK
<1>6. Append(q, end) \in Seq(Frames)
  BY <1>3, AppendOf
<1>7. HasEnd(frames'[a]) /\ Answering(frames'[a]) \subseteq Answering(q)
  <2>1. HasEnd(Append(q, end)) /\ Answering(Append(q, end)) \subseteq Answering(q)
    BY <1>1, <1>3, EndsOfAppend, AnsweringOf
  <2>2. \A r \in Seq(Frames) : HasEnd(r) => HasEnd(Append(r, begin))
    BY <1>3, EndsOfAppend
  <2>3. \A r \in Seq(Frames) : Answering(Append(r, begin)) \subseteq Answering(r)
    BY <1>3, AnsweringOf
  <2> QED BY <1>5, <1>6, <2>1, <2>2, <2>3
<1>8. MailStep
  BY <1>2, <1>4, <1>7 DEF MailStep, Mail, OmpSteps
<1>9. CASE omp'[a] = "turn"
  <2>1. Works(a)
    BY <1>2, <1>7, <1>9 DEF Works, TurnsEnd, Decided, OneEnd, TwoEnds, Busy, WorkInv
  <2> QED BY <1>4, <1>8, <2>1, OmpStepsWork
<1>10. CASE omp'[a] = "idle" /\ ~(followUps[a] > 0) /\ frames'[a] = Append(q, end)
  <2>1. StartsEnd(frames'[a]) /\ (HasEnd(q) => HasTwoEnds(frames'[a]))
          /\ (HasTwoEnds(q) => HasTwoEnds(frames'[a]))
          /\ \A m : AcceptedIn(frames'[a], m) => AcceptedIn(q, m)
    BY <1>1, <1>3, <1>10, EndsOfAppend
  <2>2. TurnsEnd(a)'
    BY <1>2, <1>7, <2>1 DEF TurnsEnd, OneEnd, WorkInv
  <2>3. TwoEnds(a) => TwoEnds(a)'
    BY <1>10, <2>1 DEF TwoEnds
  <2>4. Pending(a) => Pending(a)'
    BY <1>2, <2>1 DEF Pending, Weighty, OpenTo, Open
  <2>5. Decided(a)'
    BY <1>2, <1>7, <2>3, <2>4 DEF Decided, OneEnd, Live, WorkInv
  <2> QED BY <1>4, <1>8, <2>2, <2>5, OmpStepsWork DEF Works
<1> QED BY <1>5, <1>9, <1>10

LEMMA OmpDiesWork ==
  ASSUME ConversationTypeOK, ConversationTypeOK', WorkInv, NEW a \in Agents, OmpDies(a)
  PROVE  WorkInv'
<1>1. /\ UNCHANGED <<goal, session, defer, messages, stdin, frames, followUps, lost>>
      /\ omp' = [omp EXCEPT ![a] = "dead"]
  BY DEF OmpDies, goalVars, sessionVars, postVars, historyVars
<1>2. omp'[a] = "dead" /\ OmpSteps(a)
  BY <1>1 DEF OmpSteps, ConversationTypeOK
<1>3. MailStep
  BY <1>1 DEF MailStep, Mail
<1>4. Works(a)
  BY <1>1, <1>2 DEF Works, TurnsEnd, Decided, OneEnd, Busy, WorkInv
<1> QED BY <1>2, <1>3, <1>4, OmpStepsWork

-----------------------------------------------------------------------------
LEMMA NextWork ==
  ASSUME ConversationTypeOK, ConversationTypeOK', WorkInv, ConversationNext
  PROVE  WorkInv'
<1>1. ASSUME NEW a \in Agents, OwnerActs(a)
      PROVE  WorkInv'
  BY <1>1, OwnerCreatesWork, OwnerStartsWork, OwnerWritesWork, OwnerEndsWork DEF OwnerActs
<1>2. ASSUME NEW a \in Agents, HandlesFrame(a)
      PROVE  WorkInv'
  BY <1>2, HandlesResponseWork, HandlesStartWork, HandlesUiRequestWork, HandlesEndWork,
     AnsweredCallsWork, CallStartsWork, CallSendsWork, CallSendFailsWork DEF HandlesFrame
<1>3. ASSUME NEW a \in Agents, CallReturns(a) \/ HandlesExit(a)
      PROVE  WorkInv'
  BY <1>3, CallReturnsWork, OwnerEndsWork
<1>4. ASSUME NEW a \in Agents, OmpActs(a)
      PROVE  WorkInv'
  BY <1>4, OmpReadsWork, OmpAsksWork, OmpEndsWork, OmpDiesWork DEF OmpActs
<1>5. ASSUME NEW m \in Open, TimesOut(m)
      PROVE  WorkInv'
  BY <1>5, TimesOutWork
<1> QED BY <1>1, <1>2, <1>3, <1>4, <1>5 DEF ConversationNext

LEMMA InitWork ==
  ASSUME ConversationInit
  PROVE  WorkInv
<1>1. \A a \in Agents : /\ stdin[a] = <<>> /\ frames[a] = <<>> /\ session[a] = "none"
                        /\ defer[a] = FALSE /\ omp[a] = "idle"
  BY DEF ConversationInit
<1>2. Asking(<<>>) = {} /\ Answering(<<>>) = {} /\ StartsEnd(<<>>)
  BY DEF Asking, Answering, StartsEnd
<1> QED BY <1>1, <1>2 DEF WorkInv, MailIsOwn, Mail, TurnsEnd, Decided, Live

LEMMA SameWork ==
  ASSUME WorkInv, UNCHANGED conversationVars
  PROVE  WorkInv'
<1>1. UNCHANGED <<goal, session, defer, messages, stdin, frames, omp, followUps, lost>>
  BY DEF conversationVars, goalVars, sessionVars, postVars, ompVars, historyVars
<1>2. MailIsOwn'
  BY <1>1 DEF WorkInv, MailIsOwn, Mail, Own, Open
<1>3. ASSUME NEW a \in Agents
      PROVE  TurnsEnd(a)' /\ Decided(a)'
  <2>1. Pending(a) => Pending(a)'
    BY <1>1 DEF Pending, Weighty, OpenTo, Open
  <2> QED BY <1>1, <2>1 DEF WorkInv, TurnsEnd, Decided, OneEnd, TwoEnds, Busy, Live
<1> QED BY <1>2, <1>3 DEF WorkInv

LEMMA WorkIsUnderway ==
  ASSUME WorkInv
  PROVE  RunningIsWorkedOn
<1>1. \A a \in Agents : HasEnd(frames[a]) \/ HasTwoEnds(frames[a]) => frames[a] # <<>>
  BY DEF HasEnd, HasTwoEnds
<1>2. \A a \in Agents : Pending(a) => OpenTo(a) # {}
  BY DEF Pending
<1> QED BY <1>1, <1>2 DEF WorkInv, Decided, OneEnd, TwoEnds, Busy, RunningIsWorkedOn, Underway

\* The inductive invariant of agents at work.  (Every turn that the controller
\* takes to be under way ends in the frames to come; every running goal of a
\* live session has a prompt to come or the end of the turn that decides it.)
THEOREM WorkInvariant == ConversationSpec => []WorkInv
<1>1. ConversationTypeOK /\ ConversationTypeOK' /\ WorkInv /\ [ConversationNext]_conversationVars
        => WorkInv'
  BY NextWork, SameWork
<1>2. ConversationInit => WorkInv
  BY InitWork
<1> QED BY <1>1, <1>2, ConversationTypeCorrect, PTL DEF ConversationSpec

\* No turn ends without a verdict on a running goal, whoever writes to whom
\* and whatever is refused or comes late, unless the report of a child could
\* not be delivered.
THEOREM RunningGoalsAreWorkedOn == ConversationSpec => []RunningIsWorkedOn
<1>1. WorkInv => RunningIsWorkedOn
  BY WorkIsUnderway
<1> QED BY <1>1, WorkInvariant, PTL

-----------------------------------------------------------------------------
(* Reports.  A child is owed from the moment its start is under way, and then *)
(* it is awaited: the handlers that take it off do so with its report or when *)
(* it could not be started, but for the refusal of a second start.            *)

\* The calls in the frames of a process: none, or the one that asks for x.
NoCall(q) == \A i \in 1..Len(q) : q[i].kind # "call"
OneCall(q, x) ==
  \E i \in 1..Len(q) : /\ q[i].kind = "call" /\ q[i].asks = x
                       /\ \A j \in 1..Len(q) : q[j].kind = "call" => j = i

\* An agent has one call at a time, and that is the last thing it asked for.
InTurn(a) ==
  /\ asked[a] <= Len(Asks[a])
  /\ \/ NoCall(frames[a]) /\ (call[a] # None => omp[a] \in {"calling", "dead"})
     \/ /\ call[a] = None /\ omp[a] \in {"calling", "dead"}
        /\ asked[a] >= 1 /\ OneCall(frames[a], Asks[a][asked[a]])

\* A call of a to start c has been handled.
HasStarted(a, c) ==
  \E i \in 1..asked[a] : IsStart(Asks[a][i], c) /\ (i < asked[a] \/ NoCall(frames[a]))

\* Nothing has happened to a process before its session.
Fresh(a) == session[a] = "none" => stdin[a] = <<>> /\ frames[a] = <<>> /\ omp[a] = "idle"

\* The first thing a is to do, or has done as far as the controller knows, is
\* to answer prompt m.
Begins(a, m) ==
  IF frames[a] = <<>>
  THEN stdin[a] # <<>> /\ Head(stdin[a]).message = m /\ omp[a] \in {"idle", "dead"}
  ELSE Head(frames[a]).kind = "response" /\ Head(frames[a]).message = m

\* The reports of c that are under way; a prompt whose recipient has not begun.
Reporting(c) == {m \in Open : messages[m].report = c}
Unbegun(m) == Reporting(messages[m].to) = {} /\ Begins(messages[m].to, m)

\* A handler that waits for a child to start: if the start fails, the child
\* is owed no more, nor will it be.
StartReturns(a) ==
  call[a] # None /\ call[a].tool = "start_child_agent" =>
    LET m == call[a].message
        t == call[a].target
    IN /\ m \in 1..Len(messages)
       /\ m \in Open => messages[m].first /\ messages[m].to = t
       /\ messages[m].status = "failed" =>
            t \notin owed[a] /\ session[t] = "exited" /\ Reporting(t) = {}

OwedAreAwaited == \A a \in Agents : \A c \in owed[a] : c \in awaited[a] \/ StartedTwice(a, c)

ReportInv ==
  /\ DOMAIN owed = Agents
  /\ \A a \in Agents : InTurn(a) /\ Fresh(a) /\ StartReturns(a)
  /\ OwedAreAwaited
  /\ \A a \in Agents : \A c \in awaited[a] : HasStarted(a, c)
  /\ \A m \in Open :
       /\ messages[m].report # None => HasStarted(messages[m].to, messages[m].report)
       /\ messages[m].first => Unbegun(m)

-----------------------------------------------------------------------------
(* Calls in frames *)

LEMMA CallsOfTail ==
  ASSUME NEW q \in Seq(Frames), q # <<>>
  PROVE  /\ NoCall(q) => NoCall(Tail(q)) /\ Head(q).kind # "call"
         /\ \A x : OneCall(q, x) =>
              IF Head(q).kind = "call" THEN Head(q).asks = x /\ NoCall(Tail(q))
              ELSE OneCall(Tail(q), x)
<1> DEFINE r == Tail(q)
<1>1. /\ Len(q) \in Nat /\ Len(q) >= 1 /\ Len(r) = Len(q) - 1 /\ Head(q) = q[1]
      /\ \A i \in 1..Len(r) : i + 1 \in 1..Len(q) /\ r[i] = q[i + 1]
  BY TailOf
<1> HIDE DEF r
<1>2. 1 \in 1..Len(q) /\ \A j \in 2..Len(q) : j - 1 \in 1..Len(r) /\ r[j - 1] = q[j]
  BY <1>1
<1>3. NoCall(q) => NoCall(r) /\ Head(q).kind # "call"
  BY <1>1, <1>2 DEF NoCall
<1>4. ASSUME NEW x, OneCall(q, x), Head(q).kind = "call"
      PROVE  Head(q).asks = x /\ NoCall(r)
  BY <1>1, <1>2, <1>4 DEF OneCall, NoCall
<1>5. ASSUME NEW x, OneCall(q, x), Head(q).kind # "call"
      PROVE  OneCall(r, x)
  <2>1. PICK i \in 1..Len(q) : /\ q[i].kind = "call" /\ q[i].asks = x
                               /\ \A j \in 1..Len(q) : q[j].kind = "call" => j = i
    BY <1>5 DEF OneCall
  <2>2. i \in 2..Len(q)
    BY <1>1, <1>5, <2>1
  <2>3. /\ i - 1 \in 1..Len(r) /\ r[i - 1].kind = "call" /\ r[i - 1].asks = x
        /\ \A j \in 1..Len(r) : r[j].kind = "call" => j = i - 1
    BY <1>1, <1>2, <2>1, <2>2
  <2> QED BY <2>3 DEF OneCall
<1> QED BY <1>3, <1>4, <1>5 DEF r

\* The calls stay in the frames.
SameCalls(q, r) == (NoCall(q) => NoCall(r)) /\ \A x : OneCall(q, x) => OneCall(r, x)

LEMMA CallsOfAppend ==
  ASSUME NEW q \in Seq(Frames), NEW f \in Frames
  PROVE  /\ f.kind # "call" => SameCalls(q, Append(q, f))
         /\ f.kind = "call" /\ NoCall(q) => OneCall(Append(q, f), f.asks)
<1> DEFINE r == Append(q, f)
           n == Len(q) + 1
<1>1. /\ Len(q) \in Nat /\ Len(r) = n /\ r[n] = f
      /\ \A i \in 1..Len(q) : r[i] = q[i]
  BY AppendOf
<1>2. n \in 1..Len(r) /\ \A i \in 1..Len(q) : i \in 1..Len(r)
  BY <1>1
<1>3. \A i \in 1..Len(r) : i \in 1..Len(q) \/ i = n
  BY <1>1
<1> HIDE DEF r, n
<1>4. f.kind # "call" /\ NoCall(q) => NoCall(r)
  BY <1>1, <1>3 DEF NoCall
<1>5. ASSUME f.kind # "call", NEW x, OneCall(q, x)
      PROVE  OneCall(r, x)
  BY <1>1, <1>2, <1>3, <1>5 DEF OneCall
<1>6. f.kind = "call" /\ NoCall(q) => OneCall(r, f.asks)
  BY <1>1, <1>2, <1>3 DEF OneCall, NoCall
<1> QED BY <1>4, <1>5, <1>6 DEF r, SameCalls

-----------------------------------------------------------------------------
(* What a step may do to the calls, the start and the prompts of an agent *)

\* Nothing happens to a call of b; the call it has in its frames is handled;
\* it has none any more; it asks for something.
CallStep(b) ==
  \/ /\ asked'[b] = asked[b] /\ call'[b] = call[b] /\ SameCalls(frames[b], frames'[b])
     /\ omp[b] \in {"calling", "dead"} => omp'[b] \in {"calling", "dead"}
  \/ /\ asked'[b] = asked[b] /\ call[b] = None /\ frames[b] # <<>>
     /\ Head(frames[b]).kind = "call" /\ frames'[b] = Tail(frames[b])
     /\ call'[b] = None \/ omp'[b] = omp[b]
  \/ asked'[b] = asked[b] /\ call'[b] = None /\ NoCall(frames'[b])
  \/ /\ omp[b] = "turn" /\ asked'[b] \in asked[b] + 1 .. Len(Asks[b]) /\ call'[b] = call[b]
     /\ \/ SameCalls(frames[b], frames'[b])
        \/ /\ NoCall(frames[b]) => OneCall(frames'[b], Asks[b][asked'[b]])
           /\ omp'[b] = "calling"

LEMMA CallsStay ==
  ASSUME ConversationTypeOK, NEW b \in Agents, InTurn(b), CallStep(b)
  PROVE  InTurn(b)' /\ \A c : HasStarted(b, c) => HasStarted(b, c)'
<1>1. frames[b] \in Seq(Frames) /\ asked[b] \in Nat
  BY DEF ConversationTypeOK
<1>2. Len(Asks[b]) \in Nat
  BY EnvironmentAssumption
<1>3. CASE /\ asked'[b] = asked[b] /\ call'[b] = call[b] /\ SameCalls(frames[b], frames'[b])
           /\ omp[b] \in {"calling", "dead"} => omp'[b] \in {"calling", "dead"}
  BY <1>3 DEF InTurn, HasStarted, SameCalls
<1>4. CASE /\ asked'[b] = asked[b] /\ call[b] = None /\ frames[b] # <<>>
           /\ Head(frames[b]).kind = "call" /\ frames'[b] = Tail(frames[b])
           /\ call'[b] = None \/ omp'[b] = omp[b]
  <2>1. omp[b] \in {"calling", "dead"} /\ NoCall(frames'[b])
    BY <1>1, <1>4, CallsOfTail DEF InTurn
  <2> QED BY <1>4, <2>1 DEF InTurn, HasStarted
<1>5. CASE asked'[b] = asked[b] /\ call'[b] = None /\ NoCall(frames'[b])
  BY <1>5 DEF InTurn, HasStarted
<1>6. CASE /\ omp[b] = "turn" /\ asked'[b] \in asked[b] + 1 .. Len(Asks[b]) /\ call'[b] = call[b]
           /\ \/ SameCalls(frames[b], frames'[b])
              \/ /\ NoCall(frames[b]) => OneCall(frames'[b], Asks[b][asked'[b]])
                 /\ omp'[b] = "calling"
  <2>1. call[b] = None /\ NoCall(frames[b])
    BY <1>6 DEF InTurn
  <2>2. asked'[b] \in Nat /\ asked'[b] >= 1 /\ asked'[b] <= Len(Asks[b])
          /\ \A i \in 1..asked[b] : i \in 1..asked'[b] /\ i < asked'[b]
    BY <1>1, <1>2, <1>6
  <2>3. InTurn(b)'
    BY <1>6, <2>1, <2>2 DEF InTurn, SameCalls
  <2>4. \A c : HasStarted(b, c) => HasStarted(b, c)'
    BY <2>2 DEF HasStarted
  <2> QED BY <2>3, <2>4
<1> QED BY <1>3, <1>4, <1>5, <1>6 DEF CallStep

\* A process without a session is not touched.
FreshStep(b) ==
  session'[b] # "none" \/ UNCHANGED <<session[b], stdin[b], frames[b], omp[b]>>

\* b is about to handle a call.
AtCall(b) == session[b] # "exited" /\ frames[b] # <<>> /\ Head(frames[b]).kind = "call"

\* What any step may do.
ReportsGoOn ==
  /\ \A b \in Agents : /\ CallStep(b) /\ FreshStep(b)
                       /\ session[b] = "exited" => session'[b] = "exited"
  /\ MessagesStay /\ \A m \in 1..Len(messages) : messages'[m] = messages[m] \/ m \in Open
  /\ OwedAreAwaited'
  /\ \A b \in Agents : \A c \in awaited'[b] : HasStarted(b, c) \/ HasStarted(b, c)'
  /\ \A b \in Agents : \A c \in owed'[b] :
       c \in owed[b] \/ session[c] = "none" \/ Reporting(c) # {}
  /\ \A m \in Open' \ Open :
       /\ messages'[m].report # None =>
            AtCall(messages'[m].report) /\ HasStarted(messages'[m].to, messages'[m].report)
       /\ messages'[m].first => session[messages'[m].to] = "none"
  /\ \A m \in Open', b \in Agents : messages'[m].first /\ messages'[m].to = b => Begins(b, m)'
  /\ \A b \in Agents :
       \/ call'[b] \in {call[b], None}
       \/ call'[b].tool # "start_child_agent"
       \/ /\ call'[b].message \in Open' /\ messages'[call'[b].message].first
          /\ messages'[call'[b].message].to = call'[b].target
  /\ \A m \in Open : messages[m].first /\ messages'[m].status = "failed" =>
       /\ session'[messages[m].to] = "exited"
       /\ \A b \in Agents : messages[m].to \notin owed'[b]

LEMMA ReportersStay ==
  ASSUME ConversationTypeOK, ConversationTypeOK', ReportsGoOn, NEW t \in Agents, ~AtCall(t),
         Reporting(t) = {}
  PROVE  Reporting(t)' = {}
<1> SUFFICES ASSUME NEW k \in Open', messages'[k].report = t
             PROVE  FALSE
  BY DEF Reporting
<1>1. t # None
  BY HierarchyAssumption
<1>2. CASE k \in Open
  <2>1. messages'[k] = messages[k]
    BY <1>2, LenIsNat DEF ReportsGoOn, MessagesStay, Open
  <2> QED BY <1>2, <2>1 DEF Reporting
<1>3. CASE k \notin Open
  BY <1>1, <1>3 DEF ReportsGoOn
<1> QED BY <1>2, <1>3

LEMMA ReportStep1 ==
  ASSUME ConversationTypeOK, ConversationTypeOK', ReportersHaveStarted, ReportInv, ReportsGoOn,
         DOMAIN owed' = DOMAIN owed
  PROVE  ReportInv'
<1>1. \A a \in Agents : InTurn(a)' /\ \A c : HasStarted(a, c) => HasStarted(a, c)'
  BY CallsStay DEF ReportInv, ReportsGoOn
<1>2. \A a \in Agents : Fresh(a)'
  BY DEF ReportInv, ReportsGoOn, Fresh, FreshStep
<1>3. OwedAreAwaited' /\ \A a \in Agents : \A c \in awaited'[a] : HasStarted(a, c)'
  BY <1>1 DEF ReportsGoOn
<1>4. ASSUME NEW m \in Open'
      PROVE  /\ m \in 1..Len(messages') /\ messages'[m].status = "queued"
             /\ messages'[m].to \in Agents
             /\ m \in Open => messages'[m] = messages[m] /\ m \in 1..Len(messages)
  <2>1. m \in 1..Len(messages') /\ messages'[m].status = "queued" /\ messages'[m] \in Messages
    BY <1>4 DEF ConversationTypeOK, Open
  <2>2. messages'[m].to \in Agents
    BY <2>1, MessagesTyped
  <2>3. m \in Open => messages'[m] = messages[m] /\ m \in 1..Len(messages)
    BY LenIsNat DEF ReportsGoOn, MessagesStay, Open
  <2> QED BY <2>1, <2>2, <2>3
<1>5. \A m \in Open' : messages'[m].report # None => HasStarted(messages[m].to, messages[m].report)'
  BY <1>1, <1>4 DEF ReportInv, ReportsGoOn
<1>6. ASSUME NEW m \in Open', messages'[m].first, NEW t \in Agents, t = messages'[m].to
      PROVE  Reporting(t)' = {} /\ Begins(t, m)'
  <2>1. Begins(t, m)'
    BY <1>6 DEF ReportsGoOn
  <2>2. CASE m \in Open
    <3>1. Reporting(t) = {} /\ Begins(t, m)
      BY <1>4, <1>6, <2>2 DEF ReportInv, Unbegun
    <3>2. ~AtCall(t)
      BY <3>1 DEF Begins, AtCall
    <3> QED BY <2>1, <3>1, <3>2, ReportersStay DEF Unbegun
  <2>3. CASE m \notin Open
    <3>1. session[t] = "none"
      BY <1>6, <2>3 DEF ReportsGoOn
    <3>2. ~AtCall(t)
      BY <2>1, <3>1 DEF ReportInv, Fresh, AtCall
    <3>3. Reporting(t) = {}
      BY <2>1, <3>1, HierarchyAssumption DEF ReportersHaveStarted, Reporting
    <3> QED BY <2>1, <3>2, <3>3, ReportersStay DEF Unbegun
  <2> QED BY <2>2, <2>3
<1>7. \A m \in Open' : messages'[m].first => Unbegun(m)'
  BY <1>4, <1>6 DEF Unbegun
<1>8. ASSUME NEW a \in Agents, call'[a] # None, call'[a].tool = "start_child_agent",
             NEW m, m = call'[a].message, NEW t, t = call'[a].target
      PROVE  /\ m \in 1..Len(messages')
             /\ m \in Open' => messages'[m].first /\ messages'[m].to = t
             /\ messages'[m].status = "failed" =>
                  t \notin owed'[a] /\ session'[t] = "exited" /\ Reporting(t)' = {}
  <2>1. t \in Agents
    BY <1>8 DEF ConversationTypeOK, Waits
  <2>2. CASE call'[a] # call[a]
    <3>1. m \in Open' /\ messages'[m].first /\ messages'[m].to = t
      BY <1>8, <2>2 DEF ReportsGoOn
    <3> QED BY <1>4, <3>1
  <2>3. CASE call'[a] = call[a]
    <3>1. /\ m \in 1..Len(messages)
          /\ m \in Open => messages[m].first /\ messages[m].to = t
          /\ messages[m].status = "failed" =>
               t \notin owed[a] /\ session[t] = "exited" /\ Reporting(t) = {}
      BY <1>8, <2>3 DEF ReportInv, StartReturns
    <3>2. m \in 1..Len(messages')
      BY <3>1, LenIsNat DEF ConversationTypeOK, ReportsGoOn, MessagesStay
    <3>3. m \in Open' => m \in Open /\ messages'[m] = messages[m]
      BY <3>1 DEF ReportsGoOn, MessagesStay
    <3>4. ASSUME messages'[m].status = "failed"
          PROVE  t \notin owed'[a] /\ session'[t] = "exited" /\ Reporting(t)' = {}
      <4>1. CASE m \in Open
        <5>1. session'[t] = "exited" /\ t \notin owed'[a]
          BY <3>1, <3>4, <4>1 DEF ReportsGoOn
        <5>2. Reporting(t) = {} /\ Begins(t, m)
          BY <3>1, <4>1 DEF ReportInv, Unbegun
        <5>3. ~AtCall(t)
          BY <5>2 DEF Begins, AtCall
        <5> QED BY <2>1, <5>1, <5>2, <5>3, ReportersStay
      <4>2. CASE m \notin Open
        <5>1. t \notin owed[a] /\ session[t] = "exited" /\ Reporting(t) = {}
          BY <3>1, <3>4, <4>2 DEF ReportsGoOn
        <5>2. session'[t] = "exited" /\ t \notin owed'[a]
          BY <2>1, <5>1 DEF ReportsGoOn
        <5>3. ~AtCall(t)
          BY <5>1 DEF AtCall
        <5> QED BY <2>1, <5>1, <5>2, <5>3, ReportersStay
      <4> QED BY <4>1, <4>2
    <3> QED BY <3>1, <3>2, <3>3, <3>4
  <2> QED BY <2>2, <2>3
<1>9. \A a \in Agents : StartReturns(a)'
  BY <1>8 DEF StartReturns
<1> QED BY <1>1, <1>2, <1>3, <1>5, <1>7, <1>9 DEF ReportInv

LEMMA StartedTwiceStays ==
  ASSUME ConversationTypeOK, NEW b \in Agents, CallStep(b), NEW c, StartedTwice(b, c)
  PROVE  StartedTwice(b, c)'
<1>1. asked[b] \in Nat /\ Len(Asks[b]) \in Nat
  BY EnvironmentAssumption DEF ConversationTypeOK
<1>2. \A i \in 1..asked[b] : i \in 1..asked'[b]
  BY <1>1 DEF CallStep
<1> QED BY <1>2 DEF StartedTwice

LEMMA OwedStay ==
  ASSUME ConversationTypeOK, ReportInv, \A b \in Agents : CallStep(b),
         \A b \in Agents : \A c \in owed'[b] :
           \/ c \in awaited'[b]
           \/ c \in owed[b] /\ (c \in awaited[b] => StartedTwice(b, c))
  PROVE  OwedAreAwaited'
BY StartedTwiceStays DEF ReportInv, OwedAreAwaited

-----------------------------------------------------------------------------
(* What becomes of a prompt an agent is to begin with *)

BeginsStays(b) == \A m : Begins(b, m) => Begins(b, m)'

LEMMA BeginsAsBefore ==
  ASSUME NEW b, UNCHANGED <<stdin[b], frames[b]>>,
         omp'[b] \in {omp[b], "dead"} \/ omp[b] = "calling"
  PROVE  BeginsStays(b)
BY DEF BeginsStays, Begins

LEMMA BeginsElsewhere ==
  ASSUME NEW b, frames[b] # <<>>, Head(frames[b]).kind # "response"
  PROVE  BeginsStays(b)
BY DEF BeginsStays, Begins

LEMMA AppendKeepsHead ==
  ASSUME NEW S, NEW q \in Seq(S), NEW e \in S
  PROVE  Append(q, e) # <<>> /\ (q # <<>> => Head(Append(q, e)) = Head(q))
<1>1. /\ Len(q) \in Nat /\ Append(q, e) \in Seq(S) /\ Len(Append(q, e)) = Len(q) + 1
      /\ \A i \in 1..Len(q) : Append(q, e)[i] = q[i]
  BY AppendOf
<1>2. Append(q, e) # <<>> /\ Head(Append(q, e)) = Append(q, e)[1]
  BY <1>1
<1>3. q # <<>> => Head(q) = q[1] /\ 1 \in 1..Len(q)
  BY <1>1
<1> QED BY <1>1, <1>2, <1>3

LEMMA BeginsAfterAppend ==
  ASSUME ConversationTypeOK, NEW b \in Agents, frames[b] # <<>>, NEW f \in Frames, NEW g \in Frames,
         frames'[b] \in {Append(frames[b], f), Append(Append(frames[b], f), g)}
  PROVE  BeginsStays(b)
<1> DEFINE q == frames[b]
<1>1. q \in Seq(Frames) /\ Append(q, f) \in Seq(Frames)
  BY AppendOf DEF ConversationTypeOK
<1>2. /\ Append(q, f) # <<>> /\ Head(Append(q, f)) = Head(q)
      /\ Append(Append(q, f), g) # <<>> /\ Head(Append(Append(q, f), g)) = Head(q)
  BY <1>1
<1> QED BY <1>2 DEF BeginsStays, Begins

-----------------------------------------------------------------------------
(* Steps that leave the prompts alone *)

LEMMA AttendsReports ==
  ASSUME ConversationTypeOK, ReportInv, UNCHANGED <<messages, owed>>,
         \A b \in Agents :
           /\ CallStep(b) /\ FreshStep(b) /\ call'[b] \in {call[b], None}
           /\ session[b] = "exited" => session'[b] = "exited"
           /\ awaited'[b] \subseteq awaited[b]
           /\ \A c \in owed[b] \cap awaited[b] : c \in awaited'[b] \/ StartedTwice(b, c)
           /\ \A m \in Open : messages[m].first /\ messages[m].to = b =>
                (Begins(b, m) => Begins(b, m)')
  PROVE  ReportsGoOn
<1>1. MessagesStay /\ Open' = Open /\ \A m \in Open : messages[m].status # "failed"
  BY SamePrompts DEF Open
<1>2. OwedAreAwaited'
  BY OwedStay
<1>3. \A m \in Open', b \in Agents : messages'[m].first /\ messages'[m].to = b => Begins(b, m)'
  BY <1>1 DEF ReportInv, Unbegun
<1>4. \A b \in Agents : \A c \in awaited'[b] : HasStarted(b, c)
  BY DEF ReportInv
<1> QED BY <1>1, <1>2, <1>3, <1>4 DEF ReportsGoOn

\* Nothing that reports are about is touched.
LEMMA UntouchedReports ==
  ASSUME ConversationTypeOK, ReportInv,
         UNCHANGED <<messages, stdin, frames, omp, asked, call, session, awaited, owed>>
  PROVE  ReportsGoOn
<1>1. \A b \in Agents : CallStep(b) /\ FreshStep(b) /\ BeginsStays(b)
  BY BeginsAsBefore DEF CallStep, SameCalls, FreshStep
<1> QED BY <1>1, AttendsReports DEF BeginsStays

LEMMA PoppedCalls ==
  ASSUME ConversationTypeOK, NEW a \in Agents, NEW kind, Handles(a, kind), kind # "call", Popped(a),
         UNCHANGED <<asked, call, omp>>, NEW b \in Agents
  PROVE  CallStep(b)
<1>1. frames \in [Agents -> Seq(Frames)] /\ frames[a] # <<>> /\ Head(frames[a]).kind # "call"
  BY DEF ConversationTypeOK, Handles
<1>2. frames'[b] = IF b = a THEN Tail(frames[a]) ELSE frames[b]
  BY <1>1 DEF Popped
<1>3. SameCalls(frames[b], frames'[b])
  BY <1>1, <1>2, CallsOfTail DEF SameCalls
<1> QED BY <1>3 DEF CallStep

\* A handler that attends to a frame that is no call and answers no open prompt.
LEMMA PoppedReports ==
  ASSUME ConversationTypeOK, ReportInv, NEW a \in Agents, NEW kind, Handles(a, kind), kind # "call",
         Popped(a), UNCHANGED <<messages, stdin, omp, asked, call, awaited, owed>>,
         \A b \in Agents : session'[b] = session[b] \/ (b = a /\ session'[a] \in {"ready", "streaming"}),
         kind = "response" => Head(frames[a]).message \notin Open
  PROVE  ReportsGoOn
<1>1. /\ frames[a] # <<>> /\ Head(frames[a]).kind = kind /\ session[a] \in {"ready", "streaming"}
      /\ \A b \in Agents \ {a} : frames'[b] = frames[b]
  BY DEF ConversationTypeOK, Handles, Live, Popped
<1>2. \A b \in Agents : CallStep(b) /\ FreshStep(b)
  BY <1>1, PoppedCalls DEF FreshStep
<1>3. \A b \in Agents \ {a} : BeginsStays(b)
  BY <1>1, BeginsAsBefore
<1>4. \A m \in Open : ~Begins(a, m)
  BY <1>1 DEF Begins
<1> QED BY <1>1, <1>2, <1>3, <1>4, AttendsReports DEF BeginsStays

\* A call that is handled at once.
LEMMA AnswersReports ==
  ASSUME ConversationTypeOK, ReportInv, NEW a \in Agents, Handles(a, "call"), Answers(a),
         UNCHANGED <<messages, stdin, session, call, owed>>,
         \A b \in Agents :
           /\ awaited'[b] \subseteq awaited[b]
           /\ \A c \in owed[b] \cap awaited[b] : c \in awaited'[b] \/ StartedTwice(b, c)
  PROVE  ReportsGoOn
<1>1. /\ frames[a] # <<>> /\ Head(frames[a]).kind = "call" /\ call[a] = None
      /\ session[a] \in {"ready", "streaming"}
      /\ frames \in [Agents -> Seq(Frames)] /\ DOMAIN omp = Agents
      /\ frames' = [frames EXCEPT ![a] = Tail(@)] /\ UNCHANGED asked
      /\ omp' = [omp EXCEPT ![a] = IF @ = "calling" THEN "turn" ELSE @]
  BY DEF ConversationTypeOK, Handles, Live, Answers, Popped, budgetVars
<1>2. /\ frames'[a] = Tail(frames[a])
      /\ \A b \in Agents \ {a} : frames'[b] = frames[b] /\ omp'[b] = omp[b]
  BY <1>1
<1>3. \A b \in Agents : CallStep(b) /\ FreshStep(b)
  <2>1. CallStep(a)
    BY <1>1, <1>2 DEF CallStep
  <2> QED BY <1>1, <1>2, <2>1 DEF CallStep, SameCalls, FreshStep
<1>4. \A b \in Agents : BeginsStays(b)
  BY <1>1, <1>2, BeginsAsBefore, BeginsElsewhere
<1> QED BY <1>1, <1>3, <1>4, AttendsReports DEF BeginsStays

LEMMA TurnFramesReports ==
  ASSUME ConversationTypeOK, ReportInv, NEW a \in Agents,
         HandlesStart(a) \/ HandlesUiRequest(a) \/ HandlesEnd(a)
  PROVE  ReportsGoOn
<1>1. PICK kind : /\ Handles(a, kind) /\ kind \notin {"call", "response"} /\ Popped(a)
                  /\ UNCHANGED <<messages, stdin, omp, asked, call, awaited, owed>>
  BY DEF HandlesStart, HandlesUiRequest, HandlesEnd, sessionVars, postVars, budgetVars, historyVars
<1>2. \/ UNCHANGED session
      \/ \E state \in {"ready", "streaming"} : session' = [session EXCEPT ![a] = state]
  BY DEF HandlesStart, HandlesUiRequest, HandlesEnd, sessionVars
<1>3. \A b \in Agents : session'[b] = session[b] \/ (b = a /\ session'[a] \in {"ready", "streaming"})
  BY <1>2 DEF ConversationTypeOK
<1> QED BY <1>1, <1>3, PoppedReports

LEMMA OwnerCreatesReports ==
  ASSUME ConversationTypeOK, ReportInv, NEW a \in Agents, NEW authority, OwnerCreates(a, authority)
  PROVE  ReportsGoOn
BY UntouchedReports DEF OwnerCreates, sessionVars, postVars, ompVars, budgetVars, historyVars

LEMMA AnsweredReports ==
  ASSUME ConversationTypeOK, ReportInv, NEW a \in Agents,
         CallCreates(a) \/ CallRequestsVerification(a) \/ CallSubmits(a) \/ CallSendFails(a)
           \/ CallRefused(a)
  PROVE  ReportsGoOn
<1>1. /\ Handles(a, "call") /\ Answers(a)
      /\ UNCHANGED <<messages, stdin, session, call, owed, awaited>>
  BY DEF CallCreates, CallRequestsVerification, CallSubmits, CallSendFails, CallRefused,
         Calls, HandlesCall, sessionVars, postVars, historyVars
<1> QED BY <1>1, AnswersReports

\* A child that could not be started was not awaited: it has no session.
LEMMA CallStartFailsReports ==
  ASSUME ConversationTypeOK, AwaitedHaveStarted, ReportInv, NEW a \in Agents, CallStartFails(a)
  PROVE  ReportsGoOn
<1> DEFINE t == Asked(a).target
<1>1. /\ Handles(a, "call") /\ Answers(a) /\ UNCHANGED <<messages, stdin, session, call, owed>>
      /\ session[t] = "none" /\ awaited' = [awaited EXCEPT ![a] = @ \ {t}]
  BY DEF CallStartFails, Calls, HandlesCall, Unawaited, postVars, historyVars
<1>2. t \notin awaited[a]
  BY <1>1 DEF AwaitedHaveStarted
<1> HIDE DEF t
<1>3. \A b \in Agents : awaited'[b] = awaited[b]
  BY <1>1, <1>2 DEF ConversationTypeOK
<1> QED BY <1>1, <1>3, AnswersReports

\* A child whose start is refused is awaited only if it has been started before.
LEMMA CallStartRefusedReports ==
  ASSUME ConversationTypeOK, ReportInv, NEW a \in Agents, CallStartRefused(a)
  PROVE  ReportsGoOn
<1> DEFINE t == Asked(a).target
<1>1. /\ Handles(a, "call") /\ Answers(a) /\ UNCHANGED <<messages, stdin, session, call, owed>>
      /\ frames[a] # <<>> /\ Head(frames[a]).kind = "call" /\ IsStart(Asked(a), t)
      /\ awaited' = [awaited EXCEPT ![a] = @ \ {t}]
  BY DEF CallStartRefused, HandlesCall, Handles, Unawaited, IsStart, postVars, historyVars
<1>2. ASSUME t \in awaited[a]
      PROVE  StartedTwice(a, t)
  <2>1. frames[a] \in Seq(Frames) /\ asked[a] \in Nat
    BY DEF ConversationTypeOK
  <2>2. ~NoCall(frames[a]) /\ asked[a] >= 1 /\ Asks[a][asked[a]] = Asked(a)
    BY <1>1, <2>1, CallsOfTail DEF ReportInv, InTurn, Asked
  <2>3. PICK i \in 1..asked[a] : IsStart(Asks[a][i], t) /\ i < asked[a]
    BY <1>2, <2>2 DEF ReportInv, HasStarted
  <2>4. asked[a] \in 1..asked[a]
    BY <2>1, <2>2
  <2> QED BY <1>1, <2>2, <2>3, <2>4 DEF StartedTwice
<1> HIDE DEF t
<1>3. /\ awaited'[a] = awaited[a] \ {t}
      /\ \A b \in Agents \ {a} : awaited'[b] = awaited[b]
  BY <1>1 DEF ConversationTypeOK
<1> QED BY <1>1, <1>2, <1>3, AnswersReports

\* A child that is not awaited after all, when its first prompt has failed, is
\* not owed.
LEMMA CallReturnsReports ==
  ASSUME ConversationTypeOK, ReportInv, NEW a \in Agents, CallReturns(a)
  PROVE  ReportsGoOn
<1>1. /\ call[a] # None
      /\ UNCHANGED <<messages, stdin, session, frames, asked, owed>>
      /\ call' = [call EXCEPT ![a] = None]
      /\ omp' = [omp EXCEPT ![a] = IF @ = "calling" THEN "turn" ELSE @]
      /\ \/ UNCHANGED awaited
         \/ /\ call[a].tool = "start_child_agent" /\ messages[call[a].message].status = "failed"
            /\ awaited' = [awaited EXCEPT ![a] = @ \ {call[a].target}]
  BY DEF CallReturns, Unawaited, postVars, budgetVars, historyVars
<1>2. NoCall(frames[a])
  BY <1>1 DEF ReportInv, InTurn
<1>3. /\ call'[a] = None /\ \A b \in Agents \ {a} : call'[b] = call[b] /\ omp'[b] = omp[b]
      /\ omp'[a] = omp[a] \/ omp[a] = "calling"
  BY <1>1 DEF ConversationTypeOK
<1>4. \A b \in Agents : CallStep(b) /\ FreshStep(b) /\ BeginsStays(b)
  <2>1. CallStep(a) /\ FreshStep(a) /\ BeginsStays(a)
    <3>1. FreshStep(a)
      BY <1>1, <1>3 DEF FreshStep, ReportInv, Fresh
    <3>2. BeginsStays(a)
      BY <1>1, <1>3, BeginsAsBefore
    <3> QED BY <1>1, <1>2, <1>3, <3>1, <3>2 DEF CallStep
  <2>2. \A b \in Agents \ {a} : CallStep(b) /\ FreshStep(b) /\ BeginsStays(b)
    BY <1>1, <1>3, BeginsAsBefore DEF CallStep, SameCalls, FreshStep
  <2> QED BY <2>1, <2>2
<1>5. ASSUME NEW b \in Agents
      PROVE  awaited'[b] \subseteq awaited[b] /\ owed[b] \cap awaited[b] \subseteq awaited'[b]
  <2>1. CASE UNCHANGED awaited
    BY <2>1
  <2>2. CASE /\ call[a].tool = "start_child_agent" /\ messages[call[a].message].status = "failed"
             /\ awaited' = [awaited EXCEPT ![a] = @ \ {call[a].target}]
    <3>1. call[a].target \notin owed[a]
      BY <1>1, <2>2 DEF ReportInv, StartReturns
    <3> QED BY <2>2, <3>1 DEF ConversationTypeOK
  <2> QED BY <1>1, <2>1, <2>2
<1> QED BY <1>1, <1>3, <1>4, <1>5, AttendsReports DEF BeginsStays

-----------------------------------------------------------------------------
(* The OMP processes *)

\* A process goes on by itself.
LEMMA OmpStepsReports ==
  ASSUME ConversationTypeOK, ReportInv, NEW a \in Agents, CallStep(a), FreshStep(a), BeginsStays(a),
         UNCHANGED <<messages, session, call, awaited, owed>>,
         \A b \in Agents \ {a} : UNCHANGED <<stdin[b], frames[b], omp[b], asked[b]>>
  PROVE  ReportsGoOn
<1>1. \A b \in Agents \ {a} : CallStep(b) /\ FreshStep(b) /\ BeginsStays(b)
  BY BeginsAsBefore DEF CallStep, SameCalls, FreshStep
<1> QED BY <1>1, AttendsReports DEF BeginsStays

LEMMA OmpDiesReports ==
  ASSUME ConversationTypeOK, ReportInv, NEW a \in Agents, OmpDies(a)
  PROVE  ReportsGoOn
<1>1. /\ UNCHANGED <<messages, session, call, awaited, owed, stdin, frames, asked>>
      /\ session[a] # "none" /\ omp' = [omp EXCEPT ![a] = "dead"]
  BY DEF OmpDies, Live, goalVars, sessionVars, postVars, historyVars
<1>2. omp'[a] = "dead" /\ \A b \in Agents \ {a} : omp'[b] = omp[b]
  BY <1>1 DEF ConversationTypeOK
<1>3. CallStep(a) /\ FreshStep(a) /\ BeginsStays(a)
  BY <1>1, <1>2, BeginsAsBefore DEF CallStep, SameCalls, FreshStep
<1> QED BY <1>1, <1>2, <1>3, OmpStepsReports

LEMMA OmpEndsReports ==
  ASSUME ConversationTypeOK, ReportInv, NEW a \in Agents, OmpEnds(a)
  PROVE  ReportsGoOn
<1> DEFINE begin == [kind |-> "agent_start"]
           q == frames[a]
<1>1. PICK end \in Frames :
        /\ end.kind = "agent_end"
        /\ \/ Emit(a, <<end, begin>>) /\ UNCHANGED omp
           \/ Emit(a, <<end>>) /\ omp' = [omp EXCEPT ![a] = "idle"]
  BY DEF OmpEnds, Frames
<1>2. /\ omp[a] = "turn"
      /\ UNCHANGED <<messages, session, call, awaited, owed, stdin, asked>>
  BY DEF OmpEnds, goalVars, sessionVars, postVars, budgetVars, historyVars
<1>3. begin \in Frames /\ begin.kind = "agent_start" /\ q \in Seq(Frames)
  BY DEF Frames, ConversationTypeOK
<1> HIDE DEF begin
<1>4. /\ frames'[a] \in {Append(q, end), Append(Append(q, end), begin)}
      /\ \A b \in Agents \ {a} : UNCHANGED <<stdin[b], frames[b], omp[b], asked[b]>>
  <2>1. /\ Emit(a, <<end, begin>>) => frames'[a] = Append(Append(q, end), begin)
        /\ Emit(a, <<end>>) => frames'[a] = Append(q, end)
    BY <1>1, <1>3, EmittedFrames
  <2>2. \A b \in Agents \ {a} : frames'[b] = frames[b]
    BY <1>1, EmitsAlone
  <2> QED BY <1>1, <1>2, <2>1, <2>2 DEF ConversationTypeOK
<1>5. SameCalls(q, frames'[a])
  <2>1. Append(q, end) \in Seq(Frames) /\ SameCalls(q, Append(q, end))
    BY <1>1, <1>3, AppendOf, CallsOfAppend
  <2>2. SameCalls(Append(q, end), Append(Append(q, end), begin))
    BY <1>3, <2>1, CallsOfAppend
  <2> QED BY <1>4, <2>1, <2>2 DEF SameCalls
<1>6. CallStep(a)
  BY <1>2, <1>5 DEF CallStep
<1>7. FreshStep(a)
  BY <1>2 DEF ReportInv, Fresh, FreshStep
<1>8. BeginsStays(a)
  <2>1. CASE q = <<>>
    BY <1>2, <2>1 DEF BeginsStays, Begins
  <2>2. CASE q # <<>>
    BY <1>1, <1>3, <1>4, <2>2, BeginsAfterAppend
  <2> QED BY <2>1, <2>2
<1> QED BY <1>2, <1>4, <1>6, <1>7, <1>8, OmpStepsReports

LEMMA OmpAsksReports ==
  ASSUME ConversationTypeOK, ReportInv, NEW a \in Agents, OmpAsks(a)
  PROVE  ReportsGoOn
<1>1. PICK i \in asked[a] + 1 .. Len(Asks[a]) :
        /\ asked' = [asked EXCEPT ![a] = i]
        /\ \/ Asks[a][i].tool = "input" /\ Emit(a, <<[kind |-> "ui_request"]>>) /\ UNCHANGED omp
           \/ /\ Asks[a][i].tool # "input"
              /\ Emit(a, <<[kind |-> "call", asks |-> Asks[a][i]]>>)
              /\ omp' = [omp EXCEPT ![a] = "calling"]
  BY DEF OmpAsks
<1>2. /\ omp[a] = "turn"
      /\ UNCHANGED <<messages, session, call, awaited, owed, stdin>>
  BY DEF OmpAsks, goalVars, sessionVars, postVars, historyVars
<1>3. Asks[a][i].tool = "input" \/ Asks[a][i] \in Tools
  <2>1. i \in 1..Len(Asks[a])
    BY <1>1 DEF ConversationTypeOK
  <2> QED BY <2>1, EnvironmentAssumption
<1>4. PICK f \in Frames :
        /\ Emit(a, <<f>>)
        /\ \/ f.kind = "ui_request" /\ UNCHANGED omp
           \/ f.kind = "call" /\ f.asks = Asks[a][i] /\ omp' = [omp EXCEPT ![a] = "calling"]
  <2>1. CASE Emit(a, <<[kind |-> "ui_request"]>>) /\ UNCHANGED omp
    <3> DEFINE g == [kind |-> "ui_request"]
    <3>1. g \in Frames /\ g.kind = "ui_request"
      BY DEF Frames
    <3> QED BY <2>1, <3>1
  <2>2. CASE /\ Asks[a][i] \in Tools /\ Emit(a, <<[kind |-> "call", asks |-> Asks[a][i]]>>)
             /\ omp' = [omp EXCEPT ![a] = "calling"]
    <3> DEFINE g == [kind |-> "call", asks |-> Asks[a][i]]
    <3>1. g \in Frames /\ g.kind = "call" /\ g.asks = Asks[a][i]
      BY <2>2 DEF Frames
    <3> QED BY <2>2, <3>1
  <2> QED BY <1>1, <1>3, <2>1, <2>2
<1>5. /\ frames'[a] = Append(frames[a], f) /\ frames[a] \in Seq(Frames)
      /\ asked'[a] = i
      /\ \A b \in Agents \ {a} : UNCHANGED <<stdin[b], frames[b], omp[b], asked[b]>>
  <2>1. frames'[a] = Append(frames[a], f) /\ \A b \in Agents \ {a} : frames'[b] = frames[b]
    BY <1>4, EmittedFrames, EmitsAlone
  <2> QED BY <1>1, <1>2, <1>4, <2>1 DEF ConversationTypeOK
<1>6. CallStep(a)
  <2>1. f.kind # "call" => SameCalls(frames[a], frames'[a])
    BY <1>5, CallsOfAppend
  <2>2. f.kind = "call" => /\ NoCall(frames[a]) => OneCall(frames'[a], Asks[a][i])
                           /\ omp'[a] = "calling"
    BY <1>4, <1>5, CallsOfAppend DEF ConversationTypeOK
  <2> QED BY <1>1, <1>2, <1>5, <2>1, <2>2 DEF CallStep
<1>7. FreshStep(a)
  BY <1>2 DEF ReportInv, Fresh, FreshStep
<1>8. BeginsStays(a)
  <2>1. CASE frames[a] = <<>>
    BY <1>2, <2>1 DEF BeginsStays, Begins
  <2>2. CASE frames[a] # <<>>
    BY <1>5, <2>2, BeginsAfterAppend
  <2> QED BY <2>1, <2>2
<1> QED BY <1>2, <1>5, <1>6, <1>7, <1>8, OmpStepsReports

\* A process that has not begun begins with the prompt it has at hand.
LEMMA OmpReadsReports ==
  ASSUME ConversationTypeOK, ReportInv, NEW a \in Agents, OmpReads(a)
  PROVE  ReportsGoOn
<1> DEFINE p == Head(stdin[a])
           answer(ok) == [kind |-> "response", message |-> p.message, accepted |-> ok]
           begin == [kind |-> "agent_start"]
           q == frames[a]
<1>1. /\ omp[a] # "dead" /\ stdin[a] # <<>> /\ stdin' = [stdin EXCEPT ![a] = Tail(@)]
      /\ UNCHANGED <<messages, session, call, awaited, owed, asked>>
      /\ \/ omp[a] = "idle" /\ omp' = [omp EXCEPT ![a] = "turn"] /\ Emit(a, <<answer(TRUE), begin>>)
         \/ omp[a] # "idle" /\ UNCHANGED omp /\ Emit(a, <<answer(TRUE)>>)
         \/ omp[a] # "idle" /\ UNCHANGED omp /\ Emit(a, <<answer(FALSE)>>)
  BY DEF OmpReads, goalVars, sessionVars, budgetVars, historyVars
<1>2. q \in Seq(Frames) /\ p.message \in Nat
  <2>1. q \in Seq(Frames) /\ stdin[a] \in Seq([message : Nat, follows : BOOLEAN])
    BY DEF ConversationTypeOK
  <2>2. p \in [message : Nat, follows : BOOLEAN]
    BY <1>1, <2>1, HeadTail
  <2> QED BY <2>1, <2>2
<1>3. PICK f \in Frames, g \in Frames :
        /\ f.kind = "response" /\ f.message = p.message /\ g.kind = "agent_start"
        /\ \/ omp[a] = "idle" /\ omp' = [omp EXCEPT ![a] = "turn"] /\ Emit(a, <<f, g>>)
           \/ omp[a] # "idle" /\ UNCHANGED omp /\ Emit(a, <<f>>)
  <2>1. /\ answer(TRUE) \in Frames /\ answer(FALSE) \in Frames /\ begin \in Frames
        /\ answer(TRUE).kind = "response" /\ answer(TRUE).message = p.message
        /\ answer(FALSE).kind = "response" /\ answer(FALSE).message = p.message
        /\ begin.kind = "agent_start"
    BY <1>2 DEF Frames
  <2> HIDE DEF p, answer, begin, q
  <2> QED BY <1>1, <2>1
<1> HIDE DEF p, answer, begin
<1>4. /\ frames'[a] \in {Append(q, f), Append(Append(q, f), g)}
      /\ omp[a] # "idle" => frames'[a] = Append(q, f) /\ omp'[a] = omp[a]
      /\ \A b \in Agents \ {a} : UNCHANGED <<stdin[b], frames[b], omp[b], asked[b]>>
  <2>1. /\ Emit(a, <<f, g>>) => frames'[a] = Append(Append(q, f), g)
        /\ Emit(a, <<f>>) => frames'[a] = Append(q, f)
    BY EmittedFrames
  <2>2. \A b \in Agents \ {a} : frames'[b] = frames[b]
    BY <1>3, EmitsAlone
  <2> QED BY <1>1, <1>3, <2>1, <2>2 DEF ConversationTypeOK
<1>5. SameCalls(q, frames'[a])
  <2>1. Append(q, f) \in Seq(Frames) /\ SameCalls(q, Append(q, f))
    BY <1>2, <1>3, AppendOf, CallsOfAppend
  <2>2. SameCalls(Append(q, f), Append(Append(q, f), g))
    BY <1>3, <2>1, CallsOfAppend
  <2> QED BY <1>4, <2>1, <2>2 DEF SameCalls
<1>6. CallStep(a)
  BY <1>1, <1>4, <1>5 DEF CallStep
<1>7. FreshStep(a)
  BY <1>1 DEF ReportInv, Fresh, FreshStep
<1>8. BeginsStays(a)
  <2>1. CASE q = <<>>
    <3>1. frames'[a] # <<>> /\ Head(frames'[a]) = f
      <4>1. Append(<<>>, f) # <<>> /\ Head(Append(<<>>, f)) = f
        OBVIOUS
      <4>2. /\ Append(Append(<<>>, f), g) # <<>> /\ Head(Append(Append(<<>>, f), g)) = f
        OBVIOUS
      <4> QED BY <1>4, <2>1, <4>1, <4>2
    <3> QED BY <1>3, <2>1, <3>1 DEF BeginsStays, Begins, p
  <2>2. CASE q # <<>>
    BY <1>4, <2>2, BeginsAfterAppend
  <2> QED BY <2>1, <2>2
<1> QED BY <1>1, <1>4, <1>6, <1>7, <1>8, OmpStepsReports

-----------------------------------------------------------------------------
(* Prompts that are settled, and sessions that end *)

\* What a step that settles prompts does to the agents.
Settles(settled) ==
  \A b \in Agents :
    /\ CallStep(b) /\ FreshStep(b) /\ call'[b] \in {call[b], None}
    /\ session[b] = "exited" => session'[b] = "exited"
    /\ \A c \in awaited'[b] : HasStarted(b, c)
    /\ \A c \in owed'[b] : c \in owed[b] \/ Reporting(c) # {}
    /\ \A m \in Open \ settled : messages[m].to = b => (Begins(b, m) => Begins(b, m)')

LEMMA SettledReports ==
  ASSUME ConversationTypeOK, ReportInv, NEW settled \in SUBSET Open,
         Len(messages') = Len(messages), DOMAIN messages' = 1..Len(messages),
         \A m \in 1..Len(messages) :
           IF m \in settled THEN messages'[m].status # "queued" ELSE messages'[m] = messages[m],
         Settles(settled), OwedAreAwaited',
         \A m \in settled : messages[m].first /\ messages'[m].status = "failed" =>
           /\ session'[messages[m].to] = "exited"
           /\ \A b \in Agents : messages[m].to \notin owed'[b]
  PROVE  ReportsGoOn
<1>1. Len(messages) \in Nat /\ DOMAIN messages = 1..Len(messages)
  BY LenIsNat
<1>2. /\ Open' = Open \ settled
      /\ \A m \in Open : m \in settled \/ (messages'[m] = messages[m] /\ messages[m].status = "queued")
  BY <1>1 DEF Open
<1>3. MessagesStay /\ \A m \in 1..Len(messages) : messages'[m] = messages[m] \/ m \in Open
  BY <1>1, <1>2 DEF MessagesStay, Open
<1>4. \A m \in Open', b \in Agents : messages'[m].first /\ messages'[m].to = b => Begins(b, m)'
  BY <1>2 DEF ReportInv, Unbegun, Settles
<1>5. \A m \in Open : messages[m].first /\ messages'[m].status = "failed" =>
        /\ session'[messages[m].to] = "exited"
        /\ \A b \in Agents : messages[m].to \notin owed'[b]
  BY <1>2
<1> QED BY <1>2, <1>3, <1>4, <1>5 DEF ReportsGoOn, Settles

\* When a session ends its agent is owed no more: neither by anyone it is to
\* report to, nor is anything owed to it.
LEMMA SessionEndsReports ==
  ASSUME ConversationTypeOK, ReportInv, NEW a \in Agents, SessionEnds(a), UNCHANGED asked
  PROVE  ReportsGoOn
<1>1. /\ session'[a] = "exited" /\ frames'[a] = <<>> /\ call'[a] = None /\ awaited'[a] = {}
      /\ owed'[a] = {} /\ \A b \in Agents : owed'[b] \subseteq owed[b] \ {a}
  BY DEF SessionEnds, ConversationTypeOK
<1>2. \A b \in Agents \ {a} :
        /\ session'[b] = session[b] /\ omp'[b] = omp[b] /\ call'[b] = call[b]
        /\ awaited'[b] = awaited[b]
  BY DEF SessionEnds, ConversationTypeOK
<1>3. \A b \in Agents \ {a} : stdin'[b] = stdin[b] /\ frames'[b] = frames[b]
  BY DEF SessionEnds, ConversationTypeOK
<1>4. \A b \in Agents : CallStep(b) /\ FreshStep(b)
  <2>1. CallStep(a) /\ FreshStep(a)
    BY <1>1 DEF CallStep, FreshStep, NoCall
  <2>2. \A b \in Agents \ {a} : CallStep(b) /\ FreshStep(b)
    BY <1>2, <1>3 DEF CallStep, SameCalls, FreshStep
  <2> QED BY <2>1, <2>2
<1>5. \A b \in Agents \ {a} : BeginsStays(b)
  BY <1>2, <1>3, BeginsAsBefore
<1>6. /\ DOMAIN messages' = 1..Len(messages) /\ Len(messages') = Len(messages)
      /\ \A m \in 1..Len(messages) :
           messages'[m] = IF m \in OpenTo(a) THEN [status |-> "failed"] ELSE messages[m]
  BY LenIsNat DEF SessionEnds, Fail
<1>7. \A b \in Agents : \A c \in awaited'[b] : c \in awaited[b]
  BY <1>1, <1>2
<1>8. OwedAreAwaited'
  <2>1. \A b \in Agents : \A c \in owed'[b] :
          c \in owed[b] /\ (c \in awaited[b] => c \in awaited'[b])
    BY <1>1, <1>2
  <2> QED BY <1>4, <2>1, OwedStay
<1>9. OpenTo(a) \in SUBSET Open /\ \A m \in Open \ OpenTo(a) : messages[m].to # a
  BY DEF OpenTo
<1>10. \A b \in Agents : /\ call'[b] \in {call[b], None}
                         /\ session[b] = "exited" => session'[b] = "exited"
                         /\ \A c \in awaited'[b] : HasStarted(b, c)
                         /\ \A c \in owed'[b] : c \in owed[b]
  BY <1>1, <1>2, <1>7 DEF ReportInv
<1>11. \A m \in OpenTo(a) : messages[m].to = a
  BY DEF OpenTo
<1>12. Settles(OpenTo(a))
  BY <1>4, <1>5, <1>9, <1>10 DEF Settles, BeginsStays
<1>13. \A m \in 1..Len(messages) :
         IF m \in OpenTo(a) THEN messages'[m].status # "queued" ELSE messages'[m] = messages[m]
  BY <1>6
<1>14. \A m \in OpenTo(a) : /\ session'[messages[m].to] = "exited"
                             /\ \A b \in Agents : messages[m].to \notin owed'[b]
  BY <1>1, <1>11
<1> QED BY <1>6, <1>8, <1>9, <1>12, <1>13, <1>14, SettledReports

LEMMA OwnerEndsReports ==
  ASSUME ConversationTypeOK, ReportInv, NEW a \in Agents,
         OwnerCompletes(a) \/ OwnerCancels(a) \/ HandlesExit(a)
  PROVE  ReportsGoOn
BY SessionEndsReports DEF OwnerCompletes, OwnerCancels, HandlesExit, budgetVars

LEMMA FirstPromptFailsReports ==
  ASSUME ConversationTypeOK, ReportInv, NEW m \in Open, FirstPromptFails(m), UNCHANGED asked
  PROVE  ReportsGoOn
<1>1. messages[m].to \in Agents
  BY OpenTyped
<1> QED BY <1>1, SessionEndsReports DEF FirstPromptFails

\* A report that could not be delivered is awaited again, and owed again.
LEMMA FollowUpFailsReports ==
  ASSUME ConversationTypeOK, ReportInv, NEW m \in Open, FollowUpFails(m), UNCHANGED asked,
         \A b \in Agents : /\ CallStep(b) /\ FreshStep(b)
                           /\ \A k \in Open \ {m} : Begins(b, k) => Begins(b, k)'
  PROVE  ReportsGoOn
<1> DEFINE a == messages[m].to
           report == {messages[m].report} \ {None}
<1>1. /\ ~messages[m].first /\ Fail({m}) /\ UNCHANGED <<session, call>>
      /\ awaited' = [awaited EXCEPT ![a] = @ \cup report]
      /\ owed' = [owed EXCEPT ![a] = @ \cup report]
  BY DEF FollowUpFails, Unsettled
<1>2. /\ DOMAIN messages' = 1..Len(messages) /\ Len(messages') = Len(messages)
      /\ \A k \in 1..Len(messages) :
           messages'[k] = IF k = m THEN [status |-> "failed"] ELSE messages[k]
  BY <1>1, LenIsNat DEF Fail
<1>3. a \in Agents
  BY OpenTyped
<1>4. \A c \in report : HasStarted(a, c) /\ m \in Reporting(c)
  BY DEF ReportInv, Reporting
<1> HIDE DEF a, report
<1>5. /\ awaited'[a] = awaited[a] \cup report
      /\ \A b \in Agents \ {a} : awaited'[b] = awaited[b]
  BY <1>1, <1>3 DEF ConversationTypeOK
<1>6. \A b \in Agents : \A c \in owed'[b] : c \in owed[b] \/ (b = a /\ c \in report)
  BY <1>1
<1>7. OwedAreAwaited'
  BY <1>5, <1>6, OwedStay
<1>8. \A b \in Agents : /\ \A c \in awaited'[b] : HasStarted(b, c)
                        /\ \A c \in owed'[b] : c \in owed[b] \/ Reporting(c) # {}
  BY <1>4, <1>5, <1>6 DEF ReportInv
<1>9. Settles({m})
  BY <1>1, <1>8 DEF Settles
<1>10. \A k \in 1..Len(messages) :
         IF k \in {m} THEN messages'[k].status # "queued" ELSE messages'[k] = messages[k]
  BY <1>2
<1> QED BY <1>1, <1>2, <1>7, <1>9, <1>10, SettledReports

LEMMA TimesOutReports ==
  ASSUME ConversationTypeOK, ReportInv, NEW m \in Open, TimesOut(m)
  PROVE  ReportsGoOn
<1>1. UNCHANGED asked
  BY DEF TimesOut, budgetVars
<1>2. CASE FollowUpFails(m) /\ UNCHANGED frames
  <2>1. UNCHANGED <<session, call, stdin, omp, frames>>
    BY <1>2 DEF FollowUpFails
  <2>2. \A b \in Agents : CallStep(b) /\ FreshStep(b) /\ BeginsStays(b)
    BY <1>1, <2>1, BeginsAsBefore DEF CallStep, SameCalls, FreshStep
  <2> QED BY <1>1, <1>2, <2>2, FollowUpFailsReports DEF BeginsStays
<1>3. CASE FirstPromptFails(m)
  BY <1>1, <1>3, FirstPromptFailsReports
<1> QED BY <1>2, <1>3 DEF TimesOut

LEMMA HandlesResponseReports ==
  ASSUME ConversationTypeOK, ReportInv, NEW a \in Agents, HandlesResponse(a)
  PROVE  ReportsGoOn
<1> DEFINE f == Head(frames[a])
           m == Head(frames[a]).message
<1>1. /\ Handles(a, "response") /\ UNCHANGED asked
      /\ frames[a] # <<>> /\ f.kind = "response" /\ session[a] \in {"ready", "streaming"}
  BY DEF HandlesResponse, Handles, Live, budgetVars
<1>2. ASSUME Popped(a), UNCHANGED <<session, call, stdin, omp>>
      PROVE  \A b \in Agents : /\ CallStep(b) /\ FreshStep(b)
                               /\ \A k \in Open \ {m} : Begins(b, k) => Begins(b, k)'
  <2>1. \A b \in Agents : CallStep(b)
    BY <1>1, <1>2, PoppedCalls
  <2>2. \A b \in Agents \ {a} : frames'[b] = frames[b]
    BY <1>2 DEF Popped, ConversationTypeOK
  <2>3. \A b \in Agents : FreshStep(b)
    BY <1>1, <1>2, <2>2 DEF FreshStep
  <2>4. \A b \in Agents \ {a} : BeginsStays(b)
    BY <1>2, <2>2, BeginsAsBefore
  <2>5. \A k \in Open \ {m} : ~Begins(a, k)
    BY <1>1 DEF Begins
  <2> QED BY <2>1, <2>3, <2>4, <2>5 DEF BeginsStays
<1>3. CASE /\ m \notin Open /\ Popped(a)
           /\ UNCHANGED <<goal, sessionVars, postVars, omp, followUps, owed, lost>>
  BY <1>1, <1>3, PoppedReports DEF sessionVars, postVars
<1>4. CASE /\ m \in Open /\ f.accepted /\ Popped(a)
           /\ messages' = [messages EXCEPT ![m] = [status |-> "delivered"]]
           /\ UNCHANGED <<goal, sessionVars, stdin, omp, followUps, owed, lost>>
  <2>1. UNCHANGED <<session, call, stdin, omp, awaited, owed>>
    BY <1>4 DEF sessionVars
  <2>2. /\ Len(messages') = Len(messages) /\ DOMAIN messages' = 1..Len(messages)
        /\ \A k \in 1..Len(messages) :
             messages'[k] = IF k = m THEN [status |-> "delivered"] ELSE messages[k]
    BY <1>4, LenIsNat DEF ConversationTypeOK
  <2>3. \A b \in Agents : /\ CallStep(b) /\ FreshStep(b)
                          /\ \A k \in Open \ {m} : Begins(b, k) => Begins(b, k)'
    BY <1>2, <1>4, <2>1
  <2>4. OwedAreAwaited'
    BY <2>1, <2>3, OwedStay
  <2>5. Settles({m})
    BY <2>1, <2>3 DEF Settles, ReportInv
  <2>6. \A k \in 1..Len(messages) :
          IF k \in {m} THEN messages'[k].status # "queued" ELSE messages'[k] = messages[k]
    BY <2>2
  <2>7. m \in 1..Len(messages) /\ messages'[m].status # "failed"
    BY <1>4, <2>2, LenIsNat DEF Open
  <2> HIDE DEF m, f
  <2> QED BY <1>4, <2>2, <2>4, <2>5, <2>6, <2>7, SettledReports
<1>5. CASE m \in Open /\ FollowUpFails(m) /\ Popped(a)
  <2>1. UNCHANGED <<session, call, stdin, omp>>
    BY <1>5 DEF FollowUpFails
  <2> QED BY <1>1, <1>2, <1>5, <2>1, FollowUpFailsReports
<1>6. CASE m \in Open /\ FirstPromptFails(m)
  BY <1>1, <1>6, FirstPromptFailsReports
<1> QED BY <1>3, <1>4, <1>5, <1>6 DEF HandlesResponse

-----------------------------------------------------------------------------
(* Prompts that are posted *)

\* What a step that posts prompt n to t does to the agents.
Posts(t, n, first) ==
  \A b \in Agents :
    /\ CallStep(b) /\ FreshStep(b) /\ (frames'[b] = frames[b] \/ AtCall(b))
    /\ session[b] = "exited" => session'[b] = "exited"
    /\ \A c \in awaited'[b] : HasStarted(b, c) \/ HasStarted(b, c)'
    /\ \A c \in owed'[b] : c \in owed[b] \/ session[c] = "none"
    /\ \/ call'[b] \in {call[b], None}
       \/ call'[b].tool # "start_child_agent"
       \/ call'[b].message = n /\ call'[b].target = t /\ first

LEMMA PostedReports ==
  ASSUME ConversationTypeOK, ConversationTypeOK', ReportInv, NEW t \in Agents, NEW first,
         NEW reopened, NEW report, Post(t, first, reopened, report), NEW n, n = Id,
         UNCHANGED omp, OwedAreAwaited',
         Posts(t, n, first),
         report # None => AtCall(report) /\ HasStarted(t, report),
         first => session[t] = "none" /\ frames'[t] = <<>>
  PROVE  ReportsGoOn
<1> DEFINE d == [status |-> "queued", to |-> t, first |-> first,
                 reopened |-> reopened, report |-> report]
           p == [message |-> n, follows |-> session[t] = "streaming"]
<1>1. /\ Len(messages) \in Nat /\ DOMAIN messages = 1..Len(messages) /\ n = Len(messages) + 1
      /\ messages' = Append(messages, d)
  BY LenIsNat DEF Post, Id
<1>2. /\ DOMAIN messages' = 1..n /\ messages'[n] = d
      /\ \A m \in 1..Len(messages) : messages'[m] = messages[m]
  BY <1>1 DEF ConversationTypeOK
<1>3. d.status = "queued" /\ d.to = t /\ d.first = first /\ d.report = report /\ p.message = n
  OBVIOUS
<1>4. stdin' = [stdin EXCEPT ![t] = Append(@, p)]
  BY <1>1 DEF Post
<1> HIDE DEF d
<1>5. /\ Open' = Open \cup {n} /\ n \notin Open
      /\ \A m \in Open : m \in 1..Len(messages) /\ messages[m].status = "queued"
  BY <1>1, <1>2, <1>3 DEF Open
<1>6. MessagesStay
  BY PostedPrompts
<1>7. p \in [message : Nat, follows : BOOLEAN]
  BY <1>1
<1> HIDE DEF p
<1>8. /\ stdin'[t] = Append(stdin[t], p) /\ \A b \in Agents \ {t} : stdin'[b] = stdin[b]
      /\ Append(stdin[t], p) # <<>>
      /\ stdin[t] # <<>> => Head(Append(stdin[t], p)) = Head(stdin[t])
      /\ stdin[t] = <<>> => Head(Append(stdin[t], p)) = p
  <2>1. PICK S : stdin \in [Agents -> Seq(S)] /\ p \in S
    BY <1>7 DEF ConversationTypeOK
  <2>2. /\ stdin'[t] = Append(stdin[t], p) /\ \A b \in Agents \ {t} : stdin'[b] = stdin[b]
    BY <1>4, <2>1
  <2>3. ASSUME NEW q \in Seq(S)
        PROVE  /\ Append(q, p) # <<>>
               /\ q # <<>> => Head(Append(q, p)) = Head(q)
               /\ q = <<>> => Head(Append(q, p)) = p
    <3>1. p \in S
      BY <2>1
    <3>2. Append(q, p) # <<>> /\ (q # <<>> => Head(Append(q, p)) = Head(q))
      BY <3>1, AppendKeepsHead
    <3>3. Head(Append(<<>>, p)) = p
      BY <3>1
    <3> QED BY <3>2, <3>3
  <2> QED BY <2>1, <2>2, <2>3
<1>9. \A b \in Agents : BeginsStays(b)
  <2>0. \A b \in Agents : frames'[b] = frames[b] \/ AtCall(b)
    BY DEF Posts
  <2>1. \A b \in Agents : AtCall(b) => BeginsStays(b)
    BY BeginsElsewhere DEF AtCall
  <2>2. \A b \in Agents : frames'[b] = frames[b] => BeginsStays(b)
    BY <1>8 DEF BeginsStays, Begins
  <2> QED BY <2>0, <2>1, <2>2
<1>10. first => Begins(t, n)'
  BY <1>3, <1>8 DEF ReportInv, Fresh, Begins
<1>11. \A m \in Open', b \in Agents : messages'[m].first /\ messages'[m].to = b => Begins(b, m)'
  BY <1>2, <1>3, <1>5, <1>9, <1>10 DEF ReportInv, Unbegun, BeginsStays
<1>12. \A m \in Open' \ Open :
         /\ messages'[m].report # None =>
              AtCall(messages'[m].report) /\ HasStarted(messages'[m].to, messages'[m].report)
         /\ messages'[m].first => session[messages'[m].to] = "none"
  BY <1>2, <1>3, <1>5
<1>13. \A b \in Agents :
         \/ call'[b] \in {call[b], None}
         \/ call'[b].tool # "start_child_agent"
         \/ /\ call'[b].message \in Open' /\ messages'[call'[b].message].first
            /\ messages'[call'[b].message].to = call'[b].target
  BY <1>2, <1>3, <1>5 DEF Posts
<1>14. \A m \in Open : messages'[m].status # "failed"
  BY <1>2, <1>5
<1> QED BY <1>2, <1>6, <1>11, <1>12, <1>13, <1>14 DEF ReportsGoOn, Posts

LEMMA LaunchedSession ==
  ASSUME ConversationTypeOK, NEW t \in Agents, Launch(t)
  PROVE  /\ session[t] = "none" /\ session'[t] = "ready" /\ Post(t, TRUE, None, None)
         /\ \A b \in Agents \ {t} : session'[b] = session[b]
BY DEF Launch, ConversationTypeOK

\* Only t, and an agent that is at a call, are touched by a step that posts a
\* prompt to t.
LEMMA OthersFresh ==
  ASSUME NEW t \in Agents, NEW first, NEW reopened, NEW report, Post(t, first, reopened, report),
         ConversationTypeOK, UNCHANGED omp, NEW b \in Agents, b # t, session'[b] = session[b],
         frames'[b] = frames[b] \/ session[b] # "none"
  PROVE  FreshStep(b)
<1>1. stdin'[b] = stdin[b]
  BY DEF Post, ConversationTypeOK
<1> QED BY <1>1 DEF FreshStep

LEMMA OwnerStartsReports ==
  ASSUME ConversationTypeOK, ConversationTypeOK', ReportInv, NEW a \in Agents, OwnerStarts(a)
  PROVE  ReportsGoOn
<1>1. UNCHANGED <<awaited, call, frames, omp, asked, owed>>
  BY DEF OwnerStarts, ompVars, budgetVars, historyVars
<1>2. CASE Launch(a)
  <2>1. /\ session[a] = "none" /\ session'[a] = "ready" /\ Post(a, TRUE, None, None)
        /\ \A b \in Agents \ {a} : session'[b] = session[b]
    BY <1>2, LaunchedSession
  <2>2. \A b \in Agents : CallStep(b)
    BY <1>1 DEF CallStep, SameCalls
  <2>3. \A b \in Agents : FreshStep(b)
    BY <1>1, <2>1, OthersFresh DEF FreshStep
  <2>4. OwedAreAwaited'
    BY <1>1, <2>2, OwedStay
  <2>5. frames'[a] = <<>> /\ \A b \in Agents : \A c \in awaited'[b] : HasStarted(b, c)
    BY <1>1, <2>1 DEF ReportInv, Fresh
  <2>6. PICK n : n = Id
    OBVIOUS
  <2>7. Posts(a, n, TRUE)
    BY <1>1, <2>1, <2>2, <2>3, <2>5 DEF Posts
  <2> QED BY <1>1, <2>1, <2>4, <2>5, <2>6, <2>7, PostedReports
<1>3. CASE LaunchFails(a) /\ UNCHANGED <<session, postVars>>
  BY <1>1, <1>3, UntouchedReports DEF postVars
<1> QED BY <1>2, <1>3 DEF OwnerStarts

LEMMA OwnerWritesReports ==
  ASSUME ConversationTypeOK, ConversationTypeOK', ReportInv, NEW a \in Agents, OwnerWrites(a)
  PROVE  ReportsGoOn
<1>1. /\ UNCHANGED <<session, awaited, call, frames, omp, asked, owed>>
      /\ session[a] # "none"
  BY DEF OwnerWrites, Live, historyVars
<1>2. PICK reopened : Post(a, FALSE, reopened, None)
  BY DEF OwnerWrites, FollowUp
<1>3. \A b \in Agents : CallStep(b) /\ FreshStep(b)
  BY <1>1, <1>2, OthersFresh DEF CallStep, SameCalls, FreshStep
<1>4. OwedAreAwaited'
  BY <1>1, <1>3, OwedStay
<1>5. PICK n : n = Id
  OBVIOUS
<1>6. \A b \in Agents : \A c \in awaited'[b] : HasStarted(b, c)
  BY <1>1 DEF ReportInv
<1>7. Posts(a, n, FALSE)
  BY <1>1, <1>3, <1>6 DEF Posts
<1> QED BY <1>1, <1>2, <1>4, <1>5, <1>7, PostedReports

\* An agent whose call is handled, while the handler waits for an answer.
LEMMA WaitsAtCall ==
  ASSUME ConversationTypeOK, NEW a \in Agents, Handles(a, "call"), Popped(a),
         UNCHANGED <<omp, asked>>, NEW wait, call' = [call EXCEPT ![a] = wait]
  PROVE  /\ AtCall(a) /\ session[a] \in {"ready", "streaming"} /\ call'[a] = wait
         /\ \A b \in Agents \ {a} : call'[b] = call[b] /\ frames'[b] = frames[b]
         /\ \A b \in Agents : CallStep(b)
<1>1. /\ frames[a] # <<>> /\ Head(frames[a]).kind = "call" /\ call[a] = None
      /\ session[a] \in {"ready", "streaming"}
  BY DEF Handles, Live
<1>2. frames'[a] = Tail(frames[a]) /\ \A b \in Agents \ {a} : frames'[b] = frames[b]
  BY DEF Popped, ConversationTypeOK
<1>3. call'[a] = wait /\ \A b \in Agents \ {a} : call'[b] = call[b]
  BY DEF ConversationTypeOK
<1>4. CallStep(a)
  BY <1>1, <1>2 DEF CallStep
<1> QED BY <1>1, <1>2, <1>3, <1>4 DEF AtCall, CallStep, SameCalls

\* A child that is started is awaited, and its start is what a has last asked.
LEMMA CallStartsReports ==
  ASSUME ConversationTypeOK, ConversationTypeOK', ReportInv, NEW a \in Agents, CallStarts(a)
  PROVE  ReportsGoOn
<1>0. PICK t : t = Asked(a).target
  OBVIOUS
<1> DEFINE wait == [tool |-> "start_child_agent", target |-> t, message |-> Id]
<1>1. /\ Handles(a, "call") /\ Popped(a) /\ IsStart(Asked(a), t) /\ Launch(t)
      /\ awaited' = [awaited EXCEPT ![a] = @ \cup {t}]
      /\ owed' = [owed EXCEPT ![a] = @ \cup {t}]
      /\ call' = [call EXCEPT ![a] = wait]
      /\ UNCHANGED <<omp, asked>> /\ frames[a] # <<>> /\ Head(frames[a]).kind = "call"
  BY <1>0 DEF CallStarts, Calls, HandlesCall, Handles, IsStart, budgetVars
<1>2. t \in Agents
  BY <1>0, <1>1, AskedTyped DEF IsStart
<1>3. wait.tool = "start_child_agent" /\ wait.target = t /\ wait.message = Id
  OBVIOUS
<1>4. HasStarted(a, t)'
  <2>1. frames[a] \in Seq(Frames) /\ asked[a] \in Nat
    BY DEF ConversationTypeOK
  <2>2. /\ asked[a] >= 1 /\ Asks[a][asked[a]] = Asked(a) /\ NoCall(Tail(frames[a]))
    BY <1>1, <2>1, CallsOfTail DEF ReportInv, InTurn, Asked
  <2>3. frames'[a] = Tail(frames[a])
    BY <1>1 DEF Popped, ConversationTypeOK
  <2>4. asked'[a] = asked[a] /\ asked[a] \in 1..asked[a]
    BY <1>1, <2>1, <2>2
  <2> QED BY <1>1, <2>2, <2>3, <2>4 DEF HasStarted
<1> HIDE DEF wait
<1>5. /\ AtCall(a) /\ session[a] \in {"ready", "streaming"} /\ call'[a] = wait
      /\ \A b \in Agents \ {a} : call'[b] = call[b] /\ frames'[b] = frames[b]
      /\ \A b \in Agents : CallStep(b)
  BY <1>1, WaitsAtCall
<1>6. /\ session[t] = "none" /\ session'[t] = "ready" /\ Post(t, TRUE, None, None)
      /\ \A b \in Agents \ {t} : session'[b] = session[b]
  BY <1>1, <1>2, LaunchedSession
<1>7. \A b \in Agents : FreshStep(b)
  <2>1. FreshStep(t)
    BY <1>6 DEF FreshStep
  <2>2. \A b \in Agents \ {t} : FreshStep(b)
    BY <1>1, <1>2, <1>5, <1>6, OthersFresh
  <2> QED BY <2>1, <2>2
<1>8. /\ awaited'[a] = awaited[a] \cup {t} /\ \A b \in Agents \ {a} : awaited'[b] = awaited[b]
      /\ \A b \in Agents : \A c \in owed'[b] : c \in owed[b] \/ (b = a /\ c = t)
  BY <1>1 DEF ConversationTypeOK
<1>9. OwedAreAwaited'
  BY <1>5, <1>8, OwedStay
<1>10. frames'[t] = <<>>
  BY <1>2, <1>5, <1>6 DEF ReportInv, Fresh
<1>11. \A b \in Agents : \A c \in awaited'[b] : HasStarted(b, c) \/ HasStarted(b, c)'
  BY <1>4, <1>8 DEF ReportInv
<1>12. PICK n : n = Id
  OBVIOUS
<1>13. \A b \in Agents :
         /\ \A c \in owed'[b] : c \in owed[b] \/ session[c] = "none"
         /\ \/ call'[b] \in {call[b], None}
            \/ call'[b].message = n /\ call'[b].target = t
  BY <1>3, <1>5, <1>6, <1>8, <1>12
<1>14. \A b \in Agents : /\ frames'[b] = frames[b] \/ AtCall(b)
                         /\ session[b] = "exited" => session'[b] = "exited"
  BY <1>5, <1>6
<1>15. Posts(t, n, TRUE)
  BY <1>5, <1>7, <1>11, <1>13, <1>14 DEF Posts
<1> QED BY <1>1, <1>2, <1>6, <1>9, <1>10, <1>12, <1>15, PostedReports

\* A report of a child is one of a child that was awaited.
LEMMA CallSendsReports ==
  ASSUME ConversationTypeOK, ConversationTypeOK', ReportInv, NEW a \in Agents, CallSends(a)
  PROVE  ReportsGoOn
<1>0. PICK t : t = Asked(a).target
  OBVIOUS
<1>r. PICK report : report = IF a \in awaited[t] THEN a ELSE None
  OBVIOUS
<1> DEFINE wait == [tool |-> "send_agent_message", target |-> t, message |-> Id]
<1>1. /\ Handles(a, "call") /\ Popped(a) /\ Asked(a).tool = "send_agent_message"
      /\ Live(t) /\ FollowUp(t, report)
      /\ awaited' = [awaited EXCEPT ![t] = @ \ {a}]
      /\ owed' = [owed EXCEPT ![t] = @ \ {a}]
      /\ call' = [call EXCEPT ![a] = wait]
      /\ UNCHANGED <<session, omp, asked>>
  BY <1>0, <1>r DEF CallSends, Calls, HandlesCall, Handles, MayRelay, budgetVars
<1>2. t \in Agents
  BY <1>0, <1>1, AskedTyped
<1>3. wait.tool # "start_child_agent" /\ (report # None => report = a /\ a \in awaited[t])
  BY <1>r
<1> HIDE DEF wait
<1>4. /\ AtCall(a) /\ session[a] \in {"ready", "streaming"} /\ call'[a] = wait
      /\ \A b \in Agents \ {a} : call'[b] = call[b] /\ frames'[b] = frames[b]
      /\ \A b \in Agents : CallStep(b)
  BY <1>1, WaitsAtCall
<1>5. PICK reopened : Post(t, FALSE, reopened, report)
  BY <1>1 DEF FollowUp
<1>6. \A b \in Agents : FreshStep(b)
  <2>1. FreshStep(t)
    BY <1>1 DEF FreshStep, Live
  <2>2. \A b \in Agents \ {t} : FreshStep(b)
    BY <1>1, <1>2, <1>4, <1>5, OthersFresh
  <2> QED BY <2>1, <2>2
<1>7. /\ awaited'[t] = awaited[t] \ {a} /\ \A b \in Agents \ {t} : awaited'[b] = awaited[b]
      /\ \A b \in Agents : \A c \in owed'[b] : c \in owed[b] /\ ~(b = t /\ c = a)
  <2>1. /\ awaited'[t] = awaited[t] \ {a} /\ \A b \in Agents \ {t} : awaited'[b] = awaited[b]
    BY <1>1, <1>2 DEF ConversationTypeOK
  <2>2. ASSUME NEW b \in Agents, NEW c \in owed'[b]
        PROVE  c \in owed[b] /\ ~(b = t /\ c = a)
    BY <1>1, <1>2 DEF ReportInv
  <2> QED BY <2>1, <2>2
<1>8. OwedAreAwaited'
  <2>1. \A b \in Agents : \A c \in owed'[b] : c \in awaited[b] => c \in awaited'[b]
    BY <1>7
  <2> QED BY <1>4, <1>7, <2>1, OwedStay
<1>9. \A b \in Agents : \A c \in awaited'[b] : HasStarted(b, c)
  BY <1>7 DEF ReportInv
<1>10. report # None => AtCall(report) /\ HasStarted(t, report)
  BY <1>2, <1>3, <1>4 DEF ReportInv
<1>11. PICK n : n = Id
  OBVIOUS
<1>12. \A b \in Agents : /\ frames'[b] = frames[b] \/ AtCall(b)
                         /\ call'[b] = call[b] \/ call'[b].tool # "start_child_agent"
                         /\ \A c \in owed'[b] : c \in owed[b]
  BY <1>3, <1>4, <1>7
<1>13. Posts(t, n, FALSE)
  BY <1>1, <1>4, <1>6, <1>9, <1>12 DEF Posts
<1> QED BY <1>1, <1>2, <1>5, <1>8, <1>10, <1>11, <1>13, PostedReports

-----------------------------------------------------------------------------
LEMMA NextReports ==
  ASSUME ConversationInv, ConversationTypeOK', ReportInv, ConversationNext
  PROVE  ReportsGoOn
<1> USE DEF ConversationInv
<1>1. ASSUME NEW a \in Agents, OwnerActs(a)
      PROVE  ReportsGoOn
  BY <1>1, OwnerCreatesReports, OwnerStartsReports, OwnerWritesReports, OwnerEndsReports DEF OwnerActs
<1>2. ASSUME NEW a \in Agents, HandlesFrame(a)
      PROVE  ReportsGoOn
  BY <1>2, HandlesResponseReports, TurnFramesReports, AnsweredReports, CallStartsReports,
     CallStartFailsReports, CallStartRefusedReports, CallSendsReports DEF HandlesFrame
<1>3. ASSUME NEW a \in Agents, CallReturns(a) \/ HandlesExit(a)
      PROVE  ReportsGoOn
  BY <1>3, CallReturnsReports, OwnerEndsReports
<1>4. ASSUME NEW a \in Agents, OmpActs(a)
      PROVE  ReportsGoOn
  BY <1>4, OmpReadsReports, OmpAsksReports, OmpEndsReports, OmpDiesReports DEF OmpActs
<1>5. ASSUME NEW m \in Open, TimesOut(m)
      PROVE  ReportsGoOn
  BY <1>5, TimesOutReports
<1> QED BY <1>1, <1>2, <1>3, <1>4, <1>5 DEF ConversationNext

LEMMA OwedStaysTyped ==
  ASSUME ConversationTypeOK, DOMAIN owed = Agents, ConversationNext
  PROVE  DOMAIN owed' = DOMAIN owed
<1>1. \A a \in Agents : SessionEnds(a) => DOMAIN owed' = Agents
  BY DEF SessionEnds
<1>2. ASSUME NEW m \in Open, FollowUpFails(m) \/ FirstPromptFails(m)
      PROVE  DOMAIN owed' = Agents
  BY <1>1, <1>2, OpenTyped DEF FollowUpFails, Unsettled, FirstPromptFails
<1>3. ASSUME NEW a \in Agents, OwnerActs(a)
      PROVE  DOMAIN owed' = Agents
  BY <1>1, <1>3 DEF OwnerActs, OwnerCreates, OwnerStarts, OwnerWrites, OwnerCompletes, OwnerCancels,
     historyVars
<1>4. ASSUME NEW a \in Agents, HandlesFrame(a)
      PROVE  DOMAIN owed' = Agents
  <2>1. CASE HandlesResponse(a)
    BY <1>2, <2>1 DEF HandlesResponse
  <2>2. CASE HandlesStart(a) \/ HandlesUiRequest(a) \/ HandlesEnd(a)
    BY <2>2 DEF HandlesStart, HandlesUiRequest, HandlesEnd, historyVars
  <2>3. CASE CallStarts(a) \/ CallSends(a) \/ CallSendFails(a)
    BY <2>3 DEF CallStarts, CallSends, CallSendFails
  <2>4. CASE CallCreates(a) \/ CallRequestsVerification(a) \/ CallSubmits(a)
               \/ CallStartFails(a) \/ CallStartRefused(a) \/ CallRefused(a)
    BY <2>4 DEF CallCreates, CallRequestsVerification, CallSubmits, CallStartFails,
       CallStartRefused, CallRefused, historyVars
  <2> QED BY <1>4, <2>1, <2>2, <2>3, <2>4 DEF HandlesFrame
<1>5. ASSUME NEW a \in Agents, CallReturns(a) \/ HandlesExit(a) \/ OmpActs(a)
      PROVE  DOMAIN owed' = Agents
  BY <1>1, <1>5 DEF CallReturns, HandlesExit, OmpActs, OmpReads, OmpAsks, OmpEnds, OmpDies, historyVars
<1>6. ASSUME NEW m \in Open, TimesOut(m)
      PROVE  DOMAIN owed' = Agents
  BY <1>2, <1>6 DEF TimesOut
<1> QED BY <1>3, <1>4, <1>5, <1>6 DEF ConversationNext

LEMMA InitReports ==
  ASSUME ConversationInit
  PROVE  ReportInv
<1>1. /\ Open = {}
      /\ \A a \in Agents : /\ stdin[a] = <<>> /\ frames[a] = <<>> /\ omp[a] = "idle"
                           /\ call[a] = None /\ asked[a] = 0 /\ owed[a] = {} /\ awaited[a] = {}
  BY DEF ConversationInit, Open
<1>2. \A a \in Agents : Len(Asks[a]) \in Nat
  BY EnvironmentAssumption
<1>3. NoCall(<<>>) /\ DOMAIN owed = Agents
  BY DEF NoCall, ConversationInit
<1> QED BY <1>1, <1>2, <1>3 DEF ReportInv, InTurn, Fresh, StartReturns, OwedAreAwaited

LEMMA SameReports ==
  ASSUME ConversationTypeOK, ReportInv, UNCHANGED conversationVars
  PROVE  ReportsGoOn /\ UNCHANGED owed
<1>1. UNCHANGED <<messages, stdin, frames, omp, asked, call, session, awaited, owed>>
  BY DEF conversationVars, goalVars, sessionVars, postVars, ompVars, budgetVars, historyVars
<1> QED BY <1>1, UntouchedReports

\* The inductive invariant of reports.  (Whoever is owed is awaited, but for
\* those whose start was asked for again; nobody reports before it has begun.)
THEOREM ReportInvariant == ConversationSpec => []ReportInv
<1>1. /\ ConversationInv /\ ConversationTypeOK' /\ ReportInv /\ [ConversationNext]_conversationVars
        => ReportInv'
  <2> SUFFICES ASSUME ConversationInv, ConversationTypeOK', ReportInv,
                      [ConversationNext]_conversationVars
               PROVE  ReportInv'
    OBVIOUS
  <2>1. ConversationTypeOK /\ ReportersHaveStarted /\ DOMAIN owed = Agents
    BY DEF ConversationInv, ReportInv
  <2>2. ReportsGoOn /\ DOMAIN owed' = DOMAIN owed
    BY <2>1, NextReports, SameReports, OwedStaysTyped
  <2> QED BY <2>1, <2>2, ReportStep1
<1>2. ConversationInit => ReportInv
  BY InitReports
<1> QED BY <1>1, <1>2, ConversationInvariant, ConversationTypeCorrect, PTL DEF ConversationSpec

-----------------------------------------------------------------------------
(* The ends of turns *)

\* The outcome of a's goal is made, or its goal is handed over to be verified.
HandsOver(a) ==
  \/ scope[a] = "none" /\ ~artifact[a] /\ artifact'[a]
  \/ goal[a] = "running" /\ goal'[a] = "verifying" /\ UNCHANGED messages

LEMMA NothingHandedOver ==
  ASSUME DelegationTypeOK, UNCHANGED artifact, NEW a \in Agents,
         \/ UNCHANGED goal
         \/ \E b, state : /\ goal' = [goal EXCEPT ![b] = state]
                          /\ state # "verifying" \/ b \notin Agents \/ state = goal[b]
  PROVE  ~HandsOver(a)
BY DEF HandsOver, DelegationTypeOK

LEMMA OtherStateHandsOver ==
  ASSUME DelegationTypeOK, UNCHANGED artifact, NEW a \in Agents, NEW b, NEW state,
         goal' = [goal EXCEPT ![b] = state], state # "verifying" \/ state = goal[b]
  PROVE  ~HandsOver(a)
BY DEF HandsOver, DelegationTypeOK

LEMMA FollowUpHandsOver ==
  ASSUME ConversationTypeOK, NEW m \in Open, FollowUpFails(m), UNCHANGED artifact, NEW a \in Agents
  PROVE  ~HandsOver(a)
<1>1. messages' # messages
  <2>1. m \in DOMAIN messages /\ messages[m].status = "queued"
    BY DEF Open
  <2>2. messages'[m].status = "failed"
    BY <2>1 DEF FollowUpFails, Unsettled, Fail
  <2> QED BY <2>1, <2>2
<1> QED BY <1>1, Parts DEF HandsOver, DelegationTypeOK

LEMMA FirstPromptHandsOver ==
  ASSUME ConversationTypeOK, NEW m \in Open, FirstPromptFails(m), UNCHANGED artifact,
         NEW a \in Agents
  PROVE  ~HandsOver(a)
<1> DEFINE b == messages[m].to
           state == IF goal[b] \in ActiveStates THEN "cancelled" ELSE goal[b]
<1>1. goal' = [goal EXCEPT ![b] = state] /\ (state # "verifying" \/ state = goal[b])
  BY DEF FirstPromptFails
<1> HIDE DEF b, state
<1> QED BY <1>1, OtherStateHandsOver, Parts

\* A turn that hands over is one whose agent awaits nobody.
LEMMA EndHandsOver ==
  ASSUME ConversationTypeOK, NEW b \in Agents, HandlesEnd(b), NEW a \in Agents, HandsOver(a)
  PROVE  awaited[a] = {}
<1> DEFINE output == Head(frames[b]).output
<1>1. /\ artifact' = [artifact EXCEPT ![b] = @ \/ HasOutcome(b, output)]
      /\ goal' = [goal EXCEPT ![b] = IF @ = "running" THEN GoalAfterTurn(b, output) ELSE @]
  BY DEF HandlesEnd
<1> HIDE DEF output
<1>2. /\ goal \in [Agents -> GoalStates \cup {None}] /\ artifact \in [Agents -> BOOLEAN]
      /\ defer[b] \in BOOLEAN
  BY DEF ConversationTypeOK, DelegationTypeOK
<1>3. CASE a # b
  BY <1>1, <1>2, <1>3 DEF HandsOver
<1>4. CASE a = b /\ ~artifact[a] /\ artifact'[a]
  BY <1>1, <1>2, <1>4 DEF HasOutcome
<1>5. CASE a = b /\ goal[a] = "running" /\ goal'[a] = "verifying"
  <2>1. GoalAfterTurn(a, output) = "verifying"
    BY <1>1, <1>2, <1>5
  <2> QED BY <1>2, <1>5, <2>1 DEF GoalAfterTurn
<1> QED BY <1>3, <1>4, <1>5 DEF HandsOver

LEMMA CallHandsOver ==
  ASSUME ConversationTypeOK, NEW b \in Agents, NEW a \in Agents,
         CallCreates(b) \/ CallRequestsVerification(b) \/ CallSubmits(b) \/ CallStarts(b)
           \/ CallStartFails(b) \/ CallStartRefused(b) \/ CallSends(b) \/ CallSendFails(b)
           \/ CallRefused(b)
  PROVE  ~HandsOver(a)
<1>1. CASE CallSubmits(b)
  <2>1. UNCHANGED goal /\ artifact' = [artifact EXCEPT ![b] = TRUE] /\ scope[b] # "none"
    BY <1>1 DEF CallSubmits, Bound
  <2> QED BY <2>1, Parts DEF HandsOver, DelegationTypeOK
<1>2. CASE ~CallSubmits(b)
  <2>1. UNCHANGED artifact
    BY <1>2 DEF CallCreates, CreateChildGoal, CallRequestsVerification, CreateVerificationGoal,
       CreateGoal, CallStarts, Launch, CallStartFails, LaunchFails, CallStartRefused,
       CallSends, FollowUp, CallSendFails, CallRefused, goalVars
  <2>2. CASE CallCreates(b) \/ CallRequestsVerification(b)
    <3>1. PICK t : goal' = [goal EXCEPT ![t] = "draft"]
      BY <2>2 DEF CallCreates, CreateChildGoal, CallRequestsVerification, CreateVerificationGoal,
         CreateGoal
    <3> QED BY <2>1, <3>1, OtherStateHandsOver, Parts
  <2>3. CASE CallStarts(b) \/ CallSends(b)
    <3>1. PICK t : goal' = [goal EXCEPT ![t] = "running"]
      BY <2>3 DEF CallStarts, Launch, CallSends, FollowUp
    <3> QED BY <2>1, <3>1, OtherStateHandsOver, Parts
  <2>4. CASE CallStartFails(b)
    <3>1. PICK t : goal' = [goal EXCEPT ![t] = "failed"]
      BY <2>4 DEF CallStartFails, LaunchFails
    <3> QED BY <2>1, <3>1, OtherStateHandsOver, Parts
  <2>5. CASE CallStartRefused(b) \/ CallSendFails(b) \/ CallRefused(b)
    <3>1. UNCHANGED goal
      BY <2>5 DEF CallStartRefused, CallSendFails, CallRefused, goalVars
    <3> QED BY <2>1, <3>1, NothingHandedOver, Parts
  <2> QED BY <1>2, <2>2, <2>3, <2>4, <2>5
<1> QED BY <1>1, <1>2

LEMMA TurnHandsOver ==
  ASSUME ConversationTypeOK, ConversationNext, NEW a \in Agents, HandsOver(a)
  PROVE  awaited[a] = {}
<1>1. ASSUME NEW b \in Agents, OwnerActs(b)
      PROVE  FALSE
  <2>1. UNCHANGED artifact
    BY <1>1 DEF OwnerActs, OwnerCreates, CreateOwnerGoal, CreateGoal, OwnerStarts, Launch,
       LaunchFails, OwnerWrites, FollowUp, OwnerCompletes, OwnerCancels
  <2>2. ASSUME NEW state, goal' = [goal EXCEPT ![b] = state],
               state # "verifying" \/ state = goal[b]
        PROVE  FALSE
    BY <2>1, <2>2, OtherStateHandsOver, Parts
  <2>3. ASSUME NEW authority, OwnerCreates(b, authority)
        PROVE  FALSE
    <3>1. goal' = [goal EXCEPT ![b] = "draft"]
      BY <2>3 DEF OwnerCreates, CreateOwnerGoal, CreateGoal
    <3> QED BY <3>1, <2>2
  <2>4. CASE OwnerStarts(b)
    <3>1. PICK state \in {"running", "failed"} : goal' = [goal EXCEPT ![b] = state]
      BY <2>4 DEF OwnerStarts, Launch, LaunchFails
    <3> QED BY <3>1, <2>2
  <2>5. CASE OwnerWrites(b)
    <3>1. goal' = [goal EXCEPT ![b] = "running"]
      BY <2>5 DEF OwnerWrites, FollowUp
    <3> QED BY <3>1, <2>2
  <2>6. CASE OwnerCompletes(b)
    <3>1. goal' = [goal EXCEPT ![b] = "complete"]
      BY <2>6 DEF OwnerCompletes
    <3> QED BY <3>1, <2>2
  <2>7. CASE OwnerCancels(b)
    <3>1. PICK state \in {"cancelled", goal[b]} : goal' = [goal EXCEPT ![b] = state]
      BY <2>7 DEF OwnerCancels
    <3> QED BY <3>1, <2>2
  <2> QED BY <1>1, <2>3, <2>4, <2>5, <2>6, <2>7 DEF OwnerActs
<1>2. ASSUME NEW b \in Agents, HandlesResponse(b)
      PROVE  FALSE
  <2>1. UNCHANGED artifact
    BY <1>2 DEF HandlesResponse
  <2>2. CASE UNCHANGED goal
    BY <2>1, <2>2, NothingHandedOver, Parts
  <2>3. CASE \E m \in Open : FollowUpFails(m) \/ FirstPromptFails(m)
    BY <2>1, <2>3, FollowUpHandsOver, FirstPromptHandsOver
  <2> QED BY <1>2, <2>2, <2>3 DEF HandlesResponse
<1>3. ASSUME NEW b \in Agents, HandlesStart(b) \/ HandlesUiRequest(b)
      PROVE  FALSE
  <2>1. UNCHANGED artifact
    BY <1>3 DEF HandlesStart, HandlesUiRequest, goalVars
  <2>2. \/ UNCHANGED goal
        \/ \E state : goal' = [goal EXCEPT ![b] = state] /\ (state # "verifying" \/ state = goal[b])
    BY <1>3 DEF HandlesStart, HandlesUiRequest, goalVars
  <2> QED BY <2>1, <2>2, NothingHandedOver, Parts
<1>4. ASSUME NEW b \in Agents, HandlesFrame(b)
      PROVE  awaited[a] = {}
  BY <1>2, <1>3, <1>4, EndHandsOver, CallHandsOver DEF HandlesFrame
<1>5. ASSUME NEW b \in Agents, CallReturns(b) \/ HandlesExit(b) \/ OmpActs(b)
      PROVE  FALSE
  <2>1. UNCHANGED artifact
    BY <1>5 DEF CallReturns, HandlesExit, OmpActs, OmpReads, OmpAsks, OmpEnds, OmpDies, goalVars
  <2>2. \/ UNCHANGED goal
        \/ \E state : goal' = [goal EXCEPT ![b] = state] /\ (state # "verifying" \/ state = goal[b])
    BY <1>5 DEF CallReturns, HandlesExit, OmpActs, OmpReads, OmpAsks, OmpEnds, OmpDies, goalVars
  <2> QED BY <2>1, <2>2, NothingHandedOver, Parts
<1>6. ASSUME NEW m \in Open, TimesOut(m)
      PROVE  FALSE
  BY <1>6, FollowUpHandsOver, FirstPromptHandsOver DEF TimesOut
<1> QED BY <1>1, <1>4, <1>5, <1>6 DEF ConversationNext

\* No turn makes the outcome of a goal, or hands the goal over to be verified,
\* while a child its agent has started owes it a report, whatever times out, is
\* refused, crashes or is said twice, unless that child was to be started again.
THEOREM NoTurnOvertakesReports == ConversationSpec => TurnsAwaitReports
<1>1. ConversationTypeOK /\ ReportInv /\ [ConversationNext]_conversationVars =>
        [\A a \in Agents :
           \/ scope[a] = "none" /\ ~artifact[a] /\ artifact'[a]
           \/ goal[a] = "running" /\ goal'[a] = "verifying" /\ UNCHANGED messages
           => \A c \in owed[a] : StartedTwice(a, c)]_conversationVars
  <2> SUFFICES ASSUME ConversationTypeOK, ReportInv, ConversationNext, NEW a \in Agents, HandsOver(a)
               PROVE  \A c \in owed[a] : StartedTwice(a, c)
    BY DEF HandsOver
  <2>1. awaited[a] = {}
    BY TurnHandsOver
  <2> QED BY <2>1 DEF ReportInv, OwedAreAwaited
<1> QED BY <1>1, ConversationTypeCorrect, ReportInvariant, PTL DEF ConversationSpec, TurnsAwaitReports

=============================================================================
