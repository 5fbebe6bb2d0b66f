------------------------- MODULE ConversationProofs -------------------------
(***************************************************************************)
(* Theorems about Conversation for every number of sessions, tickets,      *)
(* users, requests and failures, and every list of mentions.               *)
(***************************************************************************)
EXTENDS Conversation, FiniteSetTheorems, SequenceTheorems, TLAPS

Event == [event : {"comment_created", "mentioned"}, user : User \cup {0}]

--------------------------------------------------------------------------
(* The events of a comment *)

LEMMA EventsFacts ==
    ASSUME NEW internal \in BOOLEAN, NEW mentioned \in Seq(Active), ~Repeated(mentioned)
    PROVE  LET ev == Events(internal, mentioned)
           IN /\ ev \in Seq(Event)
              /\ \A i, j \in 1..Len(ev) : ev[i] = ev[j] => i = j
              /\ \A i \in 1..Len(ev) : ev[i] = Created => ~internal
              /\ \A i \in 1..Len(ev) : \A user : ev[i] = Mentioned(user) =>
                    \E k \in DOMAIN mentioned : mentioned[k] = user
              /\ internal \/ \E i \in 1..Len(ev) : ev[i] = Created
              /\ \A k \in DOMAIN mentioned : \E i \in 1..Len(ev) : ev[i] = Mentioned(mentioned[k])
<1> DEFINE head == IF internal THEN <<>> ELSE <<Created>>
           tail == [i \in DOMAIN mentioned |-> Mentioned(mentioned[i])]
           ev == head \o tail
           n == IF internal THEN 0 ELSE 1
<1>1. Created \in Event /\ \A user \in Active : Mentioned(user) \in Event
  BY ConversationAssumption DEF Created, Mentioned, Event
<1>2. \A user : Created # Mentioned(user)
  BY DEF Created, Mentioned
<1>3. \A user, other : Mentioned(user) = Mentioned(other) => user = other
  BY DEF Mentioned
<1>4. head \in Seq(Event) /\ Len(head) = n /\ n \in Nat /\ (n = 1 => head[1] = Created)
  BY <1>1
<1>5. Len(mentioned) \in Nat /\ DOMAIN mentioned = 1..Len(mentioned)
      /\ \A i \in 1..Len(mentioned) : mentioned[i] \in Active
  OBVIOUS
<1>6. tail \in Seq(Event) /\ Len(tail) = Len(mentioned)
      /\ \A i \in 1..Len(mentioned) : tail[i] = Mentioned(mentioned[i])
  BY <1>1, <1>5
<1>7. \A i, j \in 1..Len(mentioned) : mentioned[i] = mentioned[j] => i = j
  BY <1>5 DEF Repeated
<1> HIDE DEF head, tail
<1>8. ev \in Seq(Event) /\ Len(ev) = n + Len(mentioned)
      /\ \A i \in 1..Len(ev) : ev[i] = IF i <= n THEN head[i] ELSE tail[i - n]
  <2>1. /\ head \o tail \in Seq(Event) /\ Len(head \o tail) = Len(head) + Len(tail)
        /\ \A i \in 1..Len(head) + Len(tail) :
             (head \o tail)[i] = IF i <= Len(head) THEN head[i] ELSE tail[i - Len(head)]
    <3>1. head \in Seq(Event) /\ tail \in Seq(Event)
      BY <1>4, <1>6
    <3> QED
      BY <3>1, ConcatProperties, Zenon
  <2> HIDE DEF n
  <2> QED
    BY <1>4, <1>6, <2>1
<1>9. Events(internal, mentioned) = ev
  BY DEF Events, head, tail
<1> HIDE DEF ev
<1>10. ASSUME NEW i \in 1..Len(ev)
       PROVE  IF i = 1 /\ ~internal THEN ev[i] = Created
              ELSE i - n \in 1..Len(mentioned) /\ ev[i] = Mentioned(mentioned[i - n])
  <2>1. CASE internal
    <3>1. n = 0
      BY <2>1
    <3> QED
      BY <1>5, <1>6, <1>8, <2>1, <3>1
  <2>2. CASE ~internal
    <3>1. n = 1
      BY <2>2
    <3> QED
      BY <1>4, <1>5, <1>6, <1>8, <2>2, <3>1
  <2> QED
    BY <2>1, <2>2
<1>11. ASSUME NEW i \in 1..Len(ev), NEW j \in 1..Len(ev), ev[i] = ev[j]
       PROVE  i = j
  <2>1. i \in Int /\ j \in Int /\ n \in Int
    BY <1>4, <1>5, <1>8
  <2>2. CASE (i = 1 /\ ~internal) \/ (j = 1 /\ ~internal)
    BY <1>2, <1>10, <1>11, <2>2
  <2>3. CASE ~(i = 1 /\ ~internal) /\ ~(j = 1 /\ ~internal)
    <3>1. /\ i - n \in 1..Len(mentioned) /\ j - n \in 1..Len(mentioned)
          /\ mentioned[i - n] = mentioned[j - n]
      BY <1>3, <1>10, <1>11, <2>3
    <3>2. i - n = j - n
      BY <1>7, <3>1
    <3> HIDE DEF n
    <3> QED
      BY <2>1, <3>2
  <2> QED
    BY <2>2, <2>3
<1>12. \A k \in DOMAIN mentioned : \E i \in 1..Len(ev) : ev[i] = Mentioned(mentioned[k])
  <2>1. ASSUME NEW k \in 1..Len(mentioned)
        PROVE  k + n \in 1..Len(ev) /\ ev[k + n] = Mentioned(mentioned[k])
    <3>1. k + n \in 1..Len(ev) /\ (k + n) - n = k /\ ~(k + n = 1 /\ ~internal)
      BY <1>4, <1>5, <1>8
    <3> QED
      BY <1>10, <3>1
  <2> QED
    BY <1>5, <2>1
<1>13. internal \/ \E i \in 1..Len(ev) : ev[i] = Created
  <2>1. ~internal => 1 \in 1..Len(ev)
    BY <1>5, <1>8
  <2> QED
    BY <1>10, <2>1
<1>14. \A i \in 1..Len(ev) : ev[i] = Created => ~internal
  BY <1>2, <1>10
<1>15. ASSUME NEW i \in 1..Len(ev), NEW user, ev[i] = Mentioned(user)
       PROVE  \E k \in DOMAIN mentioned : mentioned[k] = user
  <2>1. i - n \in 1..Len(mentioned) /\ Mentioned(mentioned[i - n]) = Mentioned(user)
    BY <1>2, <1>10, <1>15
  <2> QED
    BY <1>3, <1>5, <2>1
<1> QED
  BY <1>8, <1>9, <1>11, <1>12, <1>13, <1>14, <1>15

\* A list without repetitions has as many elements as entries.
LEMMA ToldCount ==
    ASSUME NEW S, NEW list \in Seq(S),
           \A i, j \in 1..Len(list) : list[i] = list[j] => i = j
    PROVE  Cardinality({list[i] : i \in DOMAIN list}) = Len(list)
<1> DEFINE T == {list[i] : i \in DOMAIN list}
           f == [i \in 1..Len(list) |-> list[i]]
<1>1. Len(list) \in Nat /\ DOMAIN list = 1..Len(list)
  OBVIOUS
<1>2. f \in Bijection(1..Len(list), T)
  BY <1>1 DEF Bijection, Injection, Surjection, IsInjective
<1>3. IsFiniteSet(1..Len(list)) /\ Cardinality(1..Len(list)) = Len(list)
  BY <1>1, FS_Interval
<1>4. ExistsBijection(1..Len(list), T)
  BY <1>2 DEF ExistsBijection
<1> QED
  BY <1>3, <1>4, FS_Bijection

--------------------------------------------------------------------------
(* The inductive invariant *)

\* A request with all its fields.
Request(c) ==
  c = [at |-> c.at, number |-> c.number, status |-> c.status, id |-> c.id,
       ticket |-> c.ticket, internal |-> c.internal, mentioned |-> c.mentioned,
       todo |-> c.todo, shown |-> c.shown, users |-> c.users]

Place == {"idle", "comment", "mentions", "events", "listing", "upload", "attach"}
Status == {0, 200, 201, 403, 404, 422, 500}

\* create_comment is still at work on the row it committed.
AtWork(c) == c.at \in {"mentions", "events"}
\* ... or has answered that all went well.
Done(c) == c.at = "idle" /\ c.status = 201 /\ c.id # 0

\* What the request sent, and what it has still to send, is what is to be told.
Progress(c, list) ==
  LET ev == Events(c.internal, c.mentioned)
  IN /\ c.todo \in Seq(Event) /\ Len(list) + Len(c.todo) = Len(ev)
     /\ \A i \in 1..Len(list) : list[i] = ev[i]
     /\ \A i \in 1..Len(c.todo) : c.todo[i] = ev[Len(list) + i]

\* The mentions it checked are stored, each once.
Stored(c, pairs) ==
  /\ ~Repeated(c.mentioned)
  /\ \A i \in DOMAIN c.mentioned : <<c.id, c.mentioned[i]>> \in pairs

CallOK(c) ==
  /\ Request(c) /\ c.at \in Place /\ c.status \in Status
  /\ c.id \in 0..Len(comments)
  /\ c.at # "idle" => c.number \in 1..calls
  /\ c.at \in {"comment", "upload", "attach"} => c.ticket \in Ticket /\ c.id = 0
  /\ c.at = "listing" => c.id = 0
  /\ c.at = "attach" => bucket /\ c.number \in objects
  /\ c.at = "comment" \/ AtWork(c) \/ Done(c) =>
       c.internal \in BOOLEAN /\ c.mentioned \in Seq(Active)
  /\ AtWork(c) \/ Done(c) => c.id # 0 /\ comments[c.id].internal = c.internal
  /\ c.at = "mentions" => sent[c.id] = <<>>
  /\ c.at = "events" \/ Done(c) => Stored(c, mentions) /\ Progress(c, sent[c.id])
  /\ c.at = "events" => c.todo # <<>>
  /\ Done(c) => c.todo = <<>>

\* No two requests work on one comment.
Apart(s, t) == AtWork(call[s]) => call[t].id # call[s].id

CallInv ==
  /\ DOMAIN call = Session
  /\ \A s \in Session : CallOK(call[s])
  /\ \A s, t \in Session : s # t => Apart(s, t)

\* What was sent about a comment is true and was sent once.
Honest(c) ==
  /\ \A i, j \in 1..Len(sent[c]) : sent[c][i] = sent[c][j] => i = j
  /\ \A i \in 1..Len(sent[c]) : sent[c][i] = Created => ~comments[c].internal
  /\ \A i \in 1..Len(sent[c]) : \A user \in User :
       sent[c][i] = Mentioned(user) => <<c, user>> \in mentions

DataType ==
  /\ comments \in Seq([ticket : Ticket, internal : BOOLEAN])
  /\ mentions \subseteq (1..Len(comments)) \X Active
  /\ sent \in Seq(Seq(Event)) /\ Len(sent) = Len(comments)
  /\ attachments \subseteq [key : 1..MaxCalls, ticket : Ticket]
  /\ objects \subseteq 1..MaxCalls /\ bucket \in BOOLEAN
  /\ runner \in [Runner -> {"start", "make", "ready"}]
  /\ calls \in 0..MaxCalls

IInv ==
  /\ DataType /\ CallInv
  /\ \A c \in 1..Len(comments) : Honest(c)
  /\ AttachmentsWhole

LEMMA InvTypes == IInv => TypeOK
<1> SUFFICES ASSUME IInv PROVE TypeOK
  OBVIOUS
<1>1. DOMAIN sent = DOMAIN comments
  BY DEF IInv, DataType
<1>2. \A s \in Session : call[s].at \in Place /\ call[s].status \in Status
  BY DEF IInv, CallInv, CallOK
<1> QED
  BY <1>1, <1>2 DEF IInv, DataType, TypeOK, Place, Status

LEMMA InvAnnounced == IInv => AnnouncedExactly
<1> SUFFICES ASSUME IInv PROVE AnnouncedExactly
  OBVIOUS
<1>1. /\ Len(comments) \in Nat /\ DOMAIN comments = 1..Len(comments)
      /\ sent \in Seq(Seq(Event)) /\ Len(sent) = Len(comments)
  BY DEF IInv, DataType
<1>2. \A c \in 1..Len(comments) :
        sent[c] \in Seq(Event) /\ Len(sent[c]) \in Nat /\ DOMAIN sent[c] = 1..Len(sent[c])
  BY <1>1
<1>3. ASSUME NEW c \in DOMAIN comments
      PROVE  /\ Cardinality(Told(c)) = Len(sent[c])
             /\ Created \in Told(c) => ~comments[c].internal
             /\ \A user \in User : Mentioned(user) \in Told(c) => <<c, user>> \in mentions
  <2>1. Honest(c)
    BY <1>1 DEF IInv
  <2>2. Cardinality({sent[c][i] : i \in DOMAIN sent[c]}) = Len(sent[c])
    BY <1>1, <1>2, <2>1, ToldCount DEF Honest
  <2> QED
    BY <1>1, <1>2, <2>1, <2>2 DEF Told, Honest
<1>4. ASSUME NEW s \in Session, Done(call[s])
      PROVE  /\ comments[call[s].id].internal \/ Created \in Told(call[s].id)
             /\ \A i \in DOMAIN call[s].mentioned :
                  /\ <<call[s].id, call[s].mentioned[i]>> \in mentions
                  /\ Mentioned(call[s].mentioned[i]) \in Told(call[s].id)
  <2> DEFINE c == call[s]
             ev == Events(c.internal, c.mentioned)
  <2>1. /\ c.id \in 1..Len(comments) /\ c.internal \in BOOLEAN /\ c.mentioned \in Seq(Active)
        /\ comments[c.id].internal = c.internal /\ Stored(c, mentions) /\ Progress(c, sent[c.id]) /\ c.todo = <<>>
    BY <1>1, <1>4 DEF IInv, CallInv, CallOK
  <2> HIDE DEF c
  <2>2. /\ Len(sent[c.id]) = Len(ev) /\ \A i \in 1..Len(ev) : sent[c.id][i] = ev[i]
    BY <1>2, <2>1 DEF Progress
  <2>3. /\ c.internal \/ \E i \in 1..Len(ev) : ev[i] = Created
        /\ \A k \in DOMAIN c.mentioned : \E i \in 1..Len(ev) : ev[i] = Mentioned(c.mentioned[k])
    BY <2>1, EventsFacts DEF Stored
  <2> HIDE DEF ev
  <2>4. \A i \in 1..Len(ev) : ev[i] \in Told(c.id)
    BY <1>2, <2>1, <2>2 DEF Told
  <2>5. c = call[s]
    BY DEF c
  <2> QED
    BY <2>1, <2>3, <2>4, <2>5 DEF Stored
<1> QED
  BY <1>3, <1>4 DEF AnnouncedExactly, Done

--------------------------------------------------------------------------
(* What a step does to the requests *)

\* A request that neither works on a comment nor has an object is fine by itself.
LEMMA QuietCall ==
    ASSUME NEW c, Request(c), c.at \in {"idle", "listing"}, c.status \in Status, c.id = 0,
           c.at # "idle" => c.number \in 1..calls', Len(comments') \in Nat
    PROVE  CallOK(c)'
BY DEF CallOK, Place, Request, AtWork, Done

\* One request moves; rows are only added, and only its own comment gets an event.
LEMMA Move ==
    ASSUME IInv, NEW s \in Session, NEW c, CallOK(c)', call' = [call EXCEPT ![s] = c],
           Len(comments') \in Nat, Len(comments) <= Len(comments'),
           calls' \in Nat, calls <= calls',
           mentions \subseteq mentions', objects \subseteq objects', bucket => bucket',
           \A i \in 1..Len(comments) :
             /\ comments'[i] = comments[i]
             /\ sent'[i] = sent[i] \/ (AtWork(call[s]) /\ i = call[s].id),
           \/ c.id = 0
           \/ c.id = Len(comments) + 1
           \/ c.id = call[s].id /\ (AtWork(c) => AtWork(call[s]))
    PROVE  CallInv'
<1>1. /\ DOMAIN call' = Session /\ call'[s] = c
      /\ \A t \in Session : t # s => call'[t] = call[t]
  BY DEF IInv, CallInv
<1>2. Len(comments) \in Nat /\ calls \in Nat
  BY ConversationAssumption DEF IInv, DataType
<1>3. AtWork(c) => c.id # 0
  BY DEF CallOK, AtWork
<1>4. ASSUME NEW t \in Session, t # s
      PROVE  CallOK(call[t])'
  <2>1. PICK d : d = call[t]
    OBVIOUS
  <2>2. CallOK(d) /\ call'[t] = d
    BY <1>1, <1>4, <2>1 DEF IInv, CallInv
  <2>3. d.id \in 0..Len(comments) /\ d.id \in 0..Len(comments')
    BY <1>2, <2>2 DEF CallOK
  <2>4. AtWork(d) \/ Done(d) => d.id \in 1..Len(comments)
    BY <1>2, <2>2, <2>3 DEF CallOK
  <2>5. AtWork(d) \/ Done(d) => sent'[d.id] = sent[d.id] /\ comments'[d.id] = comments[d.id]
    BY <1>4, <2>1, <2>4 DEF IInv, CallInv, Apart
  <2>6. d.at = "events" \/ Done(d) => Stored(d, mentions')
    BY <2>2 DEF CallOK, Stored
  <2>7. d.at = "events" \/ Done(d) => Progress(d, sent'[d.id])
    BY <2>2, <2>5 DEF CallOK, AtWork
  <2>8. d.at # "idle" => d.number \in 1..calls'
    BY <1>2, <2>2 DEF CallOK
  <2>9. d.at = "mentions" => sent'[d.id] = <<>>
    BY <2>2, <2>5 DEF CallOK, AtWork
  <2>10. d.at = "attach" => bucket' /\ d.number \in objects'
    BY <2>2 DEF CallOK
  <2>11. AtWork(d) \/ Done(d) => d.id # 0 /\ comments'[d.id].internal = d.internal
    BY <2>2, <2>5 DEF CallOK
  <2>12. CallOK(d)'
    BY <2>2, <2>3, <2>6, <2>7, <2>8, <2>9, <2>10, <2>11 DEF CallOK, AtWork, Done, Request
  <2> QED
    BY <2>2, <2>12 DEF CallOK
<1>5. ASSUME NEW t \in Session, NEW u \in Session, t # u
      PROVE  Apart(t, u)'
  <2>1. \A v \in Session : call[v].id \in 0..Len(comments) /\ (AtWork(call[v]) => call[v].id # 0)
    BY DEF IInv, CallInv, CallOK
  <2>2. Apart(t, u)
    BY <1>5 DEF IInv, CallInv
  <2>3. CASE t # s /\ u # s
    BY <1>1, <2>2, <2>3 DEF Apart, AtWork
  <2>4. CASE t = s
    <3>1. c.id = 0 \/ c.id = Len(comments) + 1 => (AtWork(c) => call[u].id # c.id)
      BY <1>2, <1>3, <2>1
    <3> QED
      BY <1>1, <1>5, <2>2, <2>4, <3>1 DEF Apart, AtWork
  <2>5. CASE u = s
    <3>1. c.id = 0 \/ c.id = Len(comments) + 1 => (AtWork(call[t]) => c.id # call[t].id)
      BY <1>2, <2>1
    <3> QED
      BY <1>1, <1>5, <2>2, <2>5, <3>1 DEF Apart, AtWork
  <2> QED
    BY <2>3, <2>4, <2>5
<1>6. CallOK(call[s])'
  BY <1>1 DEF CallOK
<1> QED
  BY <1>1, <1>4, <1>5, <1>6 DEF CallInv

\* A step of one request that leaves the data alone.
LEMMA QuietStep ==
    ASSUME IInv, NEW s \in Session, NEW c, CallOK(c)', call' = [call EXCEPT ![s] = c],
           UNCHANGED <<data, runner>>, calls' \in 0..MaxCalls, calls <= calls',
           failed \subseteq failed',
           c.id = 0 \/ (c.id = call[s].id /\ (AtWork(c) => AtWork(call[s]))),
           call[s].at = "attach" => call[s].number \in failed'
    PROVE  IInv'
<1>1. DataType'
  BY DEF IInv, DataType, data
<1>2. CallInv'
  <2>1. Len(comments') \in Nat /\ Len(comments) <= Len(comments')
    BY DEF IInv, DataType, data
  <2>2. /\ mentions' = mentions /\ objects' = objects /\ bucket' = bucket
        /\ comments' = comments /\ sent' = sent
    BY DEF data
  <2>3. calls' \in Nat
    BY ConversationAssumption
  <2> QED
    BY <2>1, <2>2, <2>3, Move
<1>3. \A i \in 1..Len(comments') : Honest(i)'
  BY DEF IInv, Honest, data
<1>4. AttachmentsWhole'
  <2>1. \A t \in Session : t # s => call'[t] = call[t]
    BY DEF IInv, CallInv
  <2>2. ASSUME NEW key \in objects
        PROVE  \/ \E a \in attachments : a.key = key
               \/ key \in failed'
               \/ \E t \in Session : call'[t].at = "attach" /\ call'[t].number = key
    BY <2>1 DEF IInv, AttachmentsWhole
  <2> QED
    BY <2>2 DEF IInv, AttachmentsWhole, data
<1> QED
  BY <1>1, <1>2, <1>3, <1>4 DEF IInv

LEMMA AnswerParts ==
    ASSUME NEW status, NEW shown, NEW a, a = Answer(status, shown)
    PROVE  /\ Request(a) /\ a.at = "idle" /\ a.status = status /\ a.id = 0
           /\ a.number = calls + 1 /\ a.todo = <<>>
<1>1. PICK i : i = Idle
  OBVIOUS
<1>2. Request(i) /\ i.at = "idle" /\ i.id = 0 /\ i.todo = <<>>
  BY <1>1 DEF Idle, Request
<1>3. PICK b : b = [i EXCEPT !.status = status]
  OBVIOUS
<1>4. Request(b) /\ b.at = "idle" /\ b.id = 0 /\ b.todo = <<>> /\ b.status = status
  BY <1>2, <1>3 DEF Request
<1>5. PICK d : d = [b EXCEPT !.shown = shown]
  OBVIOUS
<1>6. Request(d) /\ d.at = "idle" /\ d.id = 0 /\ d.todo = <<>> /\ d.status = status
  BY <1>4, <1>5 DEF Request
<1>7. a = [d EXCEPT !.number = calls + 1]
  BY <1>1, <1>3, <1>5 DEF Answer
<1> QED
  BY <1>6, <1>7 DEF Request

\* A new request, counted.
LEMMA ReceiveFacts ==
    ASSUME IInv, NEW s \in Session, Receive(s)
    PROVE  /\ calls' = calls + 1 /\ calls' \in 0..MaxCalls /\ calls <= calls'
           /\ calls + 1 \in 1..calls'
           /\ UNCHANGED <<data, runner>> /\ failed' = failed
           /\ call[s].at = "idle" /\ Len(comments') \in Nat
BY ConversationAssumption DEF IInv, DataType, Receive, data

\* A request that is answered at once.
LEMMA AnswerStep ==
    ASSUME IInv, NEW s \in Session, Receive(s), NEW status \in Status, NEW shown,
           call' = [call EXCEPT ![s] = Answer(status, shown)]
    PROVE  IInv'
<1>1. PICK a : a = Answer(status, shown)
  OBVIOUS
<1>2. Request(a) /\ a.at = "idle" /\ a.status \in Status /\ a.id = 0
  BY <1>1, AnswerParts
<1>3. CallOK(a)'
  BY <1>2, ReceiveFacts, QuietCall
<1> QED
  BY <1>1, <1>2, <1>3, ReceiveFacts, QuietStep

--------------------------------------------------------------------------
(* Comments *)

LEMMA AddCommentKeeps ==
    ASSUME IInv, NEW s \in Session, add_comment(s)
    PROVE  IInv'
<1>1. PICK ticket \in Ticket \cup {0}, actor \in Actor, internal \in BOOLEAN,
           mentioned \in MentionList :
       call' = [call EXCEPT ![s] =
            IF Refusal(ticket, actor, internal, mentioned) # 0
            THEN Answer(Refusal(ticket, actor, internal, mentioned), {})
            ELSE [Answer(201, {}) EXCEPT !.at = "comment", !.ticket = ticket,
                    !.internal = internal, !.mentioned = mentioned]]
  BY DEF add_comment
<1>2. Receive(s)
  BY DEF add_comment
<1>3. CASE Refusal(ticket, actor, internal, mentioned) # 0
  <2> DEFINE refusal == Refusal(ticket, actor, internal, mentioned)
  <2>1. refusal \in Status
    BY DEF Refusal, Status
  <2>2. call' = [call EXCEPT ![s] = Answer(refusal, {})]
    BY <1>1, <1>3
  <2> HIDE DEF refusal
  <2> QED
    BY <1>2, <2>1, <2>2, AnswerStep
<1>4. CASE Refusal(ticket, actor, internal, mentioned) = 0
  <2>1. ticket \in Ticket /\ mentioned \in Seq(Active)
    <3>1. ticket \in Ticket /\ \A i \in DOMAIN mentioned : mentioned[i] \in Active
      BY <1>4 DEF Refusal, Missing
    <3> QED
      BY <3>1, ConversationAssumption
  <2>2. PICK a : a = Answer(201, {})
    OBVIOUS
  <2>3. Request(a) /\ a.status = 201 /\ a.id = 0 /\ a.number = calls + 1
    BY <2>2, AnswerParts
  <2>4. PICK b : b = [a EXCEPT !.at = "comment"]
    OBVIOUS
  <2>5. Request(b) /\ b.status = 201 /\ b.id = 0 /\ b.number = calls + 1 /\ b.at = "comment"
    BY <2>3, <2>4 DEF Request
  <2>6. PICK d : d = [b EXCEPT !.ticket = ticket]
    OBVIOUS
  <2>7. /\ Request(d) /\ d.status = 201 /\ d.id = 0 /\ d.number = calls + 1 /\ d.at = "comment"
        /\ d.ticket = ticket
    BY <2>5, <2>6 DEF Request
  <2>8. PICK e : e = [d EXCEPT !.internal = internal]
    OBVIOUS
  <2>9. /\ Request(e) /\ e.status = 201 /\ e.id = 0 /\ e.number = calls + 1 /\ e.at = "comment"
        /\ e.ticket = ticket /\ e.internal = internal
    BY <2>7, <2>8 DEF Request
  <2>10. PICK c : c = [e EXCEPT !.mentioned = mentioned]
    OBVIOUS
  <2>11. /\ Request(c) /\ c.status = 201 /\ c.id = 0 /\ c.number = calls + 1 /\ c.at = "comment"
         /\ c.ticket = ticket /\ c.internal = internal /\ c.mentioned = mentioned
    BY <2>9, <2>10 DEF Request
  <2>12. call' = [call EXCEPT ![s] = c]
    BY <1>1, <1>4, <2>2, <2>4, <2>6, <2>8, <2>10
  <2>13. CallOK(c)'
    BY <1>2, <2>1, <2>11, ReceiveFacts DEF CallOK, Place, Status, AtWork, Done, Request
  <2> QED
    BY <1>2, <2>11, <2>12, <2>13, ReceiveFacts, QuietStep
<1> QED
  BY <1>3, <1>4

LEMMA ReadCommentsKeeps ==
    ASSUME IInv, NEW s \in Session, read_comments(s)
    PROVE  IInv'
<1>1. PICK ticket \in Ticket \cup {0}, actor \in Actor :
       call' = [call EXCEPT ![s] =
         IF Missing(ticket, actor) THEN Answer(404, {})
         ELSE [Answer(200, {c \in DOMAIN comments : comments[c].ticket = ticket
                              /\ (actor = "staff" \/ ~comments[c].internal)})
                 EXCEPT !.at = "listing"]]
  BY DEF read_comments
<1>2. Receive(s)
  BY DEF read_comments
<1>3. CASE Missing(ticket, actor)
  <2>1. call' = [call EXCEPT ![s] = Answer(404, {})] /\ 404 \in Status
    BY <1>1, <1>3 DEF Status
  <2> QED
    BY <1>2, <2>1, AnswerStep
<1>4. CASE ~Missing(ticket, actor)
  <2> DEFINE seen == {c \in DOMAIN comments : comments[c].ticket = ticket
                              /\ (actor = "staff" \/ ~comments[c].internal)}
  <2>1. call' = [call EXCEPT ![s] = [Answer(200, seen) EXCEPT !.at = "listing"]]
    BY <1>1, <1>4
  <2> HIDE DEF seen
  <2>2. PICK a : a = Answer(200, seen)
    OBVIOUS
  <2>3. Request(a) /\ a.status = 200 /\ a.id = 0 /\ a.number = calls + 1
    BY <2>2, AnswerParts
  <2>4. PICK c : c = [a EXCEPT !.at = "listing"]
    OBVIOUS
  <2>5. Request(c) /\ c.status = 200 /\ c.id = 0 /\ c.number = calls + 1 /\ c.at = "listing"
    BY <2>3, <2>4 DEF Request
  <2>6. CallOK(c)'
    BY <1>2, <2>5, ReceiveFacts, QuietCall DEF Status
  <2> QED
    BY <1>2, <2>1, <2>2, <2>4, <2>5, <2>6, ReceiveFacts, QuietStep
<1> QED
  BY <1>3, <1>4

\* What a request in progress holds.
LEMMA CallParts ==
    ASSUME IInv, NEW s \in Session, NEW c, c = call[s]
    PROVE  /\ CallOK(c) /\ Request(c)
           /\ Len(comments) \in Nat /\ calls \in 0..MaxCalls /\ calls \in Nat
BY ConversationAssumption DEF IInv, CallInv, CallOK, DataType

\* A request ends without a 201 for a comment.
LEMMA EndStep ==
    ASSUME IInv, NEW s \in Session, NEW c, Request(c), c.at = "idle", c.id = call[s].id,
           c.status \in Status, ~Done(c),
           call' = [call EXCEPT ![s] = c], UNCHANGED <<data, runner, calls>>,
           failed \subseteq failed',
           call[s].at = "attach" => call[s].number \in failed'
    PROVE  IInv'
<1>1. c.id \in 0..Len(comments') /\ calls' \in 0..MaxCalls /\ calls <= calls'
  BY ConversationAssumption DEF IInv, DataType, CallInv, CallOK, data
<1>2. CallOK(c)'
  BY <1>1 DEF CallOK, Place, AtWork, Done, Request
<1> QED
  BY <1>1, <1>2, QuietStep DEF AtWork

LEMMA ListMentionsKeeps ==
    ASSUME IInv, NEW s \in Session, list_mentions(s)
    PROVE  IInv'
<1>1. PICK c : c = call[s]
  OBVIOUS
<1>2. CallOK(c) /\ Request(c) /\ c.at = "listing"
  BY <1>1, CallParts DEF list_mentions, Step
<1>3. PICK a : a = [c EXCEPT !.at = "idle"]
  OBVIOUS
<1>4. Request(a) /\ a.at = "idle" /\ a.id = c.id /\ a.status = c.status
  BY <1>2, <1>3 DEF Request
<1>5. PICK found : found = {m \in mentions : m[1] \in call[s].shown}
  OBVIOUS
<1>6. PICK b : b = [a EXCEPT !.users = found]
  OBVIOUS
<1>7. Request(b) /\ b.at = "idle" /\ b.id = c.id /\ b.status = c.status
  BY <1>4, <1>6 DEF Request
<1>8. call' = [call EXCEPT ![s] = b]
  BY <1>1, <1>3, <1>5, <1>6 DEF list_mentions, Step
<1>9. ~Done(b) /\ b.status \in Status
  BY <1>2, <1>7 DEF CallOK, Done
<1> QED
  BY <1>1, <1>2, <1>7, <1>8, <1>9, EndStep DEF list_mentions, Step

LEMMA RefuseMentionsKeeps ==
    ASSUME IInv, NEW s \in Session, RefuseMentions(s)
    PROVE  IInv'
<1>1. PICK c : c = call[s]
  OBVIOUS
<1>2. CallOK(c) /\ Request(c) /\ c.at = "mentions"
  BY <1>1, CallParts DEF RefuseMentions, Step
<1>3. PICK a : a = [c EXCEPT !.at = "idle"]
  OBVIOUS
<1>4. Request(a) /\ a.at = "idle" /\ a.id = c.id
  BY <1>2, <1>3 DEF Request
<1>5. PICK b : b = [a EXCEPT !.status = 500]
  OBVIOUS
<1>6. Request(b) /\ b.at = "idle" /\ b.id = c.id /\ b.status = 500
  BY <1>4, <1>5 DEF Request
<1>7. call' = [call EXCEPT ![s] = b]
  BY <1>1, <1>3, <1>5 DEF RefuseMentions, Step
<1>8. b.status \in Status /\ ~Done(b) /\ call[s].at # "attach" /\ b.id = call[s].id
  BY <1>1, <1>2, <1>6 DEF Status, Done
<1>9. UNCHANGED <<data, runner, calls>> /\ failed \subseteq failed'
  BY DEF RefuseMentions, Step
<1> QED
  BY <1>6, <1>7, <1>8, <1>9, EndStep

LEMMA FailKeeps ==
    ASSUME IInv, NEW s \in Session, Fail(s)
    PROVE  IInv'
<1>1. PICK c : c = call[s]
  OBVIOUS
<1>2. CallOK(c) /\ Request(c)
  BY <1>1, CallParts
<1>3. PICK a : a = [c EXCEPT !.at = "idle"]
  OBVIOUS
<1>4. Request(a) /\ a.at = "idle" /\ a.id = c.id
  BY <1>2, <1>3 DEF Request
<1>5. PICK b : b = [a EXCEPT !.status = 500]
  OBVIOUS
<1>6. Request(b) /\ b.at = "idle" /\ b.id = c.id /\ b.status = 500
  BY <1>4, <1>5 DEF Request
<1>7. call' = [call EXCEPT ![s] = b]
  BY <1>1, <1>3, <1>5 DEF Fail, IInv, CallInv
<1>8. b.status \in Status /\ ~Done(b) /\ b.id = call[s].id
  BY <1>1, <1>6 DEF Status, Done
<1>9. /\ UNCHANGED <<data, runner, calls>> /\ failed \subseteq failed'
      /\ call[s].number \in failed'
  BY DEF Fail
<1> QED
  BY <1>6, <1>7, <1>8, <1>9, EndStep

LEMMA CommitCommentKeeps ==
    ASSUME IInv, NEW s \in Session, CommitComment(s)
    PROVE  IInv'
<1>1. PICK c : c = call[s]
  OBVIOUS
<1>2. CallOK(c) /\ Request(c) /\ c.at = "comment" /\ Len(comments) \in Nat
  BY <1>1, CallParts DEF CommitComment, Step
<1>3. PICK a : a = [c EXCEPT !.at = "mentions"]
  OBVIOUS
<1>4. /\ Request(a) /\ a.at = "mentions" /\ a.status = c.status /\ a.number = c.number
      /\ a.internal = c.internal /\ a.mentioned = c.mentioned
  BY <1>2, <1>3 DEF Request
<1>5. PICK b : b = [a EXCEPT !.id = Len(comments) + 1]
  OBVIOUS
<1>6. /\ Request(b) /\ b.at = "mentions" /\ b.status = c.status /\ b.number = c.number
      /\ b.internal = c.internal /\ b.mentioned = c.mentioned /\ b.id = Len(comments) + 1
  BY <1>4, <1>5 DEF Request
<1> DEFINE row == [ticket |-> c.ticket, internal |-> c.internal]
<1>7. /\ call' = [call EXCEPT ![s] = b]
      /\ comments' = Append(comments, row) /\ sent' = Append(sent, <<>>)
      /\ UNCHANGED <<mentions, attachments, objects, bucket, runner, calls, failed>>
  BY <1>1, <1>3, <1>5 DEF CommitComment, Step
<1>8. row \in [ticket : Ticket, internal : BOOLEAN] /\ row.internal = c.internal
  BY <1>2 DEF CallOK
<1> HIDE DEF row
<1>9. /\ comments \in Seq([ticket : Ticket, internal : BOOLEAN])
      /\ sent \in Seq(Seq(Event)) /\ Len(sent) = Len(comments)
  BY DEF IInv, DataType
<1>10. /\ comments' \in Seq([ticket : Ticket, internal : BOOLEAN])
       /\ Len(comments') = Len(comments) + 1 /\ comments'[Len(comments) + 1] = row
       /\ \A i \in 1..Len(comments) : comments'[i] = comments[i]
  BY <1>7, <1>8, <1>9
<1>11. /\ sent' \in Seq(Seq(Event)) /\ Len(sent') = Len(comments')
       /\ sent'[Len(comments) + 1] = <<>>
       /\ \A i \in 1..Len(comments) : sent'[i] = sent[i]
  BY <1>2, <1>7, <1>9, <1>10
<1>12. DataType'
  BY <1>2, <1>7, <1>10, <1>11 DEF IInv, DataType
<1>13. CallOK(b)'
  BY <1>2, <1>6, <1>7, <1>8, <1>10, <1>11 DEF CallOK, Place, AtWork, Done, Request
<1>14. CallInv'
  <2>1. /\ Len(comments') \in Nat /\ Len(comments) <= Len(comments')
        /\ calls' \in Nat /\ calls <= calls' /\ b.id = Len(comments) + 1
    BY <1>1, <1>2, <1>6, <1>7, <1>10, CallParts
  <2> QED
    BY <1>7, <1>10, <1>11, <1>13, <2>1, Move
<1>15. ASSUME NEW i \in 1..Len(comments')
       PROVE  Honest(i)'
  <2>1. CASE i = Len(comments) + 1
    BY <1>11, <2>1 DEF Honest
  <2>2. CASE i \in 1..Len(comments)
    BY <1>7, <1>10, <1>11, <2>2 DEF IInv, Honest
  <2> QED
    BY <1>2, <1>10, <2>1, <2>2
<1>16. AttachmentsWhole'
  <2>1. \A t \in Session : t # s => call'[t] = call[t]
    BY <1>7 DEF IInv, CallInv
  <2>2. \A t \in Session : call[t].at = "attach" => t # s
    BY <1>1, <1>2
  <2> QED
    BY <1>7, <2>1, <2>2 DEF IInv, AttachmentsWhole
<1> QED
  BY <1>12, <1>14, <1>15, <1>16 DEF IInv

\* Events remain to be sent, or the request is answered.
LEMMA AnnouncingParts ==
    ASSUME NEW c, Request(c), NEW todo, NEW b, b = Announcing(c, todo)
    PROVE  /\ Request(b) /\ b.at = (IF todo = <<>> THEN "idle" ELSE "events") /\ b.todo = todo
           /\ b.number = c.number /\ b.status = c.status /\ b.id = c.id
           /\ b.internal = c.internal /\ b.mentioned = c.mentioned
<1>1. PICK at : at = IF todo = <<>> THEN "idle" ELSE "events"
  OBVIOUS
<1>2. PICK a : a = [c EXCEPT !.at = at]
  OBVIOUS
<1>3. /\ Request(a) /\ a.at = at
      /\ a.number = c.number /\ a.status = c.status /\ a.id = c.id
      /\ a.internal = c.internal /\ a.mentioned = c.mentioned
  BY <1>2 DEF Request
<1>4. b = [a EXCEPT !.todo = todo]
  BY <1>1, <1>2 DEF Announcing
<1> QED
  BY <1>1, <1>3, <1>4 DEF Request

\* Announcing goes on, or ends, with what was sent and stored in agreement.
LEMMA AnnouncingOK ==
    ASSUME NEW c, Request(c), c.status \in Status, c.id \in 1..Len(comments'), Len(comments') \in Nat,
           c.number \in 1..calls', c.internal \in BOOLEAN, c.mentioned \in Seq(Active),
           comments'[c.id].internal = c.internal,
           NEW todo, NEW b, b = Announcing(c, todo),
           Stored(b, mentions'), Progress(b, sent'[c.id])
    PROVE  CallOK(b)'
<1>1. /\ Request(b) /\ b.at = (IF todo = <<>> THEN "idle" ELSE "events") /\ b.todo = todo
      /\ b.number = c.number /\ b.status = c.status /\ b.id = c.id
      /\ b.internal = c.internal /\ b.mentioned = c.mentioned
  BY AnnouncingParts
<1>2. b.at \in {"idle", "events"} /\ (b.at = "events" <=> b.todo # <<>>)
  BY <1>1
<1> QED
  BY <1>1, <1>2 DEF CallOK, Place, AtWork, Done, Request

LEMMA CommitMentionsKeeps ==
    ASSUME IInv, NEW s \in Session, CommitMentions(s)
    PROVE  IInv'
<1>1. PICK c : c = call[s]
  OBVIOUS
<1>2. /\ CallOK(c) /\ Request(c) /\ c.at = "mentions" /\ Len(comments) \in Nat
      /\ ~Repeated(c.mentioned) /\ calls \in Nat
  BY <1>1, CallParts DEF CommitMentions, Step
<1>3. /\ c.internal \in BOOLEAN /\ c.mentioned \in Seq(Active) /\ c.id \in 1..Len(comments)
      /\ comments[c.id].internal = c.internal /\ sent[c.id] = <<>> /\ c.status \in Status
      /\ c.number \in 1..calls
  BY <1>2 DEF CallOK, AtWork
<1>4. PICK ev : ev = Events(c.internal, c.mentioned)
  OBVIOUS
<1>5. ev \in Seq(Event)
  BY <1>2, <1>3, <1>4, EventsFacts
<1>6. PICK b : b = Announcing(c, ev)
  OBVIOUS
<1>7. /\ Request(b) /\ b.at \in {"idle", "events"} /\ b.todo = ev /\ b.id = c.id
      /\ b.internal = c.internal /\ b.mentioned = c.mentioned
  BY <1>2, <1>6, AnnouncingParts
<1> DEFINE pairs == {<<c.id, c.mentioned[i]>> : i \in DOMAIN c.mentioned}
<1>8. /\ call' = [call EXCEPT ![s] = b] /\ mentions' = mentions \cup pairs
      /\ UNCHANGED <<comments, sent, attachments, objects, bucket, runner, calls, failed>>
  BY <1>1, <1>4, <1>6 DEF CommitMentions, Step
<1>9. pairs \subseteq (1..Len(comments)) \X Active
  BY <1>3
<1>10. \A i \in DOMAIN c.mentioned : <<c.id, c.mentioned[i]>> \in pairs
  OBVIOUS
<1> HIDE DEF pairs
<1>11. DataType'
  BY <1>8, <1>9 DEF IInv, DataType
<1>12. CallInv'
  <2>1. Stored(b, mentions')
    BY <1>2, <1>7, <1>8, <1>10 DEF Stored
  <2>2. Progress(b, sent'[c.id])
    <3>1. sent'[c.id] = <<>> /\ Len(<<>>) = 0
      BY <1>3, <1>8
    <3>2. Len(ev) \in Nat /\ \A i \in 1..Len(ev) : ev[i] = ev[0 + i]
      BY <1>5
    <3>3. Events(b.internal, b.mentioned) = ev
      BY <1>4, <1>7
    <3> QED
      BY <1>5, <1>7, <3>1, <3>2, <3>3 DEF Progress
  <2>3. /\ c.id \in 1..Len(comments') /\ Len(comments') \in Nat /\ c.number \in 1..calls'
        /\ comments'[c.id].internal = c.internal
    BY <1>2, <1>3, <1>8
  <2>4. CallOK(b)'
    BY <1>2, <1>3, <1>6, <2>1, <2>2, <2>3, AnnouncingOK
  <2>5. AtWork(call[s]) /\ b.id = call[s].id
    BY <1>1, <1>2, <1>7 DEF AtWork
  <2>6. /\ mentions \subseteq mentions' /\ objects \subseteq objects' /\ (bucket => bucket')
        /\ Len(comments') \in Nat /\ Len(comments) <= Len(comments')
        /\ calls' \in Nat /\ calls <= calls'
        /\ \A i \in 1..Len(comments) : comments'[i] = comments[i] /\ sent'[i] = sent[i]
    BY <1>2, <1>8
  <2>7. call' = [call EXCEPT ![s] = b]
    BY <1>8
  <2> QED
    BY <2>4, <2>5, <2>6, <2>7, Move
<1>13. \A i \in 1..Len(comments') : Honest(i)'
  BY <1>8 DEF IInv, Honest
<1>14. AttachmentsWhole'
  <2>1. \A t \in Session : t # s => call'[t] = call[t]
    BY <1>8 DEF IInv, CallInv
  <2>2. \A t \in Session : call[t].at = "attach" => t # s
    BY <1>1, <1>2
  <2> QED
    BY <1>8, <2>1, <2>2 DEF IInv, AttachmentsWhole
<1> QED
  BY <1>11, <1>12, <1>13, <1>14 DEF IInv

\* One more event of a comment: it is the next one to be told.
LEMMA SendFacts ==
    ASSUME NEW list \in Seq(Event), NEW todo \in Seq(Event), todo # <<>>,
           NEW ev \in Seq(Event), Len(list) + Len(todo) = Len(ev),
           \A i \in 1..Len(list) : list[i] = ev[i],
           \A i \in 1..Len(todo) : todo[i] = ev[Len(list) + i],
           NEW more, more = Append(list, Head(todo))
    PROVE  /\ more \in Seq(Event) /\ Tail(todo) \in Seq(Event)
           /\ Len(more) + Len(Tail(todo)) = Len(ev) /\ Len(more) <= Len(ev)
           /\ \A i \in 1..Len(more) : more[i] = ev[i]
           /\ \A i \in 1..Len(Tail(todo)) : Tail(todo)[i] = ev[Len(more) + i]
<1>1. Len(list) \in Nat /\ Len(todo) \in Nat /\ Len(todo) > 0 /\ Len(ev) \in Nat
  OBVIOUS
<1>2. /\ Head(todo) = todo[1] /\ Head(todo) \in Event
      /\ Tail(todo) \in Seq(Event) /\ Len(Tail(todo)) = Len(todo) - 1
      /\ \A i \in 1..Len(Tail(todo)) : Tail(todo)[i] = todo[i + 1]
  BY <1>1
<1>3. /\ more \in Seq(Event) /\ Len(more) = Len(list) + 1 /\ more[Len(list) + 1] = Head(todo)
      /\ \A i \in 1..Len(list) : more[i] = list[i]
  BY <1>2
<1>4. Head(todo) = ev[Len(list) + 1]
  BY <1>1, <1>2
<1>5. ASSUME NEW i \in 1..Len(more) PROVE more[i] = ev[i]
  <2>1. i \in 1..Len(list) \/ i = Len(list) + 1
    BY <1>1, <1>3
  <2> QED
    BY <1>3, <1>4, <2>1
<1>6. ASSUME NEW i \in 1..Len(Tail(todo)) PROVE Tail(todo)[i] = ev[Len(more) + i]
  <2>1. i + 1 \in 1..Len(todo) /\ Len(list) + (i + 1) = Len(more) + i
    BY <1>1, <1>2, <1>3
  <2> QED
    BY <1>2, <2>1
<1>7. Len(more) + Len(Tail(todo)) = Len(ev) /\ Len(more) <= Len(ev)
  BY <1>1, <1>2, <1>3
<1> QED
  BY <1>2, <1>3, <1>5, <1>6, <1>7

LEMMA DispatchKeeps ==
    ASSUME IInv, NEW s \in Session, dispatch_event(s)
    PROVE  IInv'
<1>1. PICK c : c = call[s]
  OBVIOUS
<1>2. /\ CallOK(c) /\ Request(c) /\ c.at = "events" /\ Len(comments) \in Nat /\ calls \in Nat
  BY <1>1, CallParts DEF dispatch_event, Step
<1>3. /\ c.internal \in BOOLEAN /\ c.mentioned \in Seq(Active) /\ c.id \in 1..Len(comments)
      /\ comments[c.id].internal = c.internal /\ c.status \in Status /\ c.number \in 1..calls
      /\ Stored(c, mentions) /\ Progress(c, sent[c.id]) /\ c.todo # <<>>
  BY <1>2 DEF CallOK, AtWork
<1>4. PICK ev : ev = Events(c.internal, c.mentioned)
  OBVIOUS
<1>5. /\ ev \in Seq(Event)
      /\ \A i, j \in 1..Len(ev) : ev[i] = ev[j] => i = j
      /\ \A i \in 1..Len(ev) : ev[i] = Created => ~c.internal
      /\ \A i \in 1..Len(ev) : \A user : ev[i] = Mentioned(user) =>
            \E k \in DOMAIN c.mentioned : c.mentioned[k] = user
  <2>1. ~Repeated(c.mentioned)
    BY <1>3 DEF Stored
  <2>2. c.internal \in BOOLEAN /\ c.mentioned \in Seq(Active)
    BY <1>3
  <2> QED
    BY <1>4, <2>1, <2>2, EventsFacts
<1>6. sent \in Seq(Seq(Event)) /\ Len(sent) = Len(comments) /\ sent[c.id] \in Seq(Event)
  BY <1>3 DEF IInv, DataType
<1>7. PICK more : more = Append(sent[c.id], Head(c.todo))
  OBVIOUS
<1>8. /\ more \in Seq(Event) /\ Tail(c.todo) \in Seq(Event)
      /\ Len(more) + Len(Tail(c.todo)) = Len(ev) /\ Len(more) <= Len(ev)
      /\ \A i \in 1..Len(more) : more[i] = ev[i]
      /\ \A i \in 1..Len(Tail(c.todo)) : Tail(c.todo)[i] = ev[Len(more) + i]
  <2>1. PICK list : list = sent[c.id]
    OBVIOUS
  <2>2. PICK todo : todo = c.todo
    OBVIOUS
  <2>3. /\ todo \in Seq(Event) /\ Len(list) + Len(todo) = Len(ev)
        /\ \A i \in 1..Len(list) : list[i] = ev[i]
        /\ \A i \in 1..Len(todo) : todo[i] = ev[Len(list) + i]
    BY <1>3, <1>4, <2>1, <2>2 DEF Progress
  <2>4. list \in Seq(Event) /\ ev \in Seq(Event) /\ todo # <<>> /\ more = Append(list, Head(todo))
    BY <1>3, <1>5, <1>6, <1>7, <2>1, <2>2
  <2>5. /\ more \in Seq(Event) /\ Tail(todo) \in Seq(Event)
        /\ Len(more) + Len(Tail(todo)) = Len(ev) /\ Len(more) <= Len(ev)
        /\ \A i \in 1..Len(more) : more[i] = ev[i]
        /\ \A i \in 1..Len(Tail(todo)) : Tail(todo)[i] = ev[Len(more) + i]
    BY <2>3, <2>4, SendFacts
  <2> QED
    BY <2>2, <2>5
<1>9. PICK b : b = Announcing(c, Tail(c.todo))
  OBVIOUS
<1>10. /\ Request(b) /\ b.at \in {"idle", "events"} /\ b.todo = Tail(c.todo) /\ b.id = c.id
       /\ b.internal = c.internal /\ b.mentioned = c.mentioned
  BY <1>2, <1>9, AnnouncingParts
<1>11. /\ call' = [call EXCEPT ![s] = b] /\ sent' = [sent EXCEPT ![c.id] = more]
       /\ UNCHANGED <<comments, mentions, attachments, objects, bucket, runner, calls, failed>>
  BY <1>1, <1>7, <1>9 DEF dispatch_event, Step
<1>12. /\ sent' \in Seq(Seq(Event)) /\ Len(sent') = Len(comments') /\ sent'[c.id] = more
       /\ \A i \in 1..Len(comments) : i # c.id => sent'[i] = sent[i]
  BY <1>2, <1>3, <1>6, <1>8, <1>11
<1>13. DataType'
  BY <1>11, <1>12 DEF IInv, DataType
<1>14. CallInv'
  <2>1. Stored(b, mentions')
    BY <1>3, <1>10, <1>11 DEF Stored
  <2>2. Progress(b, sent'[c.id])
    <3>1. Events(b.internal, b.mentioned) = ev
      BY <1>4, <1>10
    <3> QED
      BY <1>8, <1>10, <1>12, <3>1 DEF Progress
  <2>3. /\ c.id \in 1..Len(comments') /\ Len(comments') \in Nat /\ c.number \in 1..calls'
        /\ comments'[c.id].internal = c.internal
    BY <1>2, <1>3, <1>11
  <2>4. CallOK(b)'
    BY <1>2, <1>3, <1>9, <2>1, <2>2, <2>3, AnnouncingOK
  <2>5. AtWork(call[s]) /\ b.id = call[s].id
    BY <1>1, <1>2, <1>10 DEF AtWork
  <2>6. /\ mentions \subseteq mentions' /\ objects \subseteq objects' /\ (bucket => bucket')
        /\ Len(comments') \in Nat /\ Len(comments) <= Len(comments')
        /\ calls' \in Nat /\ calls <= calls'
        /\ \A i \in 1..Len(comments) : /\ comments'[i] = comments[i]
                                       /\ sent'[i] = sent[i] \/ (AtWork(call[s]) /\ i = call[s].id)
    BY <1>1, <1>2, <1>11, <1>12, <2>5
  <2>7. call' = [call EXCEPT ![s] = b]
    BY <1>11
  <2> QED
    BY <2>4, <2>5, <2>6, <2>7, Move
<1>15. ASSUME NEW i \in 1..Len(comments')
       PROVE  Honest(i)'
  <2>1. CASE i # c.id
    BY <1>11, <1>12, <2>1 DEF IInv, Honest
  <2>2. CASE i = c.id
    <3>1. sent'[i] = more /\ comments'[i].internal = c.internal /\ mentions' = mentions
      BY <1>3, <1>11, <1>12, <2>2
    <3>2. \A j \in 1..Len(more) : j \in 1..Len(ev)
      BY <1>5, <1>8
    <3>3. ASSUME NEW j \in 1..Len(more), NEW user \in User, more[j] = Mentioned(user)
          PROVE  <<i, user>> \in mentions
      <4>1. j \in 1..Len(ev) /\ ev[j] = Mentioned(user)
        BY <1>8, <3>2, <3>3
      <4>2. PICK k \in DOMAIN c.mentioned : c.mentioned[k] = user
        BY <1>5, <4>1
      <4> QED
        BY <1>3, <2>2, <4>2 DEF Stored
    <3>4. \A j, k \in 1..Len(more) : more[j] = more[k] => j = k
      BY <1>5, <1>8, <3>2
    <3>5. \A j \in 1..Len(more) : more[j] = Created => ~c.internal
      BY <1>5, <1>8, <3>2
    <3> QED
      BY <3>1, <3>3, <3>4, <3>5 DEF Honest
  <2> QED
    BY <2>1, <2>2
<1>16. AttachmentsWhole'
  <2>1. \A t \in Session : t # s => call'[t] = call[t]
    BY <1>11 DEF IInv, CallInv
  <2>2. \A t \in Session : call[t].at = "attach" => t # s
    BY <1>1, <1>2
  <2> QED
    BY <1>11, <2>1, <2>2 DEF IInv, AttachmentsWhole
<1> QED
  BY <1>13, <1>14, <1>15, <1>16 DEF IInv

--------------------------------------------------------------------------
(* Attachments and the bucket *)

LEMMA AddAttachmentKeeps ==
    ASSUME IInv, NEW s \in Session, add_attachment(s)
    PROVE  IInv'
<1>1. PICK ticket \in Ticket \cup {0}, allowed \in BOOLEAN, fits \in BOOLEAN :
       call' = [call EXCEPT ![s] =
         IF ticket \notin Ticket THEN Answer(404, {})
         ELSE IF ~(allowed /\ fits) THEN Answer(422, {})
         ELSE [Answer(201, {}) EXCEPT !.at = "upload", !.ticket = ticket]]
  BY DEF add_attachment
<1>2. Receive(s)
  BY DEF add_attachment
<1>3. CASE ticket \notin Ticket
  <2>1. call' = [call EXCEPT ![s] = Answer(404, {})] /\ 404 \in Status
    BY <1>1, <1>3 DEF Status
  <2> QED
    BY <1>2, <2>1, AnswerStep
<1>4. CASE ticket \in Ticket /\ ~(allowed /\ fits)
  <2>1. call' = [call EXCEPT ![s] = Answer(422, {})] /\ 422 \in Status
    BY <1>1, <1>4 DEF Status
  <2> QED
    BY <1>2, <2>1, AnswerStep
<1>5. CASE ticket \in Ticket /\ allowed /\ fits
  <2>1. PICK a : a = Answer(201, {})
    OBVIOUS
  <2>2. Request(a) /\ a.status = 201 /\ a.id = 0 /\ a.number = calls + 1
    BY <2>1, AnswerParts
  <2>3. PICK b : b = [a EXCEPT !.at = "upload"]
    OBVIOUS
  <2>4. Request(b) /\ b.status = 201 /\ b.id = 0 /\ b.number = calls + 1 /\ b.at = "upload"
    BY <2>2, <2>3 DEF Request
  <2>5. PICK c : c = [b EXCEPT !.ticket = ticket]
    OBVIOUS
  <2>6. /\ Request(c) /\ c.status = 201 /\ c.id = 0 /\ c.number = calls + 1 /\ c.at = "upload"
        /\ c.ticket = ticket
    BY <2>4, <2>5 DEF Request
  <2>7. call' = [call EXCEPT ![s] = c]
    BY <1>1, <1>5, <2>1, <2>3, <2>5
  <2>8. CallOK(c)'
    BY <1>2, <1>5, <2>6, ReceiveFacts DEF CallOK, Place, Status, AtWork, Done, Request
  <2> QED
    BY <1>2, <2>6, <2>7, <2>8, ReceiveFacts, QuietStep
<1> QED
  BY <1>3, <1>4, <1>5

\* An upload has its object, or has nothing: a step of it touches neither comments nor events.
LEMMA AttachStep ==
    ASSUME IInv, NEW s \in Session, NEW c, CallOK(c)', call' = [call EXCEPT ![s] = c],
           c.id = 0, objects \subseteq objects', bucket' = bucket, DataType', AttachmentsWhole',
           UNCHANGED <<comments, mentions, sent, runner, calls, failed>>
    PROVE  IInv'
<1>1. /\ Len(comments') \in Nat /\ Len(comments) <= Len(comments')
      /\ calls' \in Nat /\ calls <= calls'
  BY ConversationAssumption DEF IInv, DataType
<1>2. CallInv'
  BY <1>1, Move
<1>3. \A i \in 1..Len(comments') : Honest(i)'
  BY DEF IInv, Honest
<1> QED
  BY <1>2, <1>3 DEF IInv

LEMMA PutObjectKeeps ==
    ASSUME IInv, NEW s \in Session, put_object(s)
    PROVE  IInv'
<1>1. PICK c : c = call[s]
  OBVIOUS
<1>2. CallOK(c) /\ Request(c) /\ c.at = "upload" /\ calls \in 0..MaxCalls
  BY <1>1, CallParts DEF put_object, Step
<1>3. c.id = 0 /\ c.ticket \in Ticket /\ c.number \in 1..MaxCalls
  BY <1>2, ConversationAssumption DEF CallOK
<1>4. PICK b : b = [c EXCEPT !.at = "attach"]
  OBVIOUS
<1>5. /\ Request(b) /\ b.at = "attach" /\ b.id = 0 /\ b.number = c.number
      /\ b.ticket = c.ticket /\ b.status = c.status
  BY <1>2, <1>3, <1>4 DEF Request
<1>6. /\ call' = [call EXCEPT ![s] = b] /\ objects' = objects \cup {c.number} /\ bucket
      /\ UNCHANGED <<comments, mentions, sent, attachments, bucket, runner, calls, failed>>
  BY <1>1, <1>4 DEF put_object, Step
<1>7. DataType'
  BY <1>3, <1>6 DEF IInv, DataType
<1>8. CallOK(b)'
  BY <1>2, <1>5, <1>6 DEF CallOK, Place, AtWork, Done, Request
<1>9. AttachmentsWhole'
  <2>1. call'[s] = b /\ \A t \in Session : t # s => call'[t] = call[t]
    BY <1>6 DEF IInv, CallInv
  <2>2. \A t \in Session : call[t].at = "attach" => t # s
    BY <1>1, <1>2
  <2>3. ASSUME NEW key \in objects'
        PROVE  \/ \E a \in attachments : a.key = key
               \/ key \in failed
               \/ \E t \in Session : call'[t].at = "attach" /\ call'[t].number = key
    <3>1. CASE key \in objects
      BY <2>1, <2>2, <3>1 DEF IInv, AttachmentsWhole
    <3>2. CASE key = c.number
      BY <1>5, <2>1, <3>2
    <3> QED
      BY <1>6, <3>1, <3>2
  <2>4. \A a \in attachments : bucket /\ a.key \in objects'
    BY <1>6 DEF IInv, AttachmentsWhole
  <2> QED
    BY <1>6, <2>3, <2>4 DEF AttachmentsWhole
<1> QED
  BY <1>5, <1>6, <1>7, <1>8, <1>9, AttachStep

LEMMA CommitAttachmentKeeps ==
    ASSUME IInv, NEW s \in Session, CommitAttachment(s)
    PROVE  IInv'
<1>1. PICK c : c = call[s]
  OBVIOUS
<1>2. CallOK(c) /\ Request(c) /\ c.at = "attach" /\ calls \in 0..MaxCalls
  BY <1>1, CallParts DEF CommitAttachment, Step
<1>3. /\ c.id = 0 /\ c.ticket \in Ticket /\ c.number \in 1..MaxCalls
      /\ bucket /\ c.number \in objects /\ c.status \in Status /\ Len(comments) \in Nat
  BY <1>1, <1>2, CallParts, ConversationAssumption DEF CallOK
<1>4. PICK b : b = [c EXCEPT !.at = "idle"]
  OBVIOUS
<1>5. Request(b) /\ b.at = "idle" /\ b.id = 0 /\ b.status = c.status
  BY <1>2, <1>3, <1>4 DEF Request
<1> DEFINE row == [key |-> c.number, ticket |-> c.ticket]
<1>6. /\ call' = [call EXCEPT ![s] = b] /\ attachments' = attachments \cup {row}
      /\ UNCHANGED <<comments, mentions, sent, objects, bucket, runner, calls, failed>>
  BY <1>1, <1>4 DEF CommitAttachment, Step
<1>7. row \in [key : 1..MaxCalls, ticket : Ticket] /\ row.key = c.number
  BY <1>3
<1> HIDE DEF row
<1>8. DataType'
  BY <1>6, <1>7 DEF IInv, DataType
<1>9. CallOK(b)'
  BY <1>3, <1>5, <1>6, QuietCall
<1>10. AttachmentsWhole'
  <2>1. \A t \in Session : t # s => call'[t] = call[t]
    BY <1>6 DEF IInv, CallInv
  <2>2. ASSUME NEW key \in objects
        PROVE  \/ \E a \in attachments' : a.key = key
               \/ key \in failed
               \/ \E t \in Session : call'[t].at = "attach" /\ call'[t].number = key
    <3>1. CASE key = c.number
      BY <1>6, <1>7, <3>1
    <3>2. CASE key # c.number
      BY <1>1, <1>6, <2>1, <3>2 DEF IInv, AttachmentsWhole
    <3> QED
      BY <3>1, <3>2
  <2>3. \A a \in attachments' : bucket /\ a.key \in objects
    BY <1>3, <1>6, <1>7 DEF IInv, AttachmentsWhole
  <2> QED
    BY <1>6, <2>2, <2>3 DEF AttachmentsWhole
<1> QED
  BY <1>5, <1>6, <1>8, <1>9, <1>10, AttachStep

LEMMA ReadAttachmentsKeeps ==
    ASSUME IInv, NEW s \in Session, read_attachments(s)
    PROVE  IInv'
<1>1. PICK ticket \in Ticket \cup {0}, actor \in Actor :
       call' = [call EXCEPT ![s] =
         IF Missing(ticket, actor) THEN Answer(500, {})
         ELSE Answer(200, {a.key : a \in {b \in attachments : b.ticket = ticket}})]
  BY DEF read_attachments
<1>2. Receive(s)
  BY DEF read_attachments
<1> DEFINE keys == {a.key : a \in {b \in attachments : b.ticket = ticket}}
<1>3. \E status \in Status : \E shown : call' = [call EXCEPT ![s] = Answer(status, shown)]
  <2>1. 200 \in Status /\ 500 \in Status
    BY DEF Status
  <2>2. \/ call' = [call EXCEPT ![s] = Answer(500, {})]
        \/ call' = [call EXCEPT ![s] = Answer(200, keys)]
    BY <1>1
  <2> HIDE DEF keys
  <2> QED
    BY <2>1, <2>2
<1> QED
  BY <1>2, <1>3, AnswerStep

LEMMA DownloadKeeps ==
    ASSUME IInv, NEW s \in Session, download_attachment(s)
    PROVE  IInv'
<1>1. PICK ticket \in Ticket \cup {0}, actor \in Actor, key \in 0..calls :
       call' = [call EXCEPT ![s] =
         IF Missing(ticket, actor) THEN Answer(500, {})
         ELSE IF \E a \in attachments : a.key = key THEN Answer(200, {key})
         ELSE Answer(404, {})]
  BY DEF download_attachment
<1>2. Receive(s)
  BY DEF download_attachment
<1>3. \E status \in Status : \E shown : call' = [call EXCEPT ![s] = Answer(status, shown)]
  <2>1. 200 \in Status /\ 404 \in Status /\ 500 \in Status
    BY DEF Status
  <2>2. \/ call' = [call EXCEPT ![s] = Answer(500, {})]
        \/ call' = [call EXCEPT ![s] = Answer(200, {key})]
        \/ call' = [call EXCEPT ![s] = Answer(404, {})]
    BY <1>1
  <2> QED
    BY <2>1, <2>2
<1> QED
  BY <1>2, <1>3, AnswerStep

\* The processes that look after the bucket disturb no request.
LEMMA RunnerKeeps ==
    ASSUME IInv, NEW r \in Runner, bucket_exists(r) \/ make_bucket(r)
    PROVE  IInv'
<1>1. /\ UNCHANGED <<comments, mentions, sent, attachments, objects, call, calls, failed>>
      /\ (bucket => bucket') /\ bucket' \in BOOLEAN
      /\ runner' \in [Runner -> {"start", "make", "ready"}]
  BY DEF bucket_exists, make_bucket, data, IInv, DataType
<1>2. DataType'
  BY <1>1 DEF IInv, DataType
<1>3. \A s \in Session : CallOK(call[s])'
  BY <1>1 DEF IInv, CallInv, CallOK
<1>4. CallInv'
  BY <1>1, <1>3 DEF IInv, CallInv, Apart
<1>5. \A c \in 1..Len(comments') : Honest(c)'
  BY <1>1 DEF IInv, Honest
<1>6. AttachmentsWhole'
  BY <1>1 DEF IInv, AttachmentsWhole
<1> QED
  BY <1>2, <1>4, <1>5, <1>6 DEF IInv

--------------------------------------------------------------------------
(* The invariant *)

LEMMA InitInv == Init => IInv
<1> SUFFICES ASSUME Init PROVE IInv
  OBVIOUS
<1>1. DataType
  <2>1. /\ comments \in Seq([ticket : Ticket, internal : BOOLEAN]) /\ Len(comments) = 0
        /\ sent \in Seq(Seq(Event)) /\ Len(sent) = 0
    BY DEF Init
  <2>2. calls \in 0..MaxCalls /\ bucket \in BOOLEAN
    <3>1. MaxCalls \in Nat
      BY ConversationAssumption
    <3>2. calls = 0 /\ bucket = FALSE
      BY DEF Init
    <3>3. calls \in 0..MaxCalls
      BY <3>1, <3>2
    <3> QED
      BY <3>2, <3>3
  <2>3. runner \in [Runner -> {"start", "make", "ready"}]
    BY DEF Init
  <2> QED
    BY <2>1, <2>2, <2>3 DEF Init, DataType
<1>2. CallOK(Idle)
  <2>1. PICK i : i = Idle
    OBVIOUS
  <2>2. Request(i) /\ i.at = "idle" /\ i.id = 0 /\ i.status = 0
    BY <2>1 DEF Idle, Request
  <2>3. Len(comments) \in Nat
    BY DEF Init
  <2> QED
    BY <2>1, <2>2, <2>3 DEF CallOK, Place, Status, AtWork, Done
<1>3. Idle.at = "idle" /\ Idle.id = 0
  BY DEF Idle
<1>4. CallInv
  BY <1>2, <1>3 DEF Init, CallInv, Apart, AtWork
<1>5. \A c \in 1..Len(comments) : Honest(c)
  BY DEF Init
<1>6. AttachmentsWhole
  BY DEF Init, AttachmentsWhole
<1> QED
  BY <1>1, <1>4, <1>5, <1>6 DEF IInv

LEMMA NextInv == IInv /\ [Next]_vars => IInv'
<1> SUFFICES ASSUME IInv, [Next]_vars PROVE IInv'
  OBVIOUS
<1>1. CASE UNCHANGED vars
  <2>1. UNCHANGED <<comments, mentions, sent, attachments, objects, bucket, runner, call, calls, failed>>
    BY <1>1 DEF vars, data
  <2>2. \A s \in Session : CallOK(call[s])'
    BY <2>1 DEF IInv, CallInv, CallOK
  <2>3. CallInv'
    BY <2>1, <2>2 DEF IInv, CallInv, Apart
  <2> QED
    BY <2>1, <2>3 DEF IInv, DataType, Honest, AttachmentsWhole
<1>2. ASSUME NEW s \in Session, Comment(s)
      PROVE  IInv'
  BY <1>2, AddCommentKeeps, CommitCommentKeeps, CommitMentionsKeeps, RefuseMentionsKeeps,
     DispatchKeeps, ReadCommentsKeeps, ListMentionsKeeps DEF Comment
<1>3. ASSUME NEW s \in Session, Attach(s)
      PROVE  IInv'
  BY <1>3, AddAttachmentKeeps, PutObjectKeeps, CommitAttachmentKeeps, ReadAttachmentsKeeps,
     DownloadKeeps DEF Attach
<1> QED
  BY <1>1, <1>2, <1>3, FailKeeps, RunnerKeeps DEF Next

--------------------------------------------------------------------------
(* Theorems *)

\* What every request at work has sent and stored is the beginning of what is to be told.
THEOREM InductiveInvariant == Spec => []IInv
BY InitInv, NextInv, PTL DEF Spec

\* Rows, objects and requests keep their types.
THEOREM TypeCorrect == Spec => []TypeOK
BY InvTypes, InductiveInvariant, PTL

\* For every list of mentions, every interleaving and every failure: what create_comment
\* announces is stored, is said once and keeps internal comments inside, and a 201 means
\* that the comment, all its mentions and all its events are out.
THEOREM AnnouncedAlwaysExactly == Spec => []AnnouncedExactly
BY InvAnnounced, InductiveInvariant, PTL

\* Wherever upload_attachment is cut off, a row has its object, and an object without a
\* row is one of an upload under way or of a request that failed.
THEOREM AttachmentsAlwaysWhole == Spec => []AttachmentsWhole
<1>1. IInv => AttachmentsWhole
  BY DEF IInv
<1> QED
  BY <1>1, InductiveInvariant, PTL
=============================================================================
