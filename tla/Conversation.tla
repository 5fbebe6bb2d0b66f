---------------------------- MODULE Conversation ----------------------------
(***************************************************************************)
(* Comments, mentions and attachments of a ticket.  A comment takes two    *)
(* commits, one for its row and one for its mentions, and then one event   *)
(* after another; an attachment is put into the object store before its    *)
(* row is committed.  A request can fail between any two of these steps:   *)
(* the database, the broker or the store does not answer, or the process   *)
(* dies.  Whatever it did until then stays.                                *)
(*                                                                         *)
(* The bucket of the object store is not made by the API but by a script,  *)
(* run once per deployment, or twice at the same time.                     *)
(***************************************************************************)
EXTENDS Integers, Sequences, FiniteSets

CONSTANTS Session,     \* request handlers that run at the same time
          Runner,      \* processes that run the create_bucket script
          Ticket,
          User, Active,   \* the users, and those that are active
          MentionList,    \* inputs: sequences of users to mention
          MaxCalls     \* bound: requests in a behaviour

VARIABLES comments,     \* rows of ticketcomment, by id; never deleted
          mentions,     \* rows of commentmention: pairs of comment and user
          sent,         \* comment -> the events that reached the broker, in order
          attachments,  \* rows of ticketattachment: [key, ticket]
          objects,      \* keys stored in the bucket
          bucket,       \* the bucket exists
          runner,       \* runner -> its place in ensure_bucket
          call,         \* session -> its request
          calls,        \* requests so far (bounded by MaxCalls)
          failed        \* ghost: requests that were cut off

data == <<comments, mentions, sent, attachments, objects, bucket>>
vars == <<data, runner, call, calls, failed>>

ASSUME ConversationAssumption ==
  Active \subseteq User /\ MentionList \subseteq Seq(User \cup {0}) /\ MaxCalls \in Nat

\* Who asks: staff, the requester of the tickets, or another requester.
Actor == {"staff", "owner", "other"}

\* _check_ticket_visibility: a ticket of somebody else does not exist.
Missing(ticket, actor) == ticket \notin Ticket \/ actor = "other"

Idle == [at |-> "idle", number |-> 0, status |-> 0, id |-> 0, ticket |-> 0,
         internal |-> FALSE, mentioned |-> <<>>, todo |-> <<>>, shown |-> {},
         users |-> {}]

Answer(status, shown) == [Idle EXCEPT !.status = status, !.shown = shown, !.number = calls + 1]

Init ==
  /\ comments = <<>> /\ mentions = {} /\ sent = <<>>
  /\ attachments = {} /\ objects = {} /\ bucket = FALSE
  /\ runner = [r \in Runner |-> "start"]
  /\ call = [s \in Session |-> Idle] /\ calls = 0 /\ failed = {}

Receive(s) ==
  /\ call[s].at = "idle" /\ calls < MaxCalls
  /\ calls' = calls + 1
  /\ UNCHANGED <<data, runner, failed>>

Step(s, from, next) ==
  /\ call[s].at = from
  /\ call' = [call EXCEPT ![s] = next]
  /\ UNCHANGED <<runner, calls, failed>>

(***************************************************************************)
(* Comments and mentions.                                                  *)
(***************************************************************************)
\* Fault: only looks whether the mentioned users exist.
RefusalOfUnknown(ticket, actor, internal, mentioned) ==
  IF Missing(ticket, actor) THEN 404
  ELSE IF internal /\ actor # "staff" THEN 403
  ELSE IF \E i \in DOMAIN mentioned : mentioned[i] \notin User THEN 422
  ELSE 0

\* create_comment up to its first commit: permission, then every mention.
Refusal(ticket, actor, internal, mentioned) ==
  IF Missing(ticket, actor) THEN 404
  ELSE IF internal /\ actor # "staff" THEN 403
  ELSE IF \E i \in DOMAIN mentioned : mentioned[i] \notin Active THEN 422
  ELSE 0

add_comment(s) ==
  /\ Receive(s)
  /\ \E ticket \in Ticket \cup {0}, actor \in Actor, internal \in BOOLEAN,
        mentioned \in MentionList :
       LET refusal == Refusal(ticket, actor, internal, mentioned)
       IN call' = [call EXCEPT ![s] =
            IF refusal # 0 THEN Answer(refusal, {})
            ELSE [Answer(201, {}) EXCEPT !.at = "comment", !.ticket = ticket,
                    !.internal = internal, !.mentioned = mentioned]]

CommitComment(s) ==
  /\ Step(s, "comment", [call[s] EXCEPT !.at = "mentions", !.id = Len(comments) + 1])
  /\ comments' = Append(comments, [ticket |-> call[s].ticket, internal |-> call[s].internal])
  /\ sent' = Append(sent, <<>>)
  /\ UNCHANGED <<mentions, attachments, objects, bucket>>

Created == [event |-> "comment_created", user |-> 0]
Mentioned(user) == [event |-> "mentioned", user |-> user]

\* Fault: internal comments are announced like the others.
EventsOfAll(internal, mentioned) ==
  <<Created>> \o [i \in DOMAIN mentioned |-> Mentioned(mentioned[i])]

\* What is dispatched: the comment unless it is internal, then every mention.
Events(internal, mentioned) ==
  (IF internal THEN <<>> ELSE <<Created>>) \o [i \in DOMAIN mentioned |-> Mentioned(mentioned[i])]

\* The primary key of commentmention refuses the same user twice.
Repeated(mentioned) ==
  \E i, j \in DOMAIN mentioned : i # j /\ mentioned[i] = mentioned[j]

\* Nothing to dispatch: the request is answered.
Announcing(c, todo) ==
  [c EXCEPT !.at = IF todo = <<>> THEN "idle" ELSE "events", !.todo = todo]

CommitMentions(s) == LET c == call[s] IN
  /\ ~Repeated(c.mentioned)
  /\ Step(s, "mentions", Announcing(c, Events(c.internal, c.mentioned)))
  /\ mentions' = mentions \cup {<<c.id, c.mentioned[i]>> : i \in DOMAIN c.mentioned}
  /\ UNCHANGED <<comments, sent, attachments, objects, bucket>>

RefuseMentions(s) ==
  /\ Repeated(call[s].mentioned)
  /\ Step(s, "mentions", [call[s] EXCEPT !.at = "idle", !.status = 500])
  /\ UNCHANGED data

dispatch_event(s) ==
  /\ Step(s, "events", Announcing(call[s], Tail(call[s].todo)))
  /\ sent' = [sent EXCEPT ![call[s].id] = Append(@, Head(call[s].todo))]
  /\ UNCHANGED <<comments, mentions, attachments, objects, bucket>>

\* list_comments: the comments the user may see, and then the mentions of each.
read_comments(s) ==
  /\ Receive(s)
  /\ \E ticket \in Ticket \cup {0}, actor \in Actor :
       call' = [call EXCEPT ![s] =
         IF Missing(ticket, actor) THEN Answer(404, {})
         ELSE [Answer(200, {c \in DOMAIN comments : comments[c].ticket = ticket
                              /\ (actor = "staff" \/ ~comments[c].internal)})
                 EXCEPT !.at = "listing"]]

list_mentions(s) ==
  /\ Step(s, "listing", [call[s] EXCEPT !.at = "idle",
                           !.users = {m \in mentions : m[1] \in call[s].shown}])
  /\ UNCHANGED data

(***************************************************************************)
(* Attachments.  A key carries the time of the upload: no two are equal.   *)
(***************************************************************************)
\* upload_attachment up to the store: the ticket, the extension and the size.
add_attachment(s) ==
  /\ Receive(s)
  /\ \E ticket \in Ticket \cup {0}, allowed \in BOOLEAN, fits \in BOOLEAN :
       call' = [call EXCEPT ![s] =
         IF ticket \notin Ticket THEN Answer(404, {})
         ELSE IF ~(allowed /\ fits) THEN Answer(422, {})
         ELSE [Answer(201, {}) EXCEPT !.at = "upload", !.ticket = ticket]]

\* Fault: the row is committed first and the object put afterwards.
put_object_later(s) ==
  /\ Step(s, "upload", [call[s] EXCEPT !.at = "attach"])
  /\ attachments' = attachments \cup {[key |-> call[s].number, ticket |-> call[s].ticket]}
  /\ UNCHANGED <<comments, mentions, sent, objects, bucket>>

put_object(s) ==
  /\ bucket
  /\ Step(s, "upload", [call[s] EXCEPT !.at = "attach"])
  /\ objects' = objects \cup {call[s].number}
  /\ UNCHANGED <<comments, mentions, sent, attachments, bucket>>

CommitAttachment(s) ==
  /\ Step(s, "attach", [call[s] EXCEPT !.at = "idle"])
  /\ attachments' = attachments \cup {[key |-> call[s].number, ticket |-> call[s].ticket]}
  /\ UNCHANGED <<comments, mentions, sent, objects, bucket>>

\* The visibility of the ticket is checked outside the try: its exception is a 500.
read_attachments(s) ==
  /\ Receive(s)
  /\ \E ticket \in Ticket \cup {0}, actor \in Actor :
       call' = [call EXCEPT ![s] =
         IF Missing(ticket, actor) THEN Answer(500, {})
         ELSE Answer(200, {a.key : a \in {b \in attachments : b.ticket = ticket}})]

download_attachment(s) ==
  /\ Receive(s)
  /\ \E ticket \in Ticket \cup {0}, actor \in Actor, key \in 0..calls :
       call' = [call EXCEPT ![s] =
         IF Missing(ticket, actor) THEN Answer(500, {})
         ELSE IF \E a \in attachments : a.key = key THEN Answer(200, {key})
         ELSE Answer(404, {})]

(***************************************************************************)
(* Failure, and the bucket.                                                *)
(***************************************************************************)
\* The database, the broker, the store or the process fails: what was done stays done.
Fail(s) ==
  /\ call[s].at # "idle"
  /\ call' = [call EXCEPT ![s].at = "idle", ![s].status = 500]
  /\ failed' = failed \cup {call[s].number}
  /\ UNCHANGED <<data, runner, calls>>

\* ensure_bucket asks, and makes the bucket if there was none ...
bucket_exists(r) ==
  /\ runner[r] = "start"
  /\ runner' = [runner EXCEPT ![r] = IF bucket THEN "ready" ELSE "make"]
  /\ UNCHANGED <<data, call, calls, failed>>

\* ... where another process may have been faster, which is no error.
make_bucket(r) ==
  /\ runner[r] = "make"
  /\ bucket' = TRUE
  /\ runner' = [runner EXCEPT ![r] = "ready"]
  /\ UNCHANGED <<comments, mentions, sent, attachments, objects, call, calls, failed>>

Comment(s) ==
  \/ add_comment(s) \/ CommitComment(s) \/ CommitMentions(s) \/ RefuseMentions(s)
  \/ dispatch_event(s) \/ read_comments(s) \/ list_mentions(s)

Attach(s) ==
  \/ add_attachment(s) \/ put_object(s) \/ CommitAttachment(s)
  \/ read_attachments(s) \/ download_attachment(s)

Next ==
  \/ \E s \in Session : Comment(s) \/ Attach(s) \/ Fail(s)
  \/ \E r \in Runner : bucket_exists(r) \/ make_bucket(r)

Spec == Init /\ [][Next]_vars

(***************************************************************************)
(* Properties                                                              *)
(***************************************************************************)
\* Types: rows have their columns, there is one list of events per comment, and a request
\* is at one of its places.
TypeOK ==
  /\ comments \in Seq([ticket : Ticket, internal : BOOLEAN])
  /\ mentions \subseteq (1..Len(comments)) \X Active
  /\ DOMAIN sent = DOMAIN comments
  /\ attachments \subseteq [key : 1..MaxCalls, ticket : Ticket]
  /\ objects \subseteq 1..MaxCalls /\ bucket \in BOOLEAN
  /\ runner \in [Runner -> {"start", "make", "ready"}]
  /\ calls \in 0..MaxCalls
  /\ \A s \in Session :
       /\ call[s].at \in {"idle", "comment", "mentions", "events", "listing", "upload", "attach"}
       /\ call[s].status \in {0, 200, 201, 403, 404, 422, 500}

Told(c) == {sent[c][i] : i \in DOMAIN sent[c]}

\* Receivers of webhooks are told the truth once: an event is sent at most once, no
\* comment_created for an internal comment, no mention that is not stored.  And when the
\* author got his answer they were told everything: a 201 means the comment, all its
\* mentions and all its events are out, whatever other requests and failures did.
AnnouncedExactly ==
  /\ \A c \in DOMAIN comments :
       /\ Cardinality(Told(c)) = Len(sent[c])
       /\ Created \in Told(c) => ~comments[c].internal
       /\ \A user \in User : Mentioned(user) \in Told(c) => <<c, user>> \in mentions
  /\ \A s \in Session : call[s].at = "idle" /\ call[s].status = 201 /\ call[s].id # 0 =>
       LET c == call[s].id
       IN /\ comments[c].internal \/ Created \in Told(c)
          /\ \A i \in DOMAIN call[s].mentioned :
               /\ <<c, call[s].mentioned[i]>> \in mentions
               /\ Mentioned(call[s].mentioned[i]) \in Told(c)

\* A row of an attachment always has its object, so that its download link works; an
\* object without a row is one of an upload that is under way or was cut off.
AttachmentsWhole ==
  /\ \A a \in attachments : bucket /\ a.key \in objects
  /\ \A key \in objects :
       \/ \E a \in attachments : a.key = key
       \/ key \in failed
       \/ \E s \in Session : call[s].at = "attach" /\ call[s].number = key
==============================================================================
