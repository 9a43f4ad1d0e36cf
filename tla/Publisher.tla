----------------------------- MODULE Publisher -----------------------------
(***************************************************************************)
(* Publishing the presence of an agent (modules/presence/publisher.c): a   *)
(* PUBLISH with the status, refreshes without one that name the entity tag *)
(* of the last answer, and 412 if the server does not know the tag.        *)
(* Several requests can be under way; they and their answers stay in order *)
(* (a connection to the server).  The server is external.                  *)
(***************************************************************************)
EXTENDS Integers, Sequences

CONSTANTS
  Statuses,   \* what the status of the agent can be
  MaxTag      \* bound: tags the server gives out

NoTag == 0
Empty == "empty"       \* the body of a refresh
Removal == "removal"   \* expires 0, no body

ASSUME PublisherAssumption ==
  MaxTag \in Nat /\ "closed" \in Statuses /\ {Empty, Removal} \cap Statuses = {}

VARIABLES
  user,     \* ua_presence_status() of the agent
  pubr,     \* struct publisher: etag, refresh, tmr, expires (not zero)
  toServer, \* requests under way: tag, body
  toAgent,  \* answers under way: code, tag
  server,   \* the publications it has: tag to status, and the tags used
  failed    \* the server has answered a request with an error of its own

pbVars == <<user, pubr, toServer, toAgent, server, failed>>

publish(p) ==
  [tag |-> p.etag, body |-> IF ~p.expires THEN Removal
                            ELSE IF p.refresh THEN Empty ELSE user']

Send(p) ==
  /\ pubr' = [p EXCEPT !.sent = @ + 1]
  /\ toServer' = Append(toServer, publish(p))

(* The interval is over.                                                   *)
tmr_handler ==
  /\ pubr.tmr
  /\ UNCHANGED user
  /\ Send([pubr EXCEPT !.tmr = FALSE])
  /\ UNCHANGED <<toAgent, server, failed>>

(* The user, or the first registration, changes the status.                *)
publisher_update_status(s) ==
  /\ pubr.expires /\ s # user
  /\ user' = s
  /\ Send([pubr EXCEPT !.refresh = FALSE])
  /\ UNCHANGED <<toAgent, server, failed>>

(* Faulty: the status is not sent again when the server has lost it.       *)
response_handler_keep_refresh(r) ==
  /\ toAgent' = Tail(toAgent)
  /\ UNCHANGED <<user, server>>
  /\ CASE r.code = 200 ->
            /\ pubr' = [pubr EXCEPT !.etag = r.tag, !.refresh = TRUE, !.tmr = TRUE]
            /\ UNCHANGED <<toServer, failed>>
       [] r.code = 412 ->
            /\ Send([pubr EXCEPT !.etag = NoTag])
            /\ UNCHANGED failed
       [] OTHER ->
            /\ failed' = (failed \/ r.code = 500)
            /\ UNCHANGED <<pubr, toServer>>

(* After publisher_close() the publisher is freed: an answer that comes    *)
(* then is not modelled.                                                   *)
response_handler(r) ==
  /\ toAgent' = Tail(toAgent)
  /\ UNCHANGED <<user, server>>
  /\ CASE r.code = 200 ->
            /\ pubr' = [pubr EXCEPT !.etag = r.tag, !.refresh = TRUE, !.tmr = TRUE]
            /\ UNCHANGED <<toServer, failed>>
       [] r.code = 412 ->
            /\ Send([pubr EXCEPT !.etag = NoTag, !.refresh = FALSE])
            /\ UNCHANGED failed
       [] OTHER ->
            /\ failed' = (failed \/ r.code = 500)
            /\ UNCHANGED <<pubr, toServer>>

Answer == pubr.expires /\ toAgent # <<>> /\ response_handler(Head(toAgent))

(* publisher_close(): closed status, expires 0 with the tag, no handler.   *)
publisher_close ==
  /\ pubr.expires
  /\ user' = "closed"
  /\ Send([pubr EXCEPT !.expires = FALSE, !.tmr = FALSE])
  /\ UNCHANGED <<toAgent, server, failed>>

-----------------------------------------------------------------------------
(* The server.                                                             *)

Known(tag) == tag \in DOMAIN server.pubs

(* A new tag for a publication that takes the place of the one of q.       *)
Store(q, status) ==
  LET tag == server.used + 1 IN
  /\ server' = [used |-> tag,
                pubs |-> [t \in (DOMAIN server.pubs \ {q.tag}) \cup {tag} |->
                            IF t = tag THEN status ELSE server.pubs[t]]]
  /\ toAgent' = Append(toAgent, [code |-> 200, tag |-> tag])

Unpublish(q) ==
  /\ server' = [server EXCEPT !.pubs = [t \in DOMAIN @ \ {q.tag} |-> @[t]]]
  /\ UNCHANGED toAgent  \* the answer has no handler

Reply(code) ==
  /\ toAgent' = Append(toAgent, [code |-> code, tag |-> NoTag])
  /\ UNCHANGED server

Serve(q) ==
  /\ server.used < MaxTag
  /\ toServer' = Tail(toServer)
  /\ CASE q.tag # NoTag /\ ~Known(q.tag) -> Reply(412)
       [] q.tag = NoTag /\ q.body \in {Empty, Removal} -> Reply(400)
       [] Known(q.tag) /\ q.body = Removal -> Unpublish(q)
       [] OTHER -> Store(q, IF q.body = Empty THEN server.pubs[q.tag] ELSE q.body)
  /\ UNCHANGED <<user, pubr, failed>>

(* It has an error of its own, or the request is lost, or never left:      *)
(* publish() failed.  For the agent all of these are the end of the matter.*)
(* A 2xx without SIP-ETag, which would be too, is not sent by this server. *)
Fail ==
  /\ toServer' = Tail(toServer)
  /\ Reply(500)
  /\ UNCHANGED <<user, pubr, failed>>

(* A publication expires or the server restarts.                           *)
Forget ==
  /\ DOMAIN server.pubs # {}
  /\ server' = [server EXCEPT !.pubs = [t \in {} |-> Empty]]
  /\ UNCHANGED <<user, pubr, toServer, toAgent, failed>>

-----------------------------------------------------------------------------
(* publisher_alloc(): the timer runs out soon.                             *)
PbInit ==
  /\ user \in Statuses
  /\ pubr = [etag |-> NoTag, refresh |-> FALSE, tmr |-> TRUE, expires |-> TRUE,
             sent |-> 0]
  /\ toServer = <<>> /\ toAgent = <<>>
  /\ server = [used |-> 0, pubs |-> [t \in {} |-> Empty]]
  /\ failed = FALSE

(* Bound: so many requests.                                                *)
PbNext ==
  \/ pubr.sent <= MaxTag + 1 /\
       (tmr_handler \/ Answer \/ publisher_close
          \/ \E s \in Statuses : publisher_update_status(s))
  \/ toServer # <<>> /\ (Serve(Head(toServer)) \/ Fail)
  \/ Forget

PbSpec == PbInit /\ [][PbNext]_pbVars

-----------------------------------------------------------------------------
(* Properties.                                                             *)

PbTypeOK ==
  /\ pubr.etag \in 0..MaxTag
  /\ {pubr.refresh, pubr.tmr, pubr.expires} \subseteq BOOLEAN
  /\ \A i \in DOMAIN toServer :
       toServer[i].tag \in 0..MaxTag
         /\ toServer[i].body \in Statuses \cup {Empty, Removal}
  /\ DOMAIN server.pubs \subseteq 1..MaxTag
  /\ failed \in BOOLEAN

(* When all requests are answered, none with an error of the server, the   *)
(* next refresh is planned, and the server has the status of the agent in  *)
(* some publication, or it has forgotten the one that refresh will name.   *)
ServerKnows ==
  pubr.expires /\ toServer = <<>> /\ toAgent = <<>> /\ ~failed
    => /\ pubr.tmr
       /\ pubr.sent > 0 =>
            \/ \E t \in DOMAIN server.pubs : server.pubs[t] = user
            \/ pubr.etag # NoTag /\ ~Known(pubr.etag)
=============================================================================
