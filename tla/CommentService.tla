---------------------------- MODULE CommentService ----------------------------
(***************************************************************************)
(* The comments of one document under concurrent requests: the handlers of *)
(* handlers_comments.go and handlers_agent.go, CommentService.mutate and   *)
(* applyOp of comment.go, and the part of publishLocked (doc.go) that adds *)
(* a version and merges comments.                                          *)
(*                                                                         *)
(* A handler resolves the version it stamps BEFORE it takes the slug lock; *)
(* under the lock it reads the list, applies one operation and stores the  *)
(* result.  Other requests run between any two of those steps.             *)
(***************************************************************************)
EXTENDS CommentLog, Functions

CONSTANTS
    Proc, NoProc,    \* request handlers; nobody
    Login,           \* session logins (and "anon")
    Emoji,           \* reaction emoji
    Anchors,         \* anchors a client may send
    Artifacts,       \* what a published HTML may be stamped with
    Pins,            \* what a publish may know about a replaced element
    Locals,          \* lists of local comments a publish may carry
    Kinds,           \* the kinds of request of a run
    MaxVersion,      \* bound: versions published
    MaxOps,          \* bound: requests accepted
    FarVersion       \* 999_999, what "delete at latest" is stamped with

ASSUME ProcAssumption == NoProc \notin Proc
ASSUME BoundAssumption == {MaxVersion, MaxOps, FarVersion, VersionLatest} \subseteq Nat
ASSUME FarVersionAssumption == MaxVersion < FarVersion /\ FarVersion < VersionLatest
ASSUME InputAssumption ==
    /\ Login \subseteq STRING /\ Emoji \subseteq STRING
    /\ Anchors \subseteq AnchorRecord /\ Pins \subseteq PinRecord
    /\ Artifacts \subseteq Seq(ArtifactRecord)
    /\ \A aids \in Artifacts : \A i \in DOMAIN aids : Lower[aids[i].tag] = aids[i].tag

\* Request m has drawn neither the id of the comment nor one in its log.
Without(c, m) == c.id # m /\ \A k \in DOMAIN c.events : ~DrawnBy(c.events[k], m)
\* No reply has the id of its comment.
OwnIds(c) == \A k \in DOMAIN c.events : c.events[k].kind = "reply_added" => c.events[k].rid # c.id

\* Local comments were made by another process of this program: their ids are
\* random too, none is one the server draws.
ASSUME LocalsAssumption ==
    /\ Locals \subseteq Seq(ArrivingComment)
    /\ \A ls \in Locals : \A i \in DOMAIN ls :
          OwnIds(ls[i]) /\ \A m \in 1 .. MaxOps : Without(ls[i], m)

VARIABLES
    comments,   \* the stored list
    versions,   \* numbers of the published versions
    holder,     \* who holds the slug lock
    pc,         \* "idle", "waiting" for the lock, "publishing", "writing"
    req,        \* the operation of each handler
    list,       \* the list each handler has read
    ops,        \* requests accepted: ids and eids are drawn from it
    acked       \* history: <<comment id, eid>> of acknowledged events

vars == <<comments, versions, holder, pc, req, list, ops, acked>>

MaxOf(S) == CHOOSE v \in S : \A w \in S : w <= v
Newest == IF versions = {} THEN 0 ELSE MaxOf(versions)

\* Ids of comments and replies are unique: made of the time and a random number.
NewId(n) == n + 1
Targets ==
    (UNION {{c.id} \cup {e.rid : e \in Range(c.events)} : c \in Range(comments)}) \ {0}

NoOp == [kind |-> "none", v |-> 0, n |-> 0]

Init ==
    /\ comments = <<>>
    /\ versions = {}
    /\ holder = NoProc
    /\ pc = [p \in Proc |-> "idle"]
    /\ req = [p \in Proc |-> NoOp]
    /\ list = [p \in Proc |-> <<>>]
    /\ ops = 0
    /\ acked = {}

-------------------------------------------------------------------------------
(* Requests.  v is resolved from the versions published at this moment.    *)

\* resolveMutationVersion: "latest" is the newest published version, or 1; a
\* number above it is refused, and one at or below 0 means 1.
ResolvedVersions == {IF Newest = 0 THEN 1 ELSE Newest} \cup (1 .. Newest) \cup {1}

\* Every request draws its own ids: op.n is what they are made of here.
Accept(p, op) ==
    /\ ops' = ops + 1
    /\ req' = [req EXCEPT ![p] = op]
    /\ pc' = [pc EXCEPT ![p] = "waiting"]
    /\ UNCHANGED <<comments, versions, holder, list, acked>>

handleCreateComment(p) ==
    \E v \in ResolvedVersions, by \in Login, a \in Anchors :
        Accept(p, [kind |-> "create", n |-> ops + 1, v |-> v, id |-> NewId(ops), by |-> by,
                   anchor |-> a])

\* handleCreateComment with a parent.
handleReplyComment(p) ==
    \E v \in ResolvedVersions, by \in Login, t \in Targets :
        Accept(p, [kind |-> "reply", n |-> ops + 1, v |-> v, id |-> NewId(ops), by |-> by,
                   target |-> t])

handlePatchComment(p) ==
    \E v \in ResolvedVersions, by \in Login, t \in Targets, a \in Anchors :
        Accept(p, [kind |-> "patch_anchor", n |-> ops + 1, v |-> v, by |-> by, target |-> t,
                   anchor |-> a])

\* The version of a delete is not resolved: any number, or the far one.
handleDeleteComment(p) ==
    \E v \in (1..MaxVersion) \cup {FarVersion}, by \in Login, t \in Targets :
        Accept(p, [kind |-> "delete", n |-> ops + 1, v |-> v, by |-> by, target |-> t])

\* handleDeleteComment without an id: all of them.
wipeComments(p) == Accept(p, [kind |-> "wipe", n |-> ops + 1, v |-> 0])

handleReact(p) ==
    \E v \in ResolvedVersions, by \in Login, t \in Targets, m \in Emoji :
        Accept(p, [kind |-> "react", n |-> ops + 1, v |-> v, by |-> by, target |-> t,
                   emoji |-> m])

\* The agent's reply is stamped with applied_in or, when that is 0, with the
\* version its parent was created in, read under the lock beforehand.
handleAgentReply(p) ==
    /\ holder = NoProc
    /\ \E i \in DOMAIN comments, verdict \in {"applied", "partial", "question", ""} :
         \E v \in {comments[i].createdIn} \cup (1 .. MaxVersion) :
            Accept(p, [kind |-> "agent", n |-> ops + 1, v |-> v, id |-> NewId(ops),
                       target |-> comments[i].id, verdict |-> verdict])

\* A publish resolves its version under the lock.  The local comments it
\* carries are new ones or copies of the stored ones, as old as the request.
handlePublish(p) ==
    \E explicit \in 0..MaxVersion, aids \in Artifacts, pin \in Pins,
       ls \in Locals \cup {<<comments[i]>> : i \in DOMAIN comments} :
        Accept(p, [kind |-> "publish", n |-> ops + 1, v |-> explicit, aids |-> aids, pin |-> pin,
                   locals |-> ls])

-------------------------------------------------------------------------------
(* Under the slug lock.                                                    *)

\* Mutant: the list is read before the lock is taken.
EnterUnlocked(p) ==
    /\ pc[p] = "waiting"
    /\ req[p].kind # "publish"
    /\ list' = [list EXCEPT ![p] = comments]
    /\ pc' = [pc EXCEPT ![p] = "writing"]
    /\ UNCHANGED <<comments, versions, holder, req, ops, acked>>

Enter(p) ==
    /\ pc[p] = "waiting"
    /\ req[p].kind # "publish"
    /\ holder = NoProc
    /\ holder' = p
    /\ list' = [list EXCEPT ![p] = comments]
    /\ pc' = [pc EXCEPT ![p] = "writing"]
    /\ UNCHANGED <<comments, versions, req, ops, acked>>

\* publishLocked: resolveVersion is the explicit version or the newest plus one.
EnterPublish(p) ==
    /\ pc[p] = "waiting"
    /\ req[p].kind = "publish"
    /\ holder = NoProc
    /\ LET v == IF req[p].v > 0 THEN req[p].v ELSE Newest + 1
       IN  /\ v <= MaxVersion
           /\ req' = [req EXCEPT ![p].v = v]
    /\ holder' = p
    /\ pc' = [pc EXCEPT ![p] = "publishing"]
    /\ UNCHANGED <<comments, versions, list, ops, acked>>

\* The blob and the metadata are stored before the comments are read.
PutVersion(p) ==
    /\ pc[p] = "publishing"
    /\ versions' = versions \cup {req[p].v}
    /\ list' = [list EXCEPT ![p] = comments]
    /\ pc' = [pc EXCEPT ![p] = "writing"]
    /\ UNCHANGED <<comments, holder, req, ops, acked>>

Leave(p) ==
    /\ holder' = IF holder = p THEN NoProc ELSE holder
    /\ pc' = [pc EXCEPT ![p] = "idle"]
    /\ req' = [req EXCEPT ![p] = NoOp]
    /\ list' = [list EXCEPT ![p] = <<>>]
    /\ UNCHANGED <<versions, ops>>

\* The comment an operation other than create, wipe and publish works on, as a
\* set: a react or delete may name a reply, the others only a comment; a react
\* answers 404 when its comment is not visible at its version.
Host(l, op) ==
    IF op.kind \in {"react", "delete"}
    THEN {FirstOf(S) : S \in {FindHost(l, op.target)} \ {{}}}
         \ {i \in DOMAIN l : op.kind = "react" /\ ~ExistsAt(l[i], op.v)}
    ELSE {FirstOf(S) : S \in {IndexOf(l, op.target)} \ {{}}}

NewEvents(l, i, op) ==
    CASE op.kind = "reply" -> opReplyEvents(op)
      [] op.kind = "patch_anchor" -> opPatchAnchorEvents(op)
      [] op.kind = "delete" -> opDeleteEvents(l, op)
      [] op.kind = "react" -> opReactEvents(l, l[i], op)
      [] op.kind = "agent" -> agentReplyEvents(op)

\* ApplyCommentOp: the list to store.  n numbers the events of this request.
ApplyCommentOp(l, op, n) ==
    CASE op.kind = "create" -> opCreate(l, op, n)
      [] op.kind = "wipe" -> <<>>
      [] op.kind = "publish" -> opPublishMerge(l, op, n)
      [] OTHER -> [i \in DOMAIN l |->
                      IF i \in Host(l, op) THEN AppendEvents(l[i], NewEvents(l, i, op), n) ELSE l[i]]

Untargeted == {"create", "wipe", "publish"}
Found(l, op) == op.kind \notin Untargeted => Host(l, op) # {}

Logged(l) == UNION {{<<l[i].id, e.eid>> : e \in Range(l[i].events)} : i \in DOMAIN l}

\* applyOp's second half: apply, store, answer 200.
Write(p) ==
    /\ pc[p] = "writing"
    /\ Found(list[p], req[p])
    /\ LET new == ApplyCommentOp(list[p], req[p], <<req[p].n>>)
       IN  /\ comments' = new
           /\ acked' = IF req[p].kind = "wipe" THEN {}
                       ELSE acked \cup (Logged(new) \ Logged(list[p]))
    /\ Leave(p)

NotFound(p) ==
    /\ pc[p] = "writing"
    /\ ~Found(list[p], req[p])
    /\ Leave(p)
    /\ UNCHANGED <<comments, acked>>

\* The store fails, the request is cancelled, or the process is killed: what
\* was stored stays, and the lock is given back or dies with its owner.
Fail(p) ==
    /\ pc[p] \in {"waiting", "publishing", "writing"}
    /\ Leave(p)
    /\ UNCHANGED <<comments, acked>>

\* A handler is free to serve a request.
Request(p, kinds) ==
    /\ pc[p] = "idle"
    /\ ops < MaxOps
    /\ \/ "create" \in kinds /\ handleCreateComment(p)
       \/ "reply" \in kinds /\ handleReplyComment(p)
       \/ "patch_anchor" \in kinds /\ handlePatchComment(p)
       \/ "delete" \in kinds /\ handleDeleteComment(p)
       \/ "wipe" \in kinds /\ wipeComments(p)
       \/ "react" \in kinds /\ handleReact(p)
       \/ "agent" \in kinds /\ handleAgentReply(p)
       \/ "publish" \in kinds /\ handlePublish(p)

Step(p) ==
    \/ Enter(p) \/ EnterPublish(p) \/ PutVersion(p)
    \/ Write(p) \/ NotFound(p) \/ Fail(p)

Next == \E p \in Proc : Request(p, Kinds) \/ Step(p)

Spec == Init /\ [][Next]_vars
===============================================================================
