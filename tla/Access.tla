--------------------------------- MODULE Access ---------------------------------
(***************************************************************************)
(* What a request may do with the document: bestCred and the gates of       *)
(* internal/transport/httpx/capability.go, as operators over the state of   *)
(* Grants.  A request presents codes (bearer, cookie, ?code=); a session is *)
(* a user's or that of a bot acting for an owner.  What octo-server says of *)
(* the document's binding (DocBinding) is a parameter.                      *)
(***************************************************************************)
EXTENDS GrantProperties

CapNone    == 0
CapRead    == 1
CapComment == 2
CapEdit    == 3
CapManage  == 4

Stronger(a, b) == IF a < b THEN b ELSE a

\* CapabilityForDocRole, over labels (roleCodeToLabel, roleLabelToCode: the codes
\* 1 reader, 2 writer, 3 admin, 4 commenter are not in the order of capability).
CapabilityForDocRole(label) ==
    CASE label = "reader" -> CapRead   [] label = "commenter" -> CapComment
      [] label = "writer" -> CapEdit   [] label = "admin"     -> CapManage
      [] OTHER -> CapNone

CapabilityForGrantRole(label) ==
    IF label \in Grantable THEN CapabilityForDocRole(label) ELSE CapNone

\* CapabilityFor each of the credentials: one of them is the code in force.
CapabilityFor(creds) == IF code # NoCode /\ code \in creds THEN CapRead ELSE CapNone

-------------------------------------------------------------------------------
(* Requests.                                                               *)

NoUser == "nobody"

\* The empty uid is nobody's.
ASSUME NoUserAssumption == NoUser \notin User

NoSession == [login |-> NoUser, owner |-> NoUser, super |-> FALSE]

\* A user's own session names no owner; octo-server's header makes it a super user's.
Sessions ==
    {NoSession} \cup [login : User, owner : User \cup {NoUser}, super : {FALSE}]
                \cup [login : User, owner : {NoUser}, super : {TRUE}]

\* (Mutant: the first credential that is there, cookies before the link.)
FirstCandidate(c) ==
    {IF c.bearer # NoCode THEN c.bearer ELSE IF c.cookie # NoCode THEN c.cookie ELSE c.query}

\* The credentials a request carries: none, an older cookie and the link of the
\* code in force, or that code as a bearer.
Nothing == [bearer |-> NoCode, cookie |-> NoCode, query |-> NoCode]
Stale == MaxOps + 1
Presented ==
    {Nothing, [Nothing EXCEPT !.cookie = Stale, !.query = code], [Nothing EXCEPT !.bearer = code]}
credCandidates(c) == {c.bearer, c.cookie, c.query}

\* sessionUIDs.
selfUID(s)  == s.login
ownerUID(s) == IF s.owner # NoUser THEN s.owner ELSE s.login

\* RoleBySlugUID: what the table says of a uid, or that it decides nothing.
RoleBySlugUID(u) == IF Registered /\ u # NoUser THEN member[u] ELSE NoRole
GrantRole(u) == IF u = NoUser THEN NoRole ELSE grants[u]

\* bestCred's author tiers: the creator, the owner's admin row, the owner as
\* creator.
IsAuthor(s) ==
    \/ s.super
    \/ selfUID(s) = Creator
    \/ RoleBySlugUID(ownerUID(s)) = "admin"
    \/ ownerUID(s) = Creator

\* (Mutant: it speaks when the table does not know the user.)
FallbackIfNoRow(s) == RoleBySlugUID(selfUID(s)) = NoRole

\* The metadata speaks when the table does not know the document.
FallbackAllowed(s) == ~(Registered /\ selfUID(s) # NoUser)

\* It is asked only of who has less than it could give.
AskMeta(best) == best < CapEdit

\* doc_binding: an answer is "none" (hidden or no answer), "visible" or "creator".
Bindings == {"none", "visible", "creator"}
BindingCap(b) ==
    CASE b = "creator" -> CapManage [] b = "visible" -> CapRead [] OTHER -> CapNone

bestCred(c, s, b) ==
    IF IsAuthor(s) THEN CapManage
    ELSE LET row   == CapabilityForDocRole(RoleBySlugUID(selfUID(s)))
             rowed == Stronger(CapabilityFor(credCandidates(c)), row)
             best  == IF AskMeta(rowed) /\ FallbackAllowed(s)
                      THEN Stronger(rowed, CapabilityForGrantRole(GrantRole(ownerUID(s))))
                      ELSE rowed
         IN  IF s = NoSession THEN best ELSE Stronger(best, BindingCap(b))

requireDocCapability(c, s, b, min) == bestCred(c, s, b) >= min

\* docHTMLGate: the page, a redirect that moves the code of the link into a
\* cookie, or 404.
docHTMLGate(c, s, b, min) ==
    IF ~requireDocCapability(c, s, b, min) THEN [answer |-> "notFound", cookie |-> c.cookie]
    ELSE IF c.bearer = NoCode /\ CapabilityFor({c.query}) >= CapRead
    THEN [answer |-> "redirect", cookie |-> c.query]
    ELSE [answer |-> "page", cookie |-> c.cookie]

\* ListGrants: the rows of the members panel, but the creator's, which
\* handleListGrants adds as "author".
ListGrants ==
    [u \in User \ {Creator} |->
        IF ~Registered THEN grants[u] ELSE IF member[u] \in Label THEN member[u] ELSE NoRole]

-------------------------------------------------------------------------------
(* Properties.                                                             *)

\* What the design gives a caller: everything to the creator, to the owner of
\* the creator's bot, to an admin and to octo-server's creator; what the label of
\* the caller's grant says, in the table once the document is registered and in
\* the metadata before; reading to who has the code or can see the binding.
GrantOf(s) == IF s = NoSession THEN NoRole
              ELSE IF Registered THEN member[s.login] ELSE grants[ownerUID(s)]

Deserves(c, s, b, cap) ==
    \/ s.super \/ Creator \in {s.login, s.owner}
    \/ Registered /\ s # NoSession /\ "admin" \in {member[s.login], member[ownerUID(s)]}
    \/ s # NoSession /\ b = "creator"
    \/ cap <= CapEdit    /\ GrantOf(s) = "writer"
    \/ cap <= CapComment /\ GrantOf(s) = "commenter"
    \/ /\ cap <= CapRead
       /\ \/ GrantOf(s) = "reader" \/ (s # NoSession /\ b = "visible")
          \/ code # NoCode /\ code \in {c.bearer, c.cookie, c.query}

\* However many credentials a request carries, and in whatever order the tiers
\* are tried, it gets what its strongest one gives and nothing more
\* (capability.go:35-43, 199-213).
CapabilityIsStrongest ==
    \A c \in Presented, s \in Sessions, b \in Bindings :
        LET best == bestCred(c, s, b)
        IN  \A cap \in CapRead .. CapManage : best >= cap <=> Deserves(c, s, b, cap)

\* The members panel shows of a user what a session of that user may do: two
\* readings of the two homes of grants agree.  (An entry of the metadata that
\* grants nothing, admin or malformed, is shown though.)
PanelShowsAccess ==
    \A u \in User \ {Creator} :
        LET shown == ListGrants[u]
        IN  shown \in Grantable \cup {NoRole} \/ Registered =>
                bestCred(Nothing, [NoSession EXCEPT !.login = u], "none")
                    = CapabilityForDocRole(shown)

\* In every state of the two homes of grants, the gate of every request decides
\* as the grants say, and the members panel says what the gate decides.
AccessIsAsGranted == CapabilityIsStrongest /\ PanelShowsAccess

\* A recipient who opens the link of the code in force reaches the page through
\* one redirect, with whatever older cookie the browser holds; one who comes with
\* an older code, or with any after the revocation, does not.
LinkLeadsToPage ==
    \A stale \in 0 .. MaxOps, link \in 1 .. MaxOps :
        LET first == docHTMLGate([Nothing EXCEPT !.cookie = stale, !.query = link],
                                 NoSession, "none", CapRead)
            then  == docHTMLGate([Nothing EXCEPT !.cookie = first.cookie],
                                 NoSession, "none", CapRead)
        IN  IF link = lastCode THEN first.answer = "redirect" /\ then.answer = "page"
            ELSE (first.answer = "page") = (stale # NoCode /\ stale = lastCode)
===============================================================================
