--------------------------- MODULE TenancyProofs ---------------------------
(***************************************************************************)
(* Proofs about Tenancy.  A request in flight carries what its next stage  *)
(* needs (RequestOK); a token and a link name a channel that exists, so an *)
(* INSERT, whose id is fresh, cannot change whom they were made for.       *)
(***************************************************************************)
EXTENDS Tenancy, TLAPS

Made(r, t) == r \in RagIds /\ channels[r] # NoName /\ origin[r] = t

LinkInv ==
    \A t \in Tenants : control[t] # NoRow /\ control[t].rag # NoRag
                          => Made(control[t].rag, t)

TokenInv == \A k \in tokens : k.rag # NoRag => Made(k.rag, k.tenant)

RequestOK(a) ==
    /\ pc[a] \in {"post", "link"} => /\ tenant[a] \in Tenants
                                     /\ name[a] \in Names
                                     /\ control[tenant[a]] # NoRow
    /\ pc[a] = "link" => Made(made[a], tenant[a])

RequestInv == \A a \in Admins : RequestOK(a)

IInv == TypeOK /\ LinkInv /\ TokenInv /\ RequestInv

(* The initial state satisfies the invariant.                              *)
LEMMA InitInv == Init => IInv
  BY ConstantsAssumption
     DEF Init, IInv, TypeOK, LinkInv, TokenInv, RequestInv, RequestOK, Free

(* An INSERT takes a fresh id: what was made for a tenant stays made.      *)
LEMMA InsertKeeps ==
    ASSUME IInv, NEW t \in Tenants, NEW n \in Names, NEW r \in RagIds,
           Insert(t, n, r)
    PROVE  /\ channels' \in [RagIds -> Names \cup {NoName}]
           /\ origin' \in [RagIds -> Tenants \cup {NoTenant}]
           /\ Made(r, t)'
           /\ \A s \in RagIds, u \in Tenants : Made(s, u) => Made(s, u)'
  BY ConstantsAssumption DEF IInv, TypeOK, Insert, Made

(* A new control row is unlinked, and no request refers to a missing row.  *)
LEMMA CreateStep ==
    ASSUME IInv, NEW t \in Tenants, NEW n \in Names, CreateChannel(t, n)
    PROVE  IInv'
<1> DEFINE row == [name |-> n, rag |-> NoRag]
<1>1. row \in ControlRow /\ row # NoRow /\ row.rag = NoRag
  BY ConstantsAssumption DEF ControlRow
<1>2. control' = [control EXCEPT ![t] = row]
  BY DEF CreateChannel
<1> HIDE DEF row
<1>3. TypeOK'
  BY <1>1, <1>2 DEF CreateChannel, IInv, TypeOK, request
<1>4. LinkInv'
  BY <1>1, <1>2 DEF CreateChannel, IInv, TypeOK, LinkInv, Made
<1>5. TokenInv'
  BY DEF CreateChannel, IInv, TokenInv, Made
<1>6. RequestInv'
  BY <1>1, <1>2
     DEF CreateChannel, IInv, TypeOK, RequestInv, RequestOK, Made, request
<1> QED BY <1>3, <1>4, <1>5, <1>6 DEF IInv

(* A request goes on only when its control row exists.                     *)
LEMMA ReadStep ==
    ASSUME IInv, NEW a \in Admins, NEW t \in Tenants, NEW n \in Names,
           ReadChannel(a, t, n)
    PROVE  IInv'
<1>1. TypeOK'
  BY DEF ReadChannel, IInv, TypeOK, Free
<1>2. LinkInv' /\ TokenInv'
  BY DEF ReadChannel, IInv, LinkInv, TokenInv, Made
<1>3. ASSUME NEW b \in Admins PROVE RequestOK(b)'
  BY <1>3 DEF ReadChannel, IInv, TypeOK, RequestInv, RequestOK, Made, Free
<1> QED BY <1>1, <1>2, <1>3 DEF IInv, RequestInv

(* The channel that is answered was made for the request's tenant.         *)
LEMMA PostStep ==
    ASSUME IInv, NEW a \in Admins, PostChannel(a)
    PROVE  IInv'
<1>1. tenant[a] \in Tenants /\ name[a] \in Names /\ control[tenant[a]] # NoRow
  BY DEF PostChannel, IInv, RequestInv, RequestOK
<1>2. PICK r \in RagIds : Insert(tenant[a], name[a], r)
                          /\ made' = [made EXCEPT ![a] = r]
  BY DEF PostChannel
<1>3. /\ channels' \in [RagIds -> Names \cup {NoName}]
      /\ origin' \in [RagIds -> Tenants \cup {NoTenant}]
      /\ r \in RagIds /\ channels'[r] # NoName /\ origin'[r] = tenant[a]
      /\ \A s \in RagIds, u \in Tenants : Made(s, u) => Made(s, u)'
  BY <1>1, <1>2, InsertKeeps DEF Made
<1>4. TypeOK'
  BY <1>2, <1>3 DEF PostChannel, IInv, TypeOK, Free
<1>5. LinkInv'
  BY <1>3 DEF PostChannel, IInv, LinkInv, Made
<1>6. TokenInv'
  BY <1>3 DEF PostChannel, IInv, TypeOK, Token, TokenInv, Made
<1>7. ASSUME NEW b \in Admins PROVE RequestOK(b)'
  BY <1>1, <1>2, <1>3, <1>7
     DEF PostChannel, IInv, TypeOK, RequestInv, RequestOK, Made
<1> QED BY <1>4, <1>5, <1>6, <1>7 DEF IInv, RequestInv

(* A call whose caller is gone makes a channel that nothing refers to.     *)
LEMMA LateStep ==
    ASSUME IInv, NEW c \in Call, LateInsert(c)
    PROVE  IInv'
<1>1. c.tenant \in Tenants /\ c.name \in Names
  BY DEF Call
<1>2. PICK r \in RagIds : Insert(c.tenant, c.name, r)
  BY DEF LateInsert
<1>3. /\ channels' \in [RagIds -> Names \cup {NoName}]
      /\ origin' \in [RagIds -> Tenants \cup {NoTenant}]
      /\ \A s \in RagIds, u \in Tenants : Made(s, u) => Made(s, u)'
  BY <1>1, <1>2, InsertKeeps
<1>4. TypeOK'
  BY <1>3 DEF LateInsert, IInv, TypeOK, request
<1>5. LinkInv'
  BY <1>3 DEF LateInsert, IInv, LinkInv, Made
<1>6. TokenInv'
  BY <1>3 DEF LateInsert, IInv, TypeOK, Token, TokenInv, Made
<1>7. RequestInv'
  BY <1>3 DEF LateInsert, IInv, TypeOK, RequestInv, RequestOK, Made, request
<1> QED BY <1>4, <1>5, <1>6, <1>7 DEF IInv

(* A request that fails drops its stage and changes nothing else.          *)
LEMMA FailStep ==
    ASSUME IInv, NEW a \in Admins,
           PostFails(a) \/ PostTimesOut(a) \/ LinkFails(a)
    PROVE  IInv'
<1>1. pc' = [pc EXCEPT ![a] = "error"]
      /\ UNCHANGED <<control, channels, origin, tenant, name, made, tokens,
                     requests>>
  BY DEF PostFails, PostTimesOut, LinkFails, request
<1>2. late' \subseteq Call
  <2>1. CASE PostTimesOut(a)
    BY <2>1 DEF PostTimesOut, IInv, TypeOK, RequestInv, RequestOK, Call
  <2>2. CASE PostFails(a) \/ LinkFails(a)
    BY <2>2 DEF PostFails, LinkFails, IInv, TypeOK
  <2> QED BY <2>1, <2>2
<1>3. TypeOK'
  BY <1>1, <1>2 DEF IInv, TypeOK, Free
<1>4. LinkInv' /\ TokenInv' /\ RequestInv'
  BY <1>1 DEF IInv, TypeOK, LinkInv, TokenInv, RequestInv, RequestOK, Made
<1> QED BY <1>3, <1>4 DEF IInv

(* The UPDATE writes the channel that was made for the row it writes.      *)
LEMMA LinkStep ==
    ASSUME IInv, NEW a \in Admins, LinkChannel(a)
    PROVE  IInv'
<1> DEFINE t == tenant[a]
<1> DEFINE row == [name |-> control[t].name, rag |-> made[a]]
<1>1. t \in Tenants /\ control[t] # NoRow /\ Made(made[a], t)
  BY DEF LinkChannel, IInv, RequestInv, RequestOK
<1>2. row \in ControlRow /\ row # NoRow /\ row.rag = made[a]
  BY <1>1, ConstantsAssumption DEF IInv, TypeOK, ControlRow, Made
<1>3. control' = control \/ control' = [control EXCEPT ![t] = row]
  BY DEF LinkChannel
<1>4. pc' \in [Admins -> Free \cup {"post", "link"}]
      /\ \A b \in Admins : pc'[b] = pc[b] \/ pc'[b] \in Free
  BY DEF LinkChannel, IInv, TypeOK, Free
<1>5. UNCHANGED <<channels, origin, tenant, name, made, late, tokens, requests>>
  BY DEF LinkChannel, request
<1> HIDE DEF t, row
<1>6. \A u \in Tenants : control'[u] = control[u] \/ (u = t /\ control'[u] = row)
  BY <1>3 DEF IInv, TypeOK
<1>7. TypeOK'
  BY <1>2, <1>3, <1>4, <1>5 DEF IInv, TypeOK
<1>8. LinkInv'
  BY <1>1, <1>2, <1>5, <1>6 DEF IInv, LinkInv, Made
<1>9. TokenInv'
  BY <1>5 DEF IInv, TokenInv, Made
<1>10. RequestInv'
  BY <1>2, <1>4, <1>5, <1>6 DEF IInv, RequestInv, RequestOK, Made, Free
<1> QED BY <1>7, <1>8, <1>9, <1>10 DEF IInv

(* A token is a copy of the link of its tenant.                            *)
LEMMA LoginStep ==
    ASSUME IInv, NEW t \in Tenants, Login(t)
    PROVE  IInv'
<1> DEFINE k == [tenant |-> t, rag |-> control[t].rag]
<1>1. k \in Token /\ (k.rag # NoRag => Made(k.rag, k.tenant))
  BY DEF Login, IInv, TypeOK, LinkInv, ControlRow, Token
<1>2. tokens' = tokens \cup {k}
      /\ UNCHANGED <<control, channels, origin, pc, tenant, name, made, late, requests>>
  BY DEF Login, request
<1> HIDE DEF k
<1>3. TypeOK'
  BY <1>1, <1>2 DEF IInv, TypeOK
<1>4. LinkInv' /\ TokenInv' /\ RequestInv'
  BY <1>1, <1>2 DEF IInv, LinkInv, TokenInv, RequestInv, RequestOK, Made
<1> QED BY <1>3, <1>4 DEF IInv

(* A restart forgets the requests and leaves the databases alone.          *)
LEMMA RestartStep == ASSUME IInv, Restart PROVE IInv'
<1>1. late' \subseteq Call
  BY DEF Restart, IInv, TypeOK, RequestInv, RequestOK, Call
<1>2. TypeOK'
  BY <1>1 DEF Restart, IInv, TypeOK, Free
<1>3. LinkInv' /\ TokenInv' /\ RequestInv'
  BY DEF Restart, IInv, LinkInv, TokenInv, RequestInv, RequestOK, Made
<1> QED BY <1>2, <1>3 DEF IInv

LEMMA StepInv == ASSUME IInv, [Next]_vars PROVE IInv'
<1>1. CASE UNCHANGED vars
  BY <1>1 DEF vars, request, IInv, TypeOK, LinkInv, TokenInv, RequestInv,
              RequestOK, Made
<1>2. CASE Next
  BY <1>2, CreateStep, ReadStep, PostStep, FailStep, LinkStep, LateStep,
     LoginStep, RestartStep DEF Next
<1> QED BY <1>1, <1>2

(* Admin requests, logins and calls keep their types, for any number of    *)
(* admins, tenants, names and requests (backend/admin.py, backend/auth.py).*)
THEOREM TenancyTypeCorrect == Spec => []TypeOK
<1>1. IInv => TypeOK  BY DEF IInv
<1> QED BY <1>1, InitInv, StepInv, PTL DEF Spec

(* However link requests, late calls, logins and restarts interleave, a    *)
(* link and a token only ever name a channel made for their own tenant.    *)
THEOREM LinksIsolated == Spec => []LinksStayInTenant
<1>1. IInv => LinksStayInTenant
  BY DEF IInv, LinkInv, TokenInv, LinksStayInTenant, Made
<1> QED BY <1>1, InitInv, StepInv, PTL DEF Spec

-----------------------------------------------------------------------------
(* As long as a is the only request since the backend came up, the row it  *)
(* is going to link has no link: nobody else writes it.                    *)
Alone(a) == \A b \in Admins \ {a} : pc[b] = "idle"

SoloOK(a) ==
    Alone(a) /\ pc[a] \in {"post", "link"} => control[tenant[a]].rag = NoRag

KeptInv == IInv /\ \A a \in Admins : SoloOK(a)

LEMMA InitKept == Init => KeptInv
<1>1. Init => \A a \in Admins : SoloOK(a)
  BY DEF Init, SoloOK
<1> QED BY <1>1, InitInv DEF KeptInv

(* A request that has just read its row goes on only without a link; one   *)
(* that was alone has its row as it was, for another request's step leaves *)
(* a stage behind.                                                         *)
LEMMA StepKept == ASSUME KeptInv, [Next]_vars PROVE KeptInv'
<1>1. IInv /\ IInv' /\ TypeOK
  BY StepInv DEF KeptInv, IInv
<1> SUFFICES ASSUME NEW a \in Admins PROVE SoloOK(a)'
  BY <1>1 DEF KeptInv
<1>2. SoloOK(a)
  BY DEF KeptInv
<1>3. ASSUME pc'[a] = pc[a], tenant'[a] = tenant[a], control' = control,
             \A b \in Admins : pc'[b] = "idle" => pc[b] = "idle"
      PROVE  SoloOK(a)'
  BY <1>2, <1>3 DEF SoloOK, Alone
<1>4. CASE UNCHANGED vars
  BY <1>3, <1>4 DEF vars, request
<1>5. ASSUME NEW t \in Tenants, NEW n \in Names, CreateChannel(t, n) PROVE SoloOK(a)'
  <2>1. control' = [control EXCEPT ![t] = [name |-> n, rag |-> NoRag]]
        /\ UNCHANGED <<pc, tenant>>
    BY <1>5 DEF CreateChannel, request
  <2>2. pc[a] \in {"post", "link"} => tenant[a] \in Tenants
    BY <1>1 DEF IInv, RequestInv, RequestOK
  <2>3. \A u \in Tenants : control'[u].rag = NoRag \/ control'[u] = control[u]
    BY <1>1, <2>1 DEF TypeOK
  <2> QED BY <1>2, <2>1, <2>2, <2>3 DEF SoloOK, Alone
<1>6. ASSUME NEW b \in Admins, NEW t \in Tenants, NEW n \in Names, ReadChannel(b, t, n)
      PROVE  SoloOK(a)'
  <2>1. pc'[b] # "idle" /\ control' = control /\ tenant' = [tenant EXCEPT ![b] = t]
        /\ (pc'[b] = "post" => control[t].rag = NoRag) /\ pc'[b] # "link"
    BY <1>1, <1>6 DEF ReadChannel, TypeOK
  <2>2. CASE a = b
    BY <1>1, <2>1, <2>2 DEF SoloOK, TypeOK
  <2>3. CASE a # b
    BY <2>1, <2>3 DEF SoloOK, Alone
  <2> QED BY <2>2, <2>3
<1>7. ASSUME NEW b \in Admins, PostChannel(b) PROVE SoloOK(a)'
  <2>1. pc[b] = "post" /\ pc' = [pc EXCEPT ![b] = "link"] /\ UNCHANGED <<control, tenant>>
    BY <1>7 DEF PostChannel
  <2>2. pc'[a] = pc[a] \/ (pc[a] = "post" /\ pc'[a] = "link")
    BY <1>1, <2>1 DEF TypeOK
  <2>3. \A c \in Admins : pc'[c] = "idle" => pc[c] = "idle"
    BY <1>1, <2>1 DEF TypeOK
  <2> QED BY <1>2, <2>1, <2>2, <2>3 DEF SoloOK, Alone
<1>8. ASSUME NEW b \in Admins,
             PostFails(b) \/ PostTimesOut(b) \/ LinkChannel(b) \/ LinkFails(b)
      PROVE  SoloOK(a)'
  <2>1. pc'[b] \notin {"idle", "post", "link"}
    BY <1>1, <1>8 DEF PostFails, PostTimesOut, LinkChannel, LinkFails, TypeOK
  <2> QED BY <2>1 DEF SoloOK, Alone
<1>9. ASSUME NEW c \in Call, LateInsert(c) PROVE SoloOK(a)'
  BY <1>3, <1>9 DEF LateInsert, request
<1>10. ASSUME NEW t \in Tenants, Login(t) PROVE SoloOK(a)'
  BY <1>3, <1>10 DEF Login, request
<1>11. CASE Restart
  BY <1>11 DEF Restart, SoloOK
<1> QED BY <1>4, <1>5, <1>6, <1>7, <1>8, <1>9, <1>10, <1>11 DEF Next

(* The check of a link and the UPDATE that writes it are two transactions  *)
(* around an HTTP call; a request that is alone since the backend came up  *)
(* still replaces no link, whatever becomes of its call or of earlier ones.*)
THEOREM LinksAreKept == Spec => LinkIsKept
<1> DEFINE Keeps == (\E a \in Admins : Alone(a)) =>
                      \A t \in Tenants : control[t] # NoRow /\ control[t].rag # NoRag
                                            => control'[t] = control[t]
<1>1. ASSUME KeptInv, [Next]_vars PROVE [Keeps]_vars
  <2> SUFFICES ASSUME NEW a \in Admins, Alone(a), NEW t \in Tenants,
                      control[t] # NoRow, control[t].rag # NoRag
               PROVE  control'[t] = control[t]
    OBVIOUS
  <2>1. TypeOK
    BY <1>1 DEF KeptInv, IInv
  <2>2. ASSUME NEW u \in Tenants, NEW n \in Names, CreateChannel(u, n)
        PROVE  control'[t] = control[t]
    BY <2>1, <2>2 DEF CreateChannel, TypeOK
  <2>3. ASSUME NEW b \in Admins, LinkChannel(b) PROVE control'[t] = control[t]
    <3>1. a = b /\ pc[b] = "link"
      BY <2>3 DEF LinkChannel, Alone
    <3>2. control[tenant[b]].rag = NoRag
      BY <1>1, <3>1 DEF KeptInv, SoloOK
    <3>3. t # tenant[b]
      BY <3>2
    <3> QED BY <2>1, <2>3, <3>3 DEF LinkChannel, TypeOK
  <2> QED BY <1>1, <2>2, <2>3
          DEF Next, vars, ReadChannel, PostChannel, PostFails, PostTimesOut,
              LinkFails, LateInsert, Login, Restart
<1>2. Spec => []KeptInv
  BY InitKept, StepKept, PTL DEF Spec
<1> QED BY <1>1, <1>2, PTL DEF Spec, LinkIsKept, Alone
=============================================================================
