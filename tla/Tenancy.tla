------------------------------ MODULE Tenancy ------------------------------
(***************************************************************************)
(* How a tenant gets its corpus.  A tenant is a row of control.channel;    *)
(* an admin request (backend/admin.py create_and_link_rag_channel) reads   *)
(* it, asks rag_service for a row of public.channels over HTTP, and writes *)
(* the id back.  At login (backend/auth.py) the link is copied into a      *)
(* token, and every later query of that token goes to the channel of the   *)
(* copy (backend/orchestrator.py _query).                                  *)
(*                                                                         *)
(* The HTTP call may be lost, answered too late, or executed after its     *)
(* caller has given up; the backend may restart between any two steps.     *)
(***************************************************************************)
EXTENDS Integers, FiniteSets

CONSTANTS
    Admins,       \* backend threads that serve admin requests
    Tenants,      \* the channelids SERIAL may hand out
    Names,        \* names of tenants and of RAG channels
    RagIds,       \* the ids gen_random_uuid() may hand out
    MaxRequests,  \* bound on the number of link requests of a run
    NoRow, NoRag, NoTenant, NoName

ASSUME ConstantsAssumption ==
    /\ MaxRequests \in Nat
    /\ NoRow \notin [name : Names, rag : RagIds \cup {NoRag}]
    /\ NoRag \notin RagIds
    /\ NoTenant \notin Tenants
    /\ NoName \notin Names

VARIABLES
    control,   \* control.channel, by channelid
    channels,  \* public.channels of the RAG schema: the name of each id
    origin,    \* history: the tenant each RAG channel was made for
    pc,        \* stage of an admin request
    tenant,    \* its channelid
    name,      \* its rag_name
    made,      \* the channel_id rag_service has answered
    late,      \* calls whose caller has given up, and which may still run
    tokens,    \* the tokens handed out: tenant and rag_channel_id claims
    requests   \* how many link requests have been accepted

request == <<tenant, name, made>>
vars == <<control, channels, origin, pc, request, late, tokens, requests>>

ControlRow == [name : Names, rag : RagIds \cup {NoRag}]
Call       == [tenant : Tenants, name : Names]
Token      == [tenant : Tenants, rag : RagIds \cup {NoRag}]

Free == {"idle", "ok", "error"}

TypeOK ==
    /\ control \in [Tenants -> ControlRow \cup {NoRow}]
    /\ channels \in [RagIds -> Names \cup {NoName}]
    /\ origin \in [RagIds -> Tenants \cup {NoTenant}]
    /\ pc \in [Admins -> Free \cup {"post", "link"}]
    /\ tenant \in [Admins -> Tenants \cup {NoTenant}]
    /\ name \in [Admins -> Names \cup {NoName}]
    /\ made \in [Admins -> RagIds \cup {NoRag}]
    /\ late \subseteq Call
    /\ tokens \subseteq Token
    /\ requests \in Nat

Init ==
    /\ control = [t \in Tenants |-> NoRow]
    /\ channels = [r \in RagIds |-> NoName]
    /\ origin = [r \in RagIds |-> NoTenant]
    /\ pc = [a \in Admins |-> "idle"]
    /\ tenant = [a \in Admins |-> NoTenant]
    /\ name = [a \in Admins |-> NoName]
    /\ made = [a \in Admins |-> NoRag]
    /\ late = {}
    /\ tokens = {}
    /\ requests = 0

-----------------------------------------------------------------------------
(* POST /admin/channels: the name is UNIQUE, a duplicate is a 409.         *)
CreateChannel(t, n) ==
    /\ control[t] = NoRow
    /\ \A u \in Tenants : control[u] # NoRow => control[u].name # n
    /\ control' = [control EXCEPT ![t] = [name |-> n, rag |-> NoRag]]
    /\ UNCHANGED <<channels, origin, pc, request, late, tokens, requests>>

(* Mutated form of ReadChannel: a linked channel is not refused.           *)
ReadChannelUnchecked(a, t, n) ==
    /\ pc[a] \in Free
    /\ requests < MaxRequests
    /\ control[t] # NoRow
    /\ tenant' = [tenant EXCEPT ![a] = t]
    /\ name' = [name EXCEPT ![a] = n]
    /\ made' = [made EXCEPT ![a] = NoRag]
    /\ pc' = [pc EXCEPT ![a] = "post"]
    /\ requests' = requests + 1
    /\ UNCHANGED <<control, channels, origin, late, tokens>>

(* Mutated form of ReadChannel: the row's name is not the default.         *)
ReadChannelNoDefault(a, t, n) ==
    /\ pc[a] \in Free
    /\ requests < MaxRequests
    /\ control[t] # NoRow
    /\ tenant' = [tenant EXCEPT ![a] = t]
    /\ name' = [name EXCEPT ![a] = NoName]
    /\ made' = [made EXCEPT ![a] = NoRag]
    /\ pc' = [pc EXCEPT ![a] = "post"]
    /\ requests' = requests + 1
    /\ UNCHANGED <<control, channels, origin, late, tokens>>

(* The read of the control row and the checks that follow it: 404 without  *)
(* a row, 409 when it is linked.  The name is the request's, or the row's. *)
ReadChannel(a, t, n) ==
    /\ pc[a] \in Free
    /\ requests < MaxRequests
    /\ tenant' = [tenant EXCEPT ![a] = t]
    /\ name' = [name EXCEPT ![a] = n]
    /\ made' = [made EXCEPT ![a] = NoRag]
    /\ pc' = [pc EXCEPT ![a] =
                IF control[t] = NoRow \/ control[t].rag # NoRag
                THEN "error" ELSE "post"]
    /\ requests' = requests + 1
    /\ UNCHANGED <<control, channels, origin, late, tokens>>

NameTaken(n) == \E r \in RagIds : channels[r] = n

(* Mutated form of Insert: a name that is taken returns its channel.       *)
InsertOrGet(t, n, r) ==
    \/ /\ channels[r] = n
       /\ UNCHANGED <<channels, origin>>
    \/ /\ ~NameTaken(n)
       /\ channels[r] = NoName
       /\ channels' = [channels EXCEPT ![r] = n]
       /\ origin' = [origin EXCEPT ![r] = t]

(* registry.create_channel: INSERT with a UNIQUE name and a fresh id.      *)
Insert(t, n, r) ==
    /\ ~NameTaken(n)
    /\ channels[r] = NoName
    /\ channels' = [channels EXCEPT ![r] = n]
    /\ origin' = [origin EXCEPT ![r] = t]

(* rag_service executes the call and the answer arrives.                   *)
PostChannel(a) ==
    /\ pc[a] = "post"
    /\ \E r \in RagIds : /\ Insert(tenant[a], name[a], r)
                         /\ made' = [made EXCEPT ![a] = r]
    /\ pc' = [pc EXCEPT ![a] = "link"]
    /\ UNCHANGED <<control, tenant, name, late, tokens, requests>>

(* 500 for a name that is taken, or no answer from rag_service: 502.       *)
PostFails(a) ==
    /\ pc[a] = "post"
    /\ pc' = [pc EXCEPT ![a] = "error"]
    /\ UNCHANGED <<control, channels, origin, request, late, tokens, requests>>

(* RAG_TIMEOUT: the caller gives up on a call that is still to be executed *)
(* or whose answer is lost.                                                *)
PostTimesOut(a) ==
    /\ pc[a] = "post"
    /\ pc' = [pc EXCEPT ![a] = "error"]
    /\ late' = late \cup {[tenant |-> tenant[a], name |-> name[a]]}
    /\ UNCHANGED <<control, channels, origin, request, tokens, requests>>

LateInsert(c) ==
    /\ c \in late
    /\ \E r \in RagIds : Insert(c.tenant, c.name, r)
    /\ late' = late \ {c}
    /\ UNCHANGED <<control, pc, request, tokens, requests>>

(* UPDATE ... SET rag_channel_id WHERE channelid: nothing is asked of the  *)
(* row but that rag_channel_id stays UNIQUE.                               *)
LinkChannel(a) ==
    /\ pc[a] = "link"
    /\ IF \E t \in Tenants \ {tenant[a]} :
             control[t] # NoRow /\ control[t].rag = made[a]
       THEN /\ pc' = [pc EXCEPT ![a] = "error"]
            /\ UNCHANGED control
       ELSE /\ pc' = [pc EXCEPT ![a] = "ok"]
            /\ control' = [control EXCEPT ![tenant[a]] =
                             [name |-> @.name, rag |-> made[a]]]
    /\ UNCHANGED <<channels, origin, request, late, tokens, requests>>

(* The answer is lost or malformed, or the UPDATE fails.                   *)
LinkFails(a) ==
    /\ pc[a] = "link"
    /\ pc' = [pc EXCEPT ![a] = "error"]
    /\ UNCHANGED <<control, channels, origin, request, late, tokens, requests>>

(* db_login and create_token: the link of the user's tenant as it is now.  *)
Login(t) ==
    /\ control[t] # NoRow
    /\ tokens' = tokens \cup {[tenant |-> t, rag |-> control[t].rag]}
    /\ UNCHANGED <<control, channels, origin, pc, request, late, requests>>

(* The backend process dies; its calls may still be executed.              *)
Restart ==
    /\ late' = late \cup {[tenant |-> tenant[a], name |-> name[a]] :
                            a \in {b \in Admins : pc[b] = "post"}}
    /\ pc' = [a \in Admins |-> "idle"]
    /\ tenant' = [a \in Admins |-> NoTenant]
    /\ name' = [a \in Admins |-> NoName]
    /\ made' = [a \in Admins |-> NoRag]
    /\ UNCHANGED <<control, channels, origin, tokens, requests>>

Next ==
    \/ \E t \in Tenants, n \in Names : CreateChannel(t, n)
    \/ \E a \in Admins :
        \/ \E t \in Tenants, n \in Names : ReadChannel(a, t, n)
        \/ PostChannel(a) \/ PostFails(a) \/ PostTimesOut(a)
        \/ LinkChannel(a) \/ LinkFails(a)
    \/ \E c \in Call : LateInsert(c)
    \/ \E t \in Tenants : Login(t)
    \/ Restart

Spec == Init /\ [][Next]_vars

-----------------------------------------------------------------------------
(* Properties                                                              *)

(* Tenant isolation across the two schemas: a link names a channel that    *)
(* exists and was made for that tenant, and so does every token ever       *)
(* handed out, although tokens keep links that have since been replaced    *)
(* and calls run after their callers have given up.                        *)
LinksStayInTenant ==
    /\ \A t \in Tenants :
         control[t] # NoRow /\ control[t].rag # NoRag =>
            /\ channels[control[t].rag] # NoName
            /\ origin[control[t].rag] = t
    /\ \A k \in tokens : k.rag # NoRag => origin[k.rag] = k.tenant

(* A tenant that is linked stays linked to the same channel, so tokens and *)
(* the frontend's dropdowns do not go stale, unless two admin requests     *)
(* have been at work since the backend came up: the check and the UPDATE   *)
(* are two transactions.  Lost and late calls, failures and restarts never *)
(* replace a link.                                                         *)
LinkIsKept ==
    [][(\E a \in Admins : \A b \in Admins \ {a} : pc[b] = "idle") =>
         \A t \in Tenants :
            control[t] # NoRow /\ control[t].rag # NoRag
                => control'[t] = control[t]]_vars
=============================================================================
