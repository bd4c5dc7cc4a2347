---------------------------- MODULE ConsoleProofs ----------------------------
(***************************************************************************)
(* Proofs about Console, for any number of channels, reports, logins and   *)
(* clicks: the screens follow the session, only admins change anything,    *)
(* and who waits for answers sees a conversation of their own.             *)
(***************************************************************************)
EXTENDS Console, SequenceTheorems, TLAPS

(* What the handlers may return.                                           *)
Chats   == [chat : Seq(Exchange)]
Choices == [choices : SUBSET Reports]
Lists   == [unlinked : SUBSET Channels, linked : SUBSET Channels]
SignIns == [session : Logins \ {0}, main : {TRUE}, tabs : BOOLEAN,
            unlinked : SUBSET Channels, linked : SUBSET Channels]
Updates == Chats \cup Choices \cup Lists \cup SignIns
             \cup {Nothing, SignedOut, LeavingPage}

Event == [stage : Stages, by : Logins, token : Logins, history : Seq(Exchange),
          blank : BOOLEAN, channel : Channels \cup {NoChannel},
          report : Reports \cup {NoReport}, update : Updates]

-----------------------------------------------------------------------------
(* How far a listener's event can be, and what its handler returns.        *)
StageOK(l) ==
    LET s == events[l].stage
    IN  /\ l = "add" /\ s # "idle" => events[l].channel # NoChannel
        /\ s = "running" => l \in Senders \cup AdminOnly
        /\ s = "listing" => l \in {"login", "add", "link", "delete"}
        /\ s = "answered" =>
             LET u == events[l].update
             IN  \/ l \in Senders /\ u \in Chats
                 \/ l \in {"load", "delete"} /\ u \in Choices
                 \/ l \in {"refresh", "add", "link"} /\ u \in Lists
                 \/ l = "login" /\ u \in SignIns \cup {SignedOut}
                 \/ l = "logout" /\ u = LeavingPage

(* Every answer was a click: what is not answered yet is one of a sender.  *)
Unanswered(l) == IF events[l].stage \in {"queued", "running"} THEN 1 ELSE 0

Typed ==
    /\ page \in Page
    /\ events \in [Listeners -> Event]
    /\ links \subseteq known /\ known \subseteq Channels
    /\ stored \subseteq {r \in Reports : Home[r] \in links}
    /\ admin \in Seq(BOOLEAN) /\ Len(admin) <= MaxLogins
    /\ writers \subseteq Exchange
    /\ answers \in Nat /\ clicks \in 0 .. MaxClicks
    /\ answers + Unanswered("enter") + Unanswered("send") <= clicks
    /\ patient \in BOOLEAN
    /\ \A l \in Listeners : StageOK(l)

(* A login that has happened, and one of an admin.                         *)
Real(n)    == n \in 1 .. Len(admin)
OfAdmin(n) == Real(n) /\ admin[n]

(* What a login is about to show is what its token carries.                *)
SignInOK(u) == u = SignedOut \/ (Real(u.session) /\ u.tabs = admin[u.session])

SessionInv ==
    /\ LoggedIn => Real(page.session)
    /\ ScreenMatchesSession
    /\ events["login"].stage = "listing" => Real(events["login"].token)
    /\ events["login"].stage = "answered" => SignInOK(events["login"].update)

(* Only admins have clicked what is on the admin tabs.                     *)
AdminInv ==
    /\ \A l \in AdminOnly : events[l].stage # "idle" => OfAdmin(events[l].by)
    /\ \A l \in AdminOnly : events[l].stage = "running" => Real(events[l].token)
    /\ \A w \in writers : OfAdmin(w.by) /\ OfAdmin(w.token)

IInv == Typed /\ SessionInv /\ AdminInv

-----------------------------------------------------------------------------
(* What reaches the page.                                                  *)
LEMMA ChatReaches ==
    ASSUME page \in Page, NEW u \in Chats
    PROVE  Updated(u) = [page EXCEPT !.chat = u.chat] /\ Updated(u) \in Page
  BY DEF Updated, Page, Chats

LEMMA ChoicesReach ==
    ASSUME page \in Page, NEW u \in Choices
    PROVE  Updated(u) = [page EXCEPT !.choices = u.choices] /\ Updated(u) \in Page
  BY DEF Updated, Page, Choices

LEMMA ListsReach ==
    ASSUME page \in Page, NEW u \in Lists
    PROVE  /\ Updated(u) = [page EXCEPT !.unlinked = u.unlinked, !.linked = u.linked]
           /\ Updated(u) \in Page
  BY DEF Updated, Page, Lists

LEMMA SignInReaches ==
    ASSUME page \in Page, NEW u \in SignIns \cup {SignedOut}
    PROVE  /\ Updated(u) = [page EXCEPT !.session = u.session, !.main = u.main,
                                        !.tabs = u.tabs, !.unlinked = u.unlinked,
                                        !.linked = u.linked]
           /\ Updated(u) \in Page
<1>1. CASE u \in SignIns
  BY <1>1 DEF Updated, Page, SignIns
<1>2. CASE u = SignedOut
  <2>1. 0 \in Logins
    BY ConsoleAssumption DEF Logins
  <2>2. /\ DOMAIN u = {"session", "main", "tabs", "unlinked", "linked"}
        /\ u.session \in Logins /\ u.main \in BOOLEAN /\ u.tabs \in BOOLEAN
        /\ u.unlinked \subseteq Channels /\ u.linked \subseteq Channels
    BY <1>2, <2>1 DEF SignedOut
  <2> QED BY <2>2 DEF Updated, Page
<1> QED BY <1>1, <1>2

LEMMA LeavingReaches ==
    ASSUME page \in Page
    PROVE  Updated(LeavingPage) = LeavingPage /\ LeavingPage \in Page
  BY ConsoleAssumption DEF Updated, Page, LeavingPage, Logins

LEMMA NothingReaches ==
    ASSUME page \in Page
    PROVE  Updated(Nothing) = page
  BY DEF Updated, Page, Nothing

LEMMA IdleIsEvent == Idle \in Event /\ Idle.stage = "idle"
  BY ConsoleAssumption DEF Idle, Event, Updates, Stages, Logins

LEMMA ListenersKnown ==
    /\ Senders \subseteq Listeners /\ AdminOnly \subseteq Listeners
    /\ "login" \in Listeners /\ "logout" \in Listeners
    /\ "login" \notin AdminOnly /\ "login" \notin Senders
    /\ "logout" \notin AdminOnly /\ "logout" \notin Senders
    /\ Senders \cap AdminOnly = {}
    /\ "enter" \in Senders /\ "send" \in Senders /\ Senders = {"enter", "send"}
  BY DEF Senders, AdminOnly, Listeners


-----------------------------------------------------------------------------
(* One event goes on, the others stay.                                     *)
LEMMA OthersStay ==
    ASSUME Typed, NEW l \in Listeners, NEW e \in Event,
           events' = [events EXCEPT ![l] = e]
    PROVE  /\ events' \in [Listeners -> Event] /\ events'[l] = e
           /\ \A k \in Listeners \ {l} :
                events'[k] = events[k] /\ StageOK(k)'
                /\ Unanswered(k)' = Unanswered(k)
  BY DEF Typed, StageOK, Unanswered

LEMMA TypedStep ==
    ASSUME Typed, NEW l \in Listeners, NEW e \in Event,
           events' = [events EXCEPT ![l] = e], StageOK(l)',
           page' \in Page, UNCHANGED patient,
           links' \subseteq known' /\ known' \subseteq Channels,
           stored' \subseteq {r \in Reports : Home[r] \in links'},
           admin' \in Seq(BOOLEAN) /\ Len(admin') <= MaxLogins,
           writers' \subseteq Exchange,
           answers' \in Nat, clicks' \in 0 .. MaxClicks,
           l \in Senders =>
             answers' + Unanswered(l)' - clicks' <= answers + Unanswered(l) - clicks,
           l \notin Senders => answers' - clicks' <= answers - clicks
    PROVE  Typed'
<1>1. events' \in [Listeners -> Event] /\ \A k \in Listeners \ {l} :
        StageOK(k)' /\ Unanswered(k)' = Unanswered(k)
  BY OthersStay
<1>2. \A k \in Listeners : StageOK(k)'
  BY <1>1
<1>3. Unanswered("enter") \in {0, 1} /\ Unanswered("send") \in {0, 1}
      /\ Unanswered("enter")' \in {0, 1} /\ Unanswered("send")' \in {0, 1}
  BY DEF Unanswered
<1>4. answers' + Unanswered("enter")' + Unanswered("send")' <= clicks'
  <2>1. answers \in Nat /\ clicks \in Nat /\ clicks' \in Nat
        /\ answers + Unanswered("enter") + Unanswered("send") <= clicks
    BY ConsoleAssumption DEF Typed
  <2>2. CASE l = "enter"
    <3>1. Unanswered("send")' = Unanswered("send")
      BY <1>1, <2>2, ListenersKnown
    <3> QED BY <1>3, <2>1, <2>2, <3>1, ListenersKnown
  <2>3. CASE l = "send"
    <3>1. Unanswered("enter")' = Unanswered("enter")
      BY <1>1, <2>3, ListenersKnown
    <3> QED BY <1>3, <2>1, <2>3, <3>1, ListenersKnown
  <2>4. CASE l \notin Senders
    <3>1. Unanswered("enter")' = Unanswered("enter")
          /\ Unanswered("send")' = Unanswered("send")
      BY <1>1, <2>4, ListenersKnown
    <3>2. answers' - clicks' <= answers - clicks
      BY <2>4
    <3>3. \A n, m, a, b, c, d \in Nat :
            a + n + m <= c /\ b - d <= a - c => b + n + m <= d
      OBVIOUS
    <3> QED BY <1>3, <2>1, <3>1, <3>2, <3>3
  <2> QED BY <2>2, <2>3, <2>4, ListenersKnown
<1> QED BY <1>1, <1>2, <1>4 DEF Typed

(* Logins are only added.                                                  *)
LEMMA LoginsStay ==
    ASSUME Typed, NEW b \in BOOLEAN, admin' = Append(admin, b)
    PROVE  /\ admin' \in Seq(BOOLEAN) /\ Len(admin') = Len(admin) + 1
           /\ admin'[Len(admin')] = b /\ Len(admin') \in 1 .. Len(admin')
           /\ \A n : (Real(n) => Real(n)' /\ admin'[n] = admin[n])
           /\ \A n : (OfAdmin(n) => OfAdmin(n)')
<1>1. /\ admin' \in Seq(BOOLEAN) /\ Len(admin') = Len(admin) + 1
      /\ \A n \in 1 .. Len(admin) : admin'[n] = admin[n]
      /\ admin'[Len(admin) + 1] = b
  BY AppendProperties DEF Typed
<1>2. Len(admin) \in Nat
  BY LenProperties DEF Typed
<1>3. /\ \A n \in 1 .. Len(admin) : n \in 1 .. Len(admin')
      /\ Len(admin') \in 1 .. Len(admin')
  BY <1>1, <1>2
<1>4. \A n : (Real(n) => Real(n)' /\ admin'[n] = admin[n])
  BY <1>1, <1>3 DEF Real
<1>5. \A n : (OfAdmin(n) => OfAdmin(n)')
  BY <1>4 DEF OfAdmin
<1> QED BY <1>1, <1>3, <1>4, <1>5

(* A step that leaves the logins alone.                                    *)
LEMMA SessionStep ==
    ASSUME Typed, SessionInv, NEW l \in Listeners, NEW e \in Event,
           events' = [events EXCEPT ![l] = e], UNCHANGED <<page, admin>>,
           l = "login" =>
             /\ e.stage = "listing" => Real(e.token)
             /\ e.stage = "answered" => SignInOK(e.update)
    PROVE  SessionInv'
<1>1. events'["login"] = IF l = "login" THEN e ELSE events["login"]
  BY ListenersKnown DEF Typed
<1> QED BY <1>1
      DEF SessionInv, ScreenMatchesSession, LoggedIn, Real, SignInOK

LEMMA AdminStep ==
    ASSUME Typed, AdminInv, NEW l \in Listeners, NEW e \in Event,
           events' = [events EXCEPT ![l] = e], UNCHANGED admin,
           l \in AdminOnly => /\ e.stage # "idle" => OfAdmin(e.by)
                              /\ e.stage = "running" => Real(e.token),
           \A w \in writers' \ writers : OfAdmin(w.by) /\ OfAdmin(w.token)
    PROVE  AdminInv'
<1>1. \A k \in AdminOnly : events'[k] = IF k = l THEN e ELSE events[k]
  BY ListenersKnown DEF Typed
<1>2. \A n : (Real(n)' <=> Real(n)) /\ (OfAdmin(n)' <=> OfAdmin(n))
  BY DEF Real, OfAdmin
<1> QED BY <1>1, <1>2 DEF AdminInv


-----------------------------------------------------------------------------
(* What each action does to the types and to the two invariants.           *)
LEMMA ClickedEvent ==
    ASSUME Typed, NEW l \in Listeners, Click(l)
    PROVE  \E e \in Event :
             /\ events' = [events EXCEPT ![l] = e]
             /\ e.stage = "queued" /\ e.by = page.session /\ e.history = page.chat
             /\ l = "add" => e.channel # NoChannel
<1>1. PICK c \in Selectable(l),
           r \in (IF l = "delete" THEN page.choices \cup {NoReport} ELSE {NoReport}),
           blank \in (IF l \in Senders THEN BOOLEAN ELSE {FALSE}) :
        events' = [events EXCEPT ![l] =
                      [Idle EXCEPT !.stage = "queued", !.by = page.session,
                                   !.history = page.chat, !.blank = blank,
                                   !.channel = c, !.report = r]]
  BY DEF Click
<1>2. c \in Channels \cup {NoChannel} /\ r \in Reports \cup {NoReport}
      /\ blank \in BOOLEAN
  BY DEF Selectable, Typed, Page
<1>3. page.session \in Logins /\ page.chat \in Seq(Exchange)
  BY DEF Typed, Page
<1> DEFINE e == [Idle EXCEPT !.stage = "queued", !.by = page.session,
                             !.history = page.chat, !.blank = blank,
                             !.channel = c, !.report = r]
<1>4. e \in Event
  BY <1>2, <1>3, IdleIsEvent DEF Event, Stages
<1>5. e.stage = "queued" /\ e.by = page.session
      /\ e.history = page.chat /\ e.channel = c
  BY IdleIsEvent DEF Event
<1>6. l = "add" => c # NoChannel
  BY ConsoleAssumption DEF Selectable
<1> QED BY <1>1, <1>4, <1>5, <1>6

LEMMA ClickInv ==
    ASSUME IInv, NEW l \in Listeners, Click(l)
    PROVE  IInv'
<1>1. PICK e \in Event :
        /\ events' = [events EXCEPT ![l] = e]
        /\ e.stage = "queued" /\ e.by = page.session
        /\ l = "add" => e.channel # NoChannel
  BY ClickedEvent DEF IInv
<1>2. events[l] = Idle /\ clicks < MaxClicks /\ clicks' = clicks + 1
      /\ UNCHANGED <<page, backend, admin, writers, answers, patient>>
  BY DEF Click
<1>3. Typed /\ SessionInv /\ AdminInv
  BY DEF IInv
<1>4. events'[l] = e
  BY <1>1, <1>3, OthersStay
<1>5. Typed'
  <2>1. StageOK(l)' /\ Unanswered(l)' = 1 /\ Unanswered(l) = 0
    BY <1>1, <1>2, <1>4, IdleIsEvent DEF StageOK, Unanswered
  <2>2. clicks' \in 0 .. MaxClicks /\ answers \in Nat /\ clicks \in Nat
    BY <1>2, <1>3, ConsoleAssumption DEF Typed
  <2>3. /\ answers' + Unanswered(l)' - clicks' <= answers + Unanswered(l) - clicks
        /\ answers' - clicks' <= answers - clicks
    BY <1>2, <2>1, <2>2
  <2> QED BY <1>1, <1>2, <1>3, <2>2, <2>1, <2>3, TypedStep DEF Typed, backend
<1>6. SessionInv'
  BY <1>1, <1>2, <1>3, SessionStep
<1>7. l \in AdminOnly => OfAdmin(e.by)
  BY <1>1, <1>3, ListenersKnown
     DEF Click, OnScreen, SessionInv, ScreenMatchesSession, LoggedIn, OfAdmin, Real
<1>8. AdminInv'
  BY <1>1, <1>2, <1>3, <1>7, AdminStep
<1> QED BY <1>5, <1>6, <1>8 DEF IInv

LEMMA RefuseInv ==
    ASSUME IInv, NEW l \in Listeners, Refuse(l)
    PROVE  IInv'
<1>1. /\ l \in Senders \cup AdminOnly /\ events[l].stage = "queued"
      /\ page' = Updated(Refusal(l))
      /\ events' = [events EXCEPT ![l] = Idle]
      /\ UNCHANGED <<backend, admin, writers, answers, people>>
  BY DEF Refuse
<1>2. Typed /\ SessionInv /\ AdminInv /\ page \in Page
  BY DEF IInv, Typed
<1>3. page' \in Page /\ page'.session = page.session /\ page'.main = page.main
      /\ page'.tabs = page.tabs
  <2>1. CASE l \in Senders
    <3>1. events[l].history \in Seq(Exchange) /\ events[l].by \in Logins
      BY <1>2, <2>1, ListenersKnown DEF Typed, Event
    <3>2. Append(events[l].history, [by |-> events[l].by, token |-> 0]) \in Seq(Exchange)
      BY <3>1, ConsoleAssumption, AppendProperties DEF Exchange, Logins
    <3>3. PICK h \in Seq(Exchange) : Refusal(l) = [chat |-> h]
      BY <2>1, <3>1, <3>2, ListenersKnown DEF Refusal
    <3>4. Refusal(l) \in Chats
      BY <3>3 DEF Chats
    <3> QED BY <1>1, <1>2, <3>4, ChatReaches DEF Page
  <2>2. CASE l = "load"
    <3>1. Refusal(l) \in Choices
      BY <2>2, ListenersKnown DEF Refusal, Choices, Senders
    <3> QED BY <1>1, <1>2, <3>1, ChoicesReach DEF Page
  <2>3. CASE l \notin Senders /\ l # "load"
    <3>1. Refusal(l) = Nothing
      BY <2>3 DEF Refusal
    <3> QED BY <1>1, <1>2, <3>1, NothingReaches
  <2> QED BY <2>1, <2>2, <2>3
<1>4. Idle \in Event /\ events'[l] = Idle /\ Idle.stage = "idle"
  BY <1>1, <1>2, IdleIsEvent, OthersStay
<1>5. Typed'
  <2>1. StageOK(l)' /\ Unanswered(l)' = 0 /\ Unanswered(l) = 1
    BY <1>1, <1>4 DEF StageOK, Unanswered
  <2>2. answers \in Nat /\ clicks \in Nat
    BY <1>2, ConsoleAssumption DEF Typed
  <2>3. /\ answers' + Unanswered(l)' - clicks' <= answers + Unanswered(l) - clicks
        /\ answers' - clicks' <= answers - clicks
    BY <1>1, <2>1, <2>2 DEF people
  <2> QED BY <1>1, <1>2, <1>3, <1>4, <2>1, <2>3, TypedStep
          DEF Typed, backend, people
<1>6. SessionInv'
  <2>1. events'["login"] = events["login"]
    BY <1>1, <1>2, ListenersKnown DEF Typed
  <2> QED BY <1>1, <1>2, <1>3, <2>1
          DEF SessionInv, ScreenMatchesSession, LoggedIn, Real, SignInOK
<1>7. AdminInv'
  BY <1>1, <1>2, <1>4, AdminStep
<1> QED BY <1>5, <1>6, <1>7 DEF IInv

(* What a handler does while it runs: the page stays, and its event gets a *)
(* stage, a token or an update.                                            *)
LEMMA RunInv ==
    ASSUME IInv, NEW l \in Listeners, NEW e \in Event,
           events' = [events EXCEPT ![l] = e],
           UNCHANGED <<page, admin, people>>, e.by = events[l].by,
           events[l].stage # "idle", e.stage # "queued",
           StageOK(l)',
           links' \subseteq known' /\ known' \subseteq Channels,
           stored' \subseteq {r \in Reports : Home[r] \in links'},
           writers' \subseteq Exchange,
           \A w \in writers' \ writers : OfAdmin(w.by) /\ OfAdmin(w.token),
           \/ UNCHANGED answers /\ e.stage = "running" /\ events[l].stage = "queued"
           \/ UNCHANGED answers /\ e.stage # "running"
           \/ l \in Senders /\ answers' = answers + 1 /\ events[l].stage = "running"
              /\ e.stage = "answered",
           e.stage = "running" => Real(e.token),
           l = "login" => /\ e.stage = "listing" => Real(e.token)
                          /\ e.stage = "answered" => SignInOK(e.update)
    PROVE  IInv'
<1>1. Typed /\ SessionInv /\ AdminInv /\ answers \in Nat /\ clicks \in Nat
  BY ConsoleAssumption DEF IInv, Typed
<1>2. events'[l] = e
  BY <1>1, OthersStay
<1>3. Typed'
  <2>1. answers' \in Nat /\ Unanswered(l)' \in {0, 1} /\ Unanswered(l) \in {0, 1}
    BY <1>1 DEF Unanswered
  <2>2. answers' + Unanswered(l)' <= answers + Unanswered(l) \/ l \notin Senders
    BY <1>1, <1>2 DEF Unanswered
  <2>3. l \notin Senders => answers' = answers
    OBVIOUS
  <2>4. l \in Senders =>
             answers' + Unanswered(l)' - clicks' <= answers + Unanswered(l) - clicks
    BY <1>1, <2>1, <2>2 DEF people
  <2>5. l \notin Senders => answers' - clicks' <= answers - clicks
    BY <1>1, <2>3 DEF people
  <2> QED BY <1>1, <2>1, <2>4, <2>5, TypedStep DEF Typed, people
<1>4. SessionInv'
  BY <1>1, SessionStep
<1>5. AdminInv'
  BY <1>1, AdminStep DEF AdminInv
<1> QED BY <1>3, <1>4, <1>5 DEF IInv


LEMMA EventType ==
    ASSUME Typed, NEW l \in Listeners
    PROVE  /\ events[l] \in Event
           /\ \A s \in Stages : [events[l] EXCEPT !.stage = s] \in Event
           /\ \A s \in Stages, n \in Logins :
                [events[l] EXCEPT !.stage = s, !.token = n] \in Event
           /\ \A s \in Stages, u \in Updates :
                [events[l] EXCEPT !.stage = s, !.update = u] \in Event
           /\ MadeBy(l) \in Exchange
           /\ MadeBy(l).by = events[l].by /\ MadeBy(l).token = events[l].token
  BY DEF Typed, Event, MadeBy, Exchange

LEMMA StartInv ==
    ASSUME IInv, NEW l \in Listeners, Start(l)
    PROVE  IInv'
<1> DEFINE e == [events[l] EXCEPT !.stage = "running", !.token = page.session]
<1>1. Typed /\ page.session \in Logins
  BY DEF IInv, Typed, Page
<1>2. e \in Event /\ e.stage = "running" /\ e.token = page.session
      /\ e.by = events[l].by /\ e.channel = events[l].channel
  <2>1. events[l] \in Event /\ "running" \in Stages
    BY <1>1, EventType DEF Stages
  <2>2. e \in Event
    BY <1>1, <2>1, EventType
  <2>3. e.stage = "running" /\ e.token = page.session /\ e.by = events[l].by
        /\ e.channel = events[l].channel
    BY <2>1 DEF Event
  <2> QED BY <2>2, <2>3
<1>3. events' = [events EXCEPT ![l] = e]
  BY <1>1 DEF Start, Typed, Event
<1>4. Real(page.session)
  BY DEF Start, IInv, SessionInv
<1> HIDE DEF e
<1>5. StageOK(l)'
  <2>1. StageOK(l) /\ events'[l] = e
    BY <1>1, <1>2, <1>3, OthersStay DEF Typed
  <2> QED BY <1>2, <2>1 DEF Start, StageOK
<1> QED BY <1>1, <1>2, <1>3, <1>4, <1>5, RunInv, ListenersKnown
        DEF Start, IInv, Typed, backend

LEMMA AnswerInv ==
    ASSUME IInv, NEW l \in Listeners, NEW u \in Updates, Answered(l, u),
           UNCHANGED <<page, backend, admin, writers, people>>,
           events[l].stage # "idle",
           \/ l \in Senders /\ u \in Chats /\ answers' = answers + 1
              /\ events[l].stage = "running"
           \/ l \in {"load", "delete"} /\ u \in Choices /\ UNCHANGED answers
           \/ l \in {"refresh", "add", "link"} /\ u \in Lists /\ UNCHANGED answers
           \/ l = "login" /\ u \in SignIns \cup {SignedOut} /\ SignInOK(u)
              /\ UNCHANGED answers
           \/ l = "logout" /\ u = LeavingPage /\ UNCHANGED answers
    PROVE  IInv'
<1> DEFINE e == [events[l] EXCEPT !.stage = "answered", !.update = u]
<1>1. Typed
  BY DEF IInv
<1>2. e \in Event /\ e.stage = "answered" /\ e.update = u
      /\ e.by = events[l].by /\ e.channel = events[l].channel
  <2>1. events[l] \in Event /\ "answered" \in Stages
    BY <1>1, EventType DEF Stages
  <2>2. e \in Event
    BY <1>1, <2>1, EventType
  <2>3. e.stage = "answered" /\ e.update = u /\ e.by = events[l].by
        /\ e.channel = events[l].channel
    BY <2>1 DEF Event
  <2> QED BY <2>2, <2>3
<1>3. events' = [events EXCEPT ![l] = e]
  BY <1>1 DEF Answered, Typed, Event
<1> HIDE DEF e
<1>4. StageOK(l)'
  <2>1. StageOK(l) /\ events'[l] = e
    BY <1>1, <1>2, <1>3, OthersStay DEF Typed
  <2> QED BY <1>2, <2>1 DEF StageOK
<1>5. /\ links' \subseteq known' /\ known' \subseteq Channels
      /\ stored' \subseteq {r \in Reports : Home[r] \in links'}
      /\ writers' \subseteq Exchange /\ writers' \ writers = {}
  BY <1>1 DEF Typed, backend
<1> QED BY <1>1, <1>2, <1>3, <1>4, <1>5, RunInv, ListenersKnown DEF people

LEMMA AskInv ==
    ASSUME IInv, NEW l \in Listeners, Ask(l)
    PROVE  IInv'
<1> DEFINE u == [chat |-> Append(events[l].history, MadeBy(l))]
<1>1. Typed
  BY DEF IInv
<1>2. u \in Chats
  BY <1>1, EventType, AppendProperties DEF Chats, Event
<1>3. u \in Updates
  BY <1>2 DEF Updates
<1> QED BY <1>2, <1>3, AnswerInv DEF Ask

LEMMA EffectType ==
    ASSUME Typed, NEW l \in Listeners, Effect(l), events[l].stage = "running"
    PROVE  /\ links' \subseteq known' /\ known' \subseteq Channels
           /\ stored' \subseteq {r \in Reports : Home[r] \in links'}
           /\ l \in {"add", "link", "delete", "ingest"}
<1>1. events[l].channel \in Channels \cup {NoChannel}
  BY DEF Typed, Event
<1>2. l = "add" => events[l].channel # NoChannel
  BY DEF Typed, StageOK
<1>3. CASE l = "add" /\ known' = known \cup {events[l].channel}
           /\ UNCHANGED <<links, stored>>
  BY <1>1, <1>2, <1>3 DEF Typed
<1>4. CASE l # "add"
  BY <1>4, ConsoleAssumption DEF Typed, Effect
<1> QED BY <1>3, <1>4 DEF Effect


(* An admin's handler goes on, and the page stays.                         *)
LEMMA QuietStep ==
    ASSUME Typed, NEW l \in Listeners \ Senders, NEW e \in Event,
           events' = [events EXCEPT ![l] = e], StageOK(l)',
           UNCHANGED <<page, admin, answers, people>>,
           links' \subseteq known' /\ known' \subseteq Channels,
           stored' \subseteq {r \in Reports : Home[r] \in links'},
           writers' \subseteq Exchange
    PROVE  Typed'
<1>1. answers \in Nat /\ clicks \in 0 .. MaxClicks /\ clicks \in Nat
      /\ answers' = answers /\ clicks' = clicks
  BY ConsoleAssumption DEF Typed, people
<1>2. answers' - clicks' <= answers - clicks
  BY <1>1
<1>3. /\ page' \in Page /\ patient' = patient
      /\ admin' \in Seq(BOOLEAN) /\ Len(admin') <= MaxLogins
  BY DEF Typed, people
<1> QED BY <1>1, <1>2, <1>3, TypedStep

LEMMA FailInv ==
    ASSUME IInv, NEW l \in Listeners, Fail(l)
    PROVE  IInv'
<1>1. Typed /\ events[l].stage = "running" /\ l \in AdminOnly
  BY DEF IInv, Fail
<1>2. /\ links' \subseteq known' /\ known' \subseteq Channels
      /\ stored' \subseteq {r \in Reports : Home[r] \in links'}
  BY <1>1, EffectType DEF Fail, Typed, backend
<1>3. writers' \subseteq Exchange
      /\ \A w \in writers' \ writers : OfAdmin(w.by) /\ OfAdmin(w.token)
  <2>1. CASE UNCHANGED writers
    BY <1>1, <2>1 DEF Typed
  <2>2. CASE Admitted(events[l].token) /\ writers' = writers \cup {MadeBy(l)}
    <3>1. OfAdmin(events[l].by) /\ OfAdmin(events[l].token)
      BY <1>1, <2>2 DEF IInv, AdminInv, Admitted, OfAdmin
    <3> QED BY <1>1, <2>2, <3>1, EventType DEF Typed
  <2> QED BY <2>1, <2>2 DEF Fail
<1>4. events' = [events EXCEPT ![l] = Idle] /\ Idle \in Event /\ Idle.stage = "idle"
      /\ events'[l] = Idle
  BY <1>1, IdleIsEvent, OthersStay DEF Fail
<1>5. StageOK(l)'
  BY <1>4 DEF StageOK
<1>6. Typed'
  <2>1. l \notin Senders /\ UNCHANGED <<page, admin, answers, people>>
    BY <1>1, ListenersKnown DEF Fail
  <2> QED BY <1>1, <1>2, <1>3, <1>4, <1>5, <2>1, QuietStep
<1>7. SessionInv'
  BY <1>1, <1>4, SessionStep DEF Fail, IInv
<1>8. AdminInv'
  BY <1>1, <1>3, <1>4, AdminStep DEF Fail, IInv
<1> QED BY <1>6, <1>7, <1>8 DEF IInv

LEMMA ChangeInv ==
    ASSUME IInv, NEW l \in Listeners, Change(l)
    PROVE  IInv'
<1>1. Typed /\ events[l].stage = "running" /\ l \in AdminOnly /\ l \notin Senders
  BY ListenersKnown DEF IInv, Change
<1>2. /\ links' \subseteq known' /\ known' \subseteq Channels
      /\ stored' \subseteq {r \in Reports : Home[r] \in links'}
      /\ l \in {"add", "link", "delete", "ingest"}
  BY <1>1, EffectType DEF Change
<1>3. writers' \subseteq Exchange
      /\ \A w \in writers' \ writers : OfAdmin(w.by) /\ OfAdmin(w.token)
  <2>1. OfAdmin(events[l].by) /\ OfAdmin(events[l].token)
    BY <1>1 DEF IInv, AdminInv, Admitted, OfAdmin, Change
  <2> QED BY <1>1, <2>1, EventType DEF Typed, Change
<1>4. PICK e \in Event :
        /\ events' = [events EXCEPT ![l] = e]
        /\ \/ e = Idle
           \/ /\ e.channel = events[l].channel /\ e.by = events[l].by
              /\ \/ l = "delete" /\ e.stage = "answered" /\ e.update \in Choices
                 \/ l # "ingest" /\ e.stage = "listing"
  <2>1. CASE l = "ingest"
    BY <2>1, IdleIsEvent DEF Change
  <2>2. CASE l = "delete" /\ events[l].channel = NoChannel
    <3> DEFINE e == [events[l] EXCEPT !.stage = "answered", !.update = [choices |-> {}]]
    <3>1. events' = [events EXCEPT ![l] = e]
      BY <1>1, <2>2 DEF Change, Answered, Typed, Event
    <3>2. "answered" \in Stages /\ [choices |-> {}] \in Choices
          /\ Choices \subseteq Updates
      BY DEF Stages, Choices, Updates
    <3>3. e \in Event
      BY <1>1, <3>2, EventType
    <3>4. e.stage = "answered" /\ e.update = [choices |-> {}]
          /\ e.channel = events[l].channel /\ e.by = events[l].by
      BY <1>1, EventType DEF Event
    <3> QED BY <2>2, <3>1, <3>2, <3>3, <3>4
  <2>3. CASE l # "ingest" /\ ~(l = "delete" /\ events[l].channel = NoChannel)
    <3> DEFINE e == [events[l] EXCEPT !.stage = "listing"]
    <3>1. events' = [events EXCEPT ![l] = e]
      BY <1>1, <2>3 DEF Change, Typed, Event
    <3>2. "listing" \in Stages
      BY DEF Stages
    <3>3. e \in Event
      BY <1>1, <3>2, EventType
    <3>4. e.stage = "listing" /\ e.channel = events[l].channel
          /\ e.by = events[l].by
      BY <1>1, EventType DEF Event
    <3> QED BY <2>3, <3>1, <3>3, <3>4
  <2> QED BY <2>1, <2>2, <2>3
<1>5. StageOK(l)'
  <2>1. StageOK(l) /\ events'[l] = e
    BY <1>1, <1>4, OthersStay DEF Typed
  <2> QED BY <1>1, <1>2, <1>4, <2>1, IdleIsEvent DEF StageOK
<1>6. Typed'
  <2>1. UNCHANGED <<page, admin, answers, people>>
    BY DEF Change
  <2> QED BY <1>1, <1>2, <1>3, <1>4, <1>5, <2>1, QuietStep
<1>7. SessionInv'
  BY <1>1, <1>2, <1>4, SessionStep DEF Change, IInv
<1>8. AdminInv'
  <2>1. e.stage # "running" /\ (e.stage # "idle" => e.by = events[l].by)
    BY <1>1, <1>4, IdleIsEvent
  <2> QED BY <1>1, <1>3, <1>4, <2>1, AdminStep DEF Change, IInv, AdminInv
<1> QED BY <1>6, <1>7, <1>8 DEF IInv


LEMMA ListInv ==
    ASSUME IInv, NEW l \in Listeners, List(l)
    PROVE  IInv'
<1> DEFINE n == events[l].token
           S == {r \in stored : Home[r] = events[l].channel}
<1>1. Typed /\ UNCHANGED <<page, backend, admin, writers, answers, people>>
      /\ StageOK(l) /\ events[l].stage # "idle"
      /\ known \subseteq Channels /\ links \subseteq Channels /\ stored \subseteq Reports
  BY DEF IInv, List, Typed
<1>2. l \in {"login", "add", "link", "delete", "refresh", "load"}
  BY <1>1 DEF List, StageOK
<1>3. CASE l = "login"
  <2>1. Real(n) /\ n \in Logins
    BY <1>1, <1>3 DEF List, IInv, SessionInv, Typed, Event
  <2>2. ASSUME NEW u \in SUBSET Channels, NEW k \in SUBSET Channels
        PROVE  SignedIn(n, u, k) \in SignIns /\ SignInOK(SignedIn(n, u, k))
    BY <1>1, <2>1, ConsoleAssumption
       DEF SignedIn, SignIns, SignInOK, Real, Logins, Typed
  <2>3. PICK u \in SignIns : Answered(l, u) /\ SignInOK(u)
    BY <1>1, <1>3, <2>2 DEF List
  <2> QED BY <1>1, <1>3, <2>3, AnswerInv DEF Updates
<1>4. CASE l \in {"load", "delete"}
  <2>1. ASSUME NEW s \in SUBSET Reports
        PROVE  ReportLists(s) \in Choices
    BY DEF ReportLists, Choices
  <2>2. PICK u \in Choices : Answered(l, u)
    BY <1>1, <1>4, <2>1 DEF List
  <2> QED BY <1>1, <1>4, <2>2, AnswerInv DEF Updates
<1>5. CASE l \in {"refresh", "add", "link"}
  <2>1. ASSUME NEW u \in SUBSET Channels, NEW k \in SUBSET Channels
        PROVE  ChannelLists(u, k) \in Lists
    BY DEF ChannelLists, Lists
  <2>2. PICK u \in Lists : Answered(l, u)
    BY <1>1, <1>5, <2>1 DEF List
  <2> QED BY <1>1, <1>5, <2>2, AnswerInv DEF Updates
<1> QED BY <1>2, <1>3, <1>4, <1>5

LEMMA ReturnInv ==
    ASSUME IInv, NEW l \in Listeners, Return(l)
    PROVE  IInv'
<1>1. /\ Typed /\ StageOK(l) /\ page \in Page /\ events[l].stage = "answered"
      /\ page' = Updated(events[l].update)
      /\ events' = [events EXCEPT ![l] = Idle]
      /\ UNCHANGED <<backend, admin, writers, people>>
      /\ answers' = IF l = "login" THEN 0 ELSE answers
  BY DEF IInv, Typed, Return
<1>2. Idle \in Event /\ events'[l] = Idle /\ Idle.stage = "idle"
  BY <1>1, IdleIsEvent, OthersStay
<1>3. page' \in Page /\ SessionInv'
  <2>1. /\ l # "login" => events'["login"] = events["login"]
        /\ l = "login" => events'["login"].stage = "idle"
    BY <1>1, <1>2, ListenersKnown DEF Typed
  <2>2. CASE l \notin {"login", "logout"}
    <3> DEFINE u == events[l].update
    <3> HIDE DEF u
    <3>1. page' = Updated(u) /\ u \in Chats \cup Choices \cup Lists
      BY <1>1, <2>2 DEF StageOK, u
    <3>2. page' \in Page /\ page'.session = page.session /\ page'.main = page.main
          /\ page'.tabs = page.tabs
      <4>1. CASE u \in Chats
        BY <1>1, <3>1, <4>1, ChatReaches DEF Page
      <4>2. CASE u \in Choices
        BY <1>1, <3>1, <4>2, ChoicesReach DEF Page
      <4>3. CASE u \in Lists
        BY <1>1, <3>1, <4>3, ListsReach DEF Page
      <4> QED BY <3>1, <4>1, <4>2, <4>3
    <3> QED BY <1>1, <2>1, <2>2, <3>2
            DEF IInv, SessionInv, ScreenMatchesSession, LoggedIn, Real, SignInOK
  <2>3. CASE l = "logout"
    <3>1. page' = LeavingPage /\ page' \in Page
      BY <1>1, <2>3, LeavingReaches, ListenersKnown DEF StageOK
    <3>2. page'.session = 0 /\ page'.main = FALSE /\ page'.tabs = FALSE
      BY <3>1 DEF LeavingPage
    <3> QED BY <1>1, <2>1, <2>3, <3>1, <3>2
            DEF IInv, SessionInv, ScreenMatchesSession, LoggedIn, Real, SignInOK
  <2>4. CASE l = "login"
    <3> DEFINE u == events[l].update
    <3>1. u \in SignIns \cup {SignedOut} /\ SignInOK(u)
      BY <1>1, <2>4, ListenersKnown DEF StageOK, IInv, SessionInv
    <3> HIDE DEF u
    <3>2. page' \in Page /\ page'.session = u.session /\ page'.main = u.main
          /\ page'.tabs = u.tabs
      BY <1>1, <3>1, SignInReaches DEF Page, u
    <3>3. CASE u = SignedOut
      <4>1. page'.session = 0 /\ page'.main = FALSE /\ page'.tabs = FALSE
        BY <3>2, <3>3 DEF SignedOut
      <4> QED BY <2>1, <2>4, <3>2, <4>1 DEF SessionInv, ScreenMatchesSession, LoggedIn
    <3>4. CASE u \in SignIns /\ u # SignedOut
      <4>1. Real(u.session) /\ u.tabs = admin[u.session] /\ u.main = TRUE
            /\ u.session # 0
        BY <3>1, <3>4 DEF SignInOK, SignIns
      <4>2. LoggedIn' /\ Real(page.session)' /\ page'.main = TRUE
            /\ page'.tabs = admin'[page'.session]
        BY <1>1, <3>2, <4>1 DEF LoggedIn, Real
      <4>3. page'.tabs \in BOOLEAN
        BY <3>2 DEF Page
      <4>4. ScreenMatchesSession'
        BY <4>2, <4>3, Zenon DEF ScreenMatchesSession
      <4> QED BY <2>1, <2>4, <3>2, <4>2, <4>4 DEF SessionInv
    <3> QED BY <3>1, <3>3, <3>4
  <2> QED BY <2>2, <2>3, <2>4
<1>4. Typed'
  <2>1. answers \in Nat /\ answers' \in Nat /\ answers' <= answers
        /\ clicks \in Nat /\ clicks' = clicks /\ clicks \in 0 .. MaxClicks
    BY <1>1, ConsoleAssumption DEF Typed, people
  <2>2. StageOK(l)' /\ Unanswered(l)' = 0 /\ Unanswered(l) = 0
    BY <1>1, <1>2 DEF StageOK, Unanswered
  <2>3. /\ answers' + 0 - clicks' <= answers + 0 - clicks
        /\ answers' - clicks' <= answers - clicks
    <3>1. \A a, b, c \in Nat : b <= a => b + 0 - c <= a + 0 - c /\ b - c <= a - c
      OBVIOUS
    <3> QED BY <2>1, <3>1
  <2>4. UNCHANGED <<known, links, stored, admin, writers, clicks, patient>>
    BY <1>1 DEF backend, people
  <2> QED BY <1>1, <1>2, <1>3, <2>1, <2>2, <2>3, <2>4, TypedStep DEF Typed
<1>5. AdminInv'
  BY <1>1, <1>2, AdminStep DEF IInv
<1> QED BY <1>3, <1>4, <1>5 DEF IInv


LEMMA LogoutInv ==
    ASSUME IInv, Logout
    PROVE  IInv'
<1>1. "logout" \in Listeners /\ LeavingPage \in Updates
  BY ListenersKnown DEF Updates
<1> QED BY <1>1, AnswerInv DEF Logout

LEMMA LoginInv ==
    ASSUME IInv, Login
    PROVE  IInv'
<1>1. /\ Typed /\ SessionInv /\ AdminInv
      /\ "login" \in Listeners /\ "login" \notin AdminOnly /\ "login" \notin Senders
      /\ events["login"].stage = "queued"
      /\ UNCHANGED <<page, backend, writers, answers, people>>
  BY ListenersKnown DEF IInv, Login
<1>2. CASE UNCHANGED admin /\ Answered("login", SignedOut)
  <2>1. SignedOut \in Updates /\ SignedOut \in SignIns \cup {SignedOut}
        /\ SignInOK(SignedOut)
    BY DEF Updates, SignInOK
  <2> QED BY <1>1, <1>2, <2>1, AnswerInv
<1>3. ASSUME NEW b \in BOOLEAN, admin' = Append(admin, b), Len(admin) < MaxLogins,
             NEW e \in Event, events' = [events EXCEPT !["login"] = e],
             \/ e.stage = "listing" /\ e.token = Len(admin')
             \/ e.stage = "answered" /\ e.update \in SignIns
                  /\ e.update.session = Len(admin') /\ e.update.tabs = b
      PROVE  IInv'
  <2>1. /\ admin' \in Seq(BOOLEAN) /\ Len(admin') = Len(admin) + 1
        /\ admin'[Len(admin')] = b /\ Len(admin') \in 1 .. Len(admin')
        /\ \A n : (Real(n) => Real(n)' /\ admin'[n] = admin[n])
        /\ \A n : (OfAdmin(n) => OfAdmin(n)')
    BY <1>1, <1>3, LoginsStay
  <2>2. events'["login"] = e /\ \A l \in Listeners \ {"login"} : events'[l] = events[l]
    BY <1>1, <1>3, OthersStay
  <2>3. Typed'
    <3>1. answers \in Nat /\ clicks \in 0 .. MaxClicks /\ clicks \in Nat
          /\ answers' = answers /\ clicks' = clicks /\ patient' = patient
          /\ UNCHANGED <<page, known, links, stored, writers>>
      BY <1>1, ConsoleAssumption DEF Typed, backend, people
    <3>2. answers' - clicks' <= answers - clicks
      BY <3>1
    <3>3. StageOK("login")'
      BY <1>1, <1>3, <2>2 DEF StageOK
    <3>4. Len(admin') <= MaxLogins
      <4>1. Len(admin) \in Nat /\ MaxLogins \in Nat
        BY <1>1, ConsoleAssumption, LenProperties DEF Typed
      <4> QED BY <1>3, <2>1, <4>1
    <3> QED BY <1>1, <1>3, <2>1, <3>1, <3>2, <3>3, <3>4, TypedStep DEF Typed
  <2>4. SessionInv'
    <3>1. ScreenMatchesSession' /\ (LoggedIn' => Real(page.session)')
      BY <1>1, <2>1 DEF SessionInv, ScreenMatchesSession, LoggedIn
    <3>2. e.stage = "listing" => Real(e.token)'
      BY <1>3, <2>1 DEF Real
    <3>3. e.stage = "answered" => SignInOK(e.update)'
      BY <1>3, <2>1 DEF Real, SignInOK
    <3> QED BY <2>2, <3>1, <3>2, <3>3 DEF SessionInv
  <2>5. AdminInv'
    BY <1>1, <2>1, <2>2, ListenersKnown DEF AdminInv
  <2> QED BY <2>3, <2>4, <2>5 DEF IInv
<1>4. ASSUME Len(admin) < MaxLogins, admin' = Append(admin, TRUE),
             events' = [events EXCEPT !["login"].stage = "listing",
                                      !["login"].token = Len(admin')]
      PROVE  IInv'
  <2> DEFINE e == [events["login"] EXCEPT !.stage = "listing", !.token = Len(admin')]
  <2>1. Len(admin') \in Logins /\ "listing" \in Stages
    BY <1>1, <1>4, LoginsStay, ConsoleAssumption, LenProperties DEF Logins, Stages, Typed
  <2>2. e \in Event
    BY <1>1, <2>1, EventType
  <2>3. e.stage = "listing" /\ e.token = Len(admin')
    BY <1>1, EventType DEF Event
  <2>4. events' = [events EXCEPT !["login"] = e]
    BY <1>1, <1>4 DEF Typed, Event
  <2> HIDE DEF e
  <2> QED BY <1>3, <1>4, <2>2, <2>3, <2>4
<1>5. ASSUME Len(admin) < MaxLogins, admin' = Append(admin, FALSE),
             Answered("login", SignedIn(Len(admin'), {}, {}))
      PROVE  IInv'
  <2> DEFINE n == Len(admin')
             u == SignedIn(n, {}, {})
             e == [events["login"] EXCEPT !.stage = "answered", !.update = u]
  <2>1. n \in Logins \ {0} /\ "answered" \in Stages /\ admin'[n] = FALSE
    BY <1>1, <1>5, LoginsStay, ConsoleAssumption, LenProperties DEF Logins, Stages, Typed
  <2> HIDE DEF n
  <2>2. u \in SignIns /\ u.session = n /\ u.tabs = FALSE
    BY <2>1 DEF SignIns, SignedIn
  <2> HIDE DEF u
  <2>3. e \in Event
    BY <1>1, <2>1, <2>2, EventType DEF Updates
  <2>4. e.stage = "answered" /\ e.update = u
    BY <1>1, EventType DEF Event
  <2>5. events' = [events EXCEPT !["login"] = e]
    BY <1>1, <1>5 DEF Typed, Event, Answered, u, n
  <2> HIDE DEF e
  <2> QED BY <1>3, <1>5, <2>2, <2>3, <2>4, <2>5 DEF n
<1> QED BY <1>2, <1>4, <1>5 DEF Login


LEMMA InitInv == Init => IInv
<1> SUFFICES ASSUME Init PROVE IInv
  OBVIOUS
<1>1. \A l \in Listeners : events[l] = Idle /\ Idle \in Event /\ Idle.stage = "idle"
  BY IdleIsEvent DEF Init
<1>2. page \in Page /\ page.session = 0 /\ page.main = FALSE /\ page.tabs = FALSE
  BY ConsoleAssumption DEF Init, Page, Logins
<1>3. Unanswered("enter") = 0 /\ Unanswered("send") = 0
  BY <1>1, ListenersKnown DEF Unanswered
<1>4. admin \in Seq(BOOLEAN) /\ Len(admin) <= MaxLogins
  BY ConsoleAssumption DEF Init
<1>5. answers + Unanswered("enter") + Unanswered("send") <= clicks
      /\ answers \in Nat /\ clicks \in 0 .. MaxClicks
  BY <1>3, ConsoleAssumption DEF Init
<1>6. events \in [Listeners -> Event] /\ \A l \in Listeners : StageOK(l)
  BY <1>1 DEF Init, StageOK
<1>7. Typed
  BY <1>2, <1>4, <1>5, <1>6 DEF Typed, Init
<1>8. SessionInv
  BY <1>1, <1>2, ListenersKnown DEF SessionInv, ScreenMatchesSession, LoggedIn
<1>9. AdminInv
  BY <1>1, ListenersKnown DEF AdminInv, Init
<1> QED BY <1>7, <1>8, <1>9 DEF IInv

LEMMA StepInv ==
    ASSUME IInv, [Next]_vars
    PROVE  IInv'
<1>1. CASE UNCHANGED vars
  BY <1>1 DEF vars, backend, people, IInv, Typed, StageOK, Unanswered, SessionInv,
              ScreenMatchesSession, LoggedIn, SignInOK, AdminInv, OfAdmin, Real
<1>2. ASSUME NEW l \in Listeners, Click(l) \/ Handler(l) PROVE IInv'
  BY <1>2, ClickInv, RefuseInv, StartInv, AskInv, FailInv, ChangeInv, ListInv,
     ReturnInv DEF Handler
<1> QED BY <1>1, <1>2, LoginInv, LogoutInv DEF Next

LEMMA Inductive == Spec => []IInv
  BY InitInv, StepInv, PTL DEF Spec

(* Whatever handlers are running or waiting, the components of the page,   *)
(* the events and the backend keep their types, and no more questions are  *)
(* answered than were asked.                                               *)
THEOREM ConsoleTypeCorrect == Spec => []TypeOK
<1>1. IInv => TypeOK
  <2> SUFFICES ASSUME IInv PROVE TypeOK
    OBVIOUS
  <2>1. Typed /\ page \in Page
    BY DEF IInv, Typed
  <2>2. \A l \in Listeners : Updated(events[l].update) \in Page
    <3> SUFFICES ASSUME NEW u \in Updates PROVE Updated(u) \in Page
      BY <2>1 DEF Typed, Event
    <3>1. u \in Chats \/ u \in Choices \/ u \in Lists \/ u \in SignIns \cup {SignedOut}
          \/ u = LeavingPage \/ u = Nothing
      BY DEF Updates
    <3> QED BY <2>1, <3>1, ChatReaches, ChoicesReach, ListsReach, SignInReaches,
               LeavingReaches, NothingReaches
  <2>3. answers \in 0 .. MaxClicks
    <3>1. Unanswered("enter") \in {0, 1} /\ Unanswered("send") \in {0, 1}
      BY DEF Unanswered
    <3>2. /\ answers \in Nat /\ clicks \in Nat /\ MaxClicks \in Nat /\ clicks <= MaxClicks
          /\ answers + Unanswered("enter") + Unanswered("send") <= clicks
      BY <2>1, ConsoleAssumption DEF Typed
    <3> QED BY <3>1, <3>2
  <2> QED BY <2>1, <2>2, <2>3 DEF TypeOK, Typed, Event
<1> QED BY <1>1, Inductive, PTL

(* Whoever is logged in, and only then, sees the main screen, and the      *)
(* admin tabs exactly if the token carries admin_panel, though handlers    *)
(* that were started for somebody else still return (handle_login,         *)
(* handle_logout).                                                         *)
THEOREM ScreensFollowSessions == Spec => []ScreenMatchesSession
<1>1. IInv => ScreenMatchesSession
  BY DEF IInv, SessionInv
<1> QED BY <1>1, Inductive, PTL

(* Whatever changes in the backend was asked for by an admin and is made   *)
(* with the token of an admin, though the click and the token may be of    *)
(* different logins (require_admin, orchestrator._ingest).                 *)
THEOREM OnlyAdminsChange == Spec => []ChangesAreByAdmins
<1>1. IInv => ChangesAreByAdmins
  BY DEF IInv, AdminInv, OfAdmin, ChangesAreByAdmins
<1> QED BY <1>1, Inductive, PTL


-----------------------------------------------------------------------------
(* People who wait: one click is in flight at most, so that a question     *)
(* finds the page as it was clicked on.                                    *)
Busy(l) == events[l].stage # "idle"

Mine(s) == \A i \in DOMAIN s : s[i] = [by |-> page.session, token |-> page.session]

QuestionOK(l) ==
    Busy(l) =>
      LET e == events[l]
      IN  /\ LoggedIn /\ e.by = page.session /\ e.history = page.chat
          /\ e.stage # "queued" => e.token = page.session
          /\ e.stage = "answered" => e.update = [chat |-> Append(page.chat, MadeBy(l))]

(* An answer that is on its way to the page.                               *)
OnItsWay == \E l \in Senders : events[l].stage = "answered"

PatientInv ==
    patient =>
      /\ \A l, k \in Listeners : Busy(l) /\ Busy(k) => l = k
      /\ Busy("login") => ~ LoggedIn
      /\ ~ LoggedIn => page.chat = <<>>
      /\ LoggedIn => /\ Mine(page.chat)
                     /\ ~ OnItsWay => answers = Len(page.chat)
                     /\ OnItsWay => answers = Len(page.chat) + 1
      /\ \A l \in Senders : QuestionOK(l)

LEMMA PatientStep ==
    ASSUME IInv, PatientInv, NEW l \in Listeners, NEW e \in Event,
           events' = [events EXCEPT ![l] = e],
           page'.session = page.session, page'.chat = page.chat,
           UNCHANGED <<answers, patient>>,
           patient => Busy(l) \/ \A k \in Listeners : ~ Busy(k),
           patient /\ l = "login" /\ e.stage # "idle" => ~ LoggedIn,
           patient => (l \in Senders => events[l].stage # "answered" /\ e.stage # "answered"),
           patient => (l \in Senders => QuestionOK(l)')
    PROVE  PatientInv'
<1> SUFFICES ASSUME patient PROVE PatientInv'
  BY DEF PatientInv
<1>1. /\ events'[l] = e /\ \A k \in Listeners \ {l} : events'[k] = events[k]
  BY OthersStay DEF IInv
<1>2. \A i, k \in Listeners : Busy(i)' /\ Busy(k)' => i = k
  BY <1>1 DEF PatientInv, Busy
<1>3. (LoggedIn' <=> LoggedIn) /\ (Mine(page.chat)' <=> Mine(page.chat))
  BY DEF LoggedIn, Mine
<1>4. Busy("login")' => ~ LoggedIn'
  BY <1>1, <1>3, ListenersKnown DEF PatientInv, Busy
<1>5. OnItsWay' <=> OnItsWay
  BY <1>1, ListenersKnown DEF OnItsWay
<1>6. \A k \in Senders \ {l} : QuestionOK(k)'
  BY <1>1, <1>3, ListenersKnown DEF PatientInv, QuestionOK, Busy, MadeBy
<1> QED BY <1>2, <1>3, <1>4, <1>5, <1>6 DEF PatientInv

LEMMA PatientClick ==
    ASSUME IInv, PatientInv, NEW l \in Listeners, Click(l)
    PROVE  PatientInv'
<1>1. Typed /\ SessionInv /\ page \in Page
  BY DEF IInv, Typed
<1>2. PICK e \in Event :
        /\ events' = [events EXCEPT ![l] = e]
        /\ e.stage = "queued" /\ e.by = page.session /\ e.history = page.chat
  BY <1>1, ClickedEvent
<1>3. events[l] = Idle /\ Idle.stage = "idle"
      /\ UNCHANGED <<page, answers, patient>>
      /\ (patient => \A k \in Listeners : events[k] = Idle)
  BY IdleIsEvent DEF Click
<1>4. events'[l] = e
  BY <1>1, <1>2, OthersStay
<1>5. /\ l \in Senders => LoggedIn
      /\ l = "login" => ~ LoggedIn
  BY <1>1, ListenersKnown DEF Click, OnScreen, SessionInv, ScreenMatchesSession
<1>6. l \in Senders => QuestionOK(l)'
  BY <1>2, <1>3, <1>4, <1>5 DEF QuestionOK, Busy, LoggedIn
<1>7. patient => \A k \in Listeners : ~ Busy(k)
  BY <1>3 DEF Busy
<1> QED BY <1>2, <1>3, <1>5, <1>6, <1>7, PatientStep

LEMMA PatientRefuse ==
    ASSUME IInv, PatientInv, NEW l \in Listeners, Refuse(l)
    PROVE  PatientInv'
<1>1. Typed /\ page \in Page /\ Busy(l)
      /\ UNCHANGED <<answers, patient>> /\ page' = Updated(Refusal(l))
      /\ events' = [events EXCEPT ![l] = Idle] /\ events[l].stage = "queued"
      /\ Idle \in Event /\ Idle.stage = "idle"
  BY IdleIsEvent DEF IInv, Typed, Refuse, Busy, people
<1>2. events'[l] = Idle
  BY <1>1, OthersStay
<1>3. patient => page'.session = page.session /\ page'.chat = page.chat
  <2>1. CASE l \in Senders /\ patient
    <3>1. events[l].blank /\ events[l].history = page.chat
      BY <1>1, <2>1, ListenersKnown DEF PatientInv, QuestionOK, Refuse, Pointless
    <3>2. Refusal(l) = [chat |-> page.chat]
      BY <2>1, <3>1, ListenersKnown DEF Refusal
    <3>3. [chat |-> page.chat] \in Chats
      BY <1>1 DEF Chats, Page
    <3> QED BY <1>1, <3>2, <3>3, ChatReaches DEF Page
  <2>2. CASE l = "load"
    <3>1. Refusal(l) \in Choices
      BY <2>2, ListenersKnown DEF Refusal, Choices
    <3> QED BY <1>1, <3>1, ChoicesReach DEF Page
  <2>3. CASE l \notin Senders /\ l # "load"
    <3>1. Refusal(l) = Nothing
      BY <2>3 DEF Refusal
    <3> QED BY <1>1, <3>1, NothingReaches
  <2> QED BY <2>1, <2>2, <2>3
<1>4. QuestionOK(l)'
  BY <1>1, <1>2 DEF QuestionOK, Busy
<1>5. CASE patient
  BY <1>1, <1>3, <1>4, <1>5, PatientStep
<1>6. CASE ~ patient
  BY <1>1, <1>6 DEF PatientInv
<1> QED BY <1>5, <1>6

(* The other handlers leave the page alone until they return.              *)
LEMMA PatientRuns ==
    ASSUME IInv, PatientInv, NEW l \in Listeners, NEW e \in Event,
           events' = [events EXCEPT ![l] = e], UNCHANGED <<page, answers, patient>>,
           Busy(l),
           l \in Senders => events[l].stage = "queued" /\ e.stage = "running"
              /\ e.by = events[l].by /\ e.history = events[l].history
              /\ e.token = page.session
    PROVE  PatientInv'
<1>1. events'[l] = e /\ Typed
  BY OthersStay DEF IInv
<1>2. patient => (l \in Senders => QuestionOK(l)')
  BY <1>1 DEF PatientInv, QuestionOK, Busy, LoggedIn
<1>3. patient => (l = "login" => ~ LoggedIn)
  BY DEF PatientInv
<1> QED BY <1>2, <1>3, PatientStep

LEMMA PatientAsk ==
    ASSUME IInv, PatientInv, NEW l \in Listeners, Ask(l)
    PROVE  PatientInv'
<1> SUFFICES ASSUME patient PROVE PatientInv'
  BY DEF PatientInv, Ask, people
<1> DEFINE u == [chat |-> Append(events[l].history, MadeBy(l))]
           e == [events[l] EXCEPT !.stage = "answered", !.update = u]
<1>1. Typed /\ l \in Senders /\ events[l].stage = "running" /\ Busy(l)
      /\ UNCHANGED <<page, patient>> /\ answers' = answers + 1 /\ QuestionOK(l)
  BY DEF IInv, Ask, Busy, people, PatientInv
<1>2. e \in Event
  <2>1. u \in Chats
    BY <1>1, EventType, AppendProperties DEF Chats, Event
  <2>2. "answered" \in Stages
    BY DEF Stages
  <2> HIDE DEF u
  <2> QED BY <1>1, <2>1, <2>2, EventType DEF Updates
<1>3. events' = [events EXCEPT ![l] = e]
  BY <1>1 DEF Ask, Answered, Typed, Event
<1>4. /\ events'[l] = e /\ \A k \in Listeners \ {l} : events'[k] = events[k]
  BY <1>1, <1>2, <1>3, OthersStay
<1>5. /\ e.stage = "answered" /\ e.update = u /\ e.by = events[l].by
      /\ e.history = events[l].history /\ e.token = events[l].token
  BY <1>1, EventType DEF Event
<1>6. \A k \in Listeners \ {l} : ~ Busy(k) /\ ~ Busy(k)'
  BY <1>1, <1>4 DEF PatientInv, Busy
<1>7. ~ OnItsWay /\ OnItsWay'
  BY <1>1, <1>4, <1>5, <1>6, ListenersKnown DEF OnItsWay, Busy
<1>8. QuestionOK(l)'
  BY <1>1, <1>4, <1>5 DEF QuestionOK, Busy, LoggedIn, MadeBy
<1>9. LoggedIn /\ LoggedIn' /\ Mine(page.chat)' /\ Busy(l)'
      /\ answers' = Len(page'.chat) + 1
  BY <1>1, <1>4, <1>5, <1>7, <1>8 DEF PatientInv, QuestionOK, LoggedIn, Mine, Busy
<1>10. \A k \in Senders \ {l} : QuestionOK(k)'
  BY <1>6, ListenersKnown DEF QuestionOK
<1>11. ~ Busy("login")'
  BY <1>1, <1>6, ListenersKnown
<1> QED BY <1>6, <1>7, <1>8, <1>9, <1>10, <1>11 DEF PatientInv


LEMMA PatientReturn ==
    ASSUME IInv, PatientInv, NEW l \in Listeners, Return(l)
    PROVE  PatientInv'
<1> SUFFICES ASSUME patient PROVE PatientInv'
  BY DEF PatientInv, Return, people
<1> DEFINE u == events[l].update
<1>1. /\ Typed /\ SessionInv /\ StageOK(l) /\ page \in Page
      /\ events[l].stage = "answered" /\ Busy(l)
      /\ page' = Updated(u) /\ events' = [events EXCEPT ![l] = Idle]
      /\ patient' = patient
      /\ answers' = IF l = "login" THEN 0 ELSE answers
      /\ Idle \in Event /\ Idle.stage = "idle"
  BY IdleIsEvent DEF IInv, Typed, Return, Busy, people
<1>2. \A k \in Listeners : ~ Busy(k)'
  <2>1. events'[l] = Idle /\ \A k \in Listeners \ {l} : events'[k] = events[k]
    BY <1>1, OthersStay
  <2> QED BY <1>1, <2>1 DEF PatientInv, Busy
<1>3. ~ OnItsWay' /\ \A k \in Senders : QuestionOK(k)'
  BY <1>2, ListenersKnown DEF OnItsWay, QuestionOK, Busy
<1>4. SUFFICES /\ ~ LoggedIn' => page'.chat = <<>>
               /\ LoggedIn' => Mine(page.chat)' /\ answers' = Len(page'.chat)
  BY <1>2, <1>3, ListenersKnown DEF PatientInv
<1>5. CASE l \in Senders
  <2>1. /\ u \in Chats /\ u = [chat |-> Append(page.chat, MadeBy(l))]
        /\ LoggedIn /\ MadeBy(l) = [by |-> page.session, token |-> page.session]
        /\ OnItsWay /\ answers = Len(page.chat) + 1 /\ Mine(page.chat)
    BY <1>1, <1>5, ListenersKnown
       DEF PatientInv, QuestionOK, OnItsWay, MadeBy, StageOK
  <2>2. page'.session = page.session /\ page'.chat = Append(page.chat, MadeBy(l))
        /\ page.chat \in Seq(Exchange)
    <3>1. u.chat = Append(page.chat, MadeBy(l))
      BY <2>1
    <3> HIDE DEF u
    <3>2. page' = [page EXCEPT !.chat = u.chat]
      BY <1>1, <2>1, ChatReaches
    <3> QED BY <1>1, <3>1, <3>2 DEF Page
  <2>3. /\ Len(page'.chat) = Len(page.chat) + 1 /\ DOMAIN page'.chat = 1 .. Len(page'.chat)
        /\ \A i \in 1 .. Len(page.chat) : page'.chat[i] = page.chat[i]
        /\ page'.chat[Len(page.chat) + 1] = MadeBy(l)
        /\ Len(page.chat) \in Nat /\ DOMAIN page.chat = 1 .. Len(page.chat)
    <3>1. MadeBy(l) \in Exchange
      BY <1>1, EventType
    <3>2. Append(page.chat, MadeBy(l)) \in Seq(Exchange)
      BY <2>2, <3>1, AppendProperties
    <3> QED BY <2>2, <3>1, <3>2, AppendProperties, LenProperties
  <2>4. \A i \in DOMAIN page'.chat : i \in 1 .. Len(page.chat) \/ i = Len(page.chat) + 1
    BY <2>3
  <2>5. Mine(page.chat)'
    BY <2>1, <2>2, <2>3, <2>4 DEF Mine
  <2> QED BY <1>1, <1>5, <2>1, <2>2, <2>3, <2>5, ListenersKnown DEF LoggedIn
<1>6. CASE l \notin Senders \cup {"login", "logout"}
  <2> HIDE DEF u
  <2>1. u \in Choices \cup Lists
    BY <1>1, <1>6 DEF StageOK, u
  <2>2. page'.session = page.session /\ page'.chat = page.chat
    <3>1. CASE u \in Choices
      BY <1>1, <3>1, ChoicesReach DEF Page
    <3>2. CASE u \in Lists
      BY <1>1, <3>2, ListsReach DEF Page
    <3> QED BY <2>1, <3>1, <3>2
  <2>3. ~ OnItsWay
    BY <1>1, <1>6, ListenersKnown DEF PatientInv, OnItsWay, Busy
  <2> QED BY <1>1, <1>6, <2>2, <2>3 DEF PatientInv, LoggedIn, Mine
<1>7. CASE l = "login"
  <2> HIDE DEF u
  <2>1. u \in SignIns \cup {SignedOut} /\ page.chat = <<>>
    BY <1>1, <1>7, ListenersKnown DEF StageOK, PatientInv, u
  <2>2. page'.chat = <<>>
    BY <1>1, <2>1, SignInReaches DEF Page
  <2> QED BY <1>1, <1>7, <2>2 DEF Mine
<1>8. CASE l = "logout"
  <2>1. page' = LeavingPage
    BY <1>1, <1>8, LeavingReaches, ListenersKnown DEF StageOK
  <2> QED BY <2>1 DEF LeavingPage, LoggedIn
<1> QED BY <1>5, <1>6, <1>7, <1>8

LEMMA PatientNext ==
    ASSUME IInv, PatientInv, [Next]_vars
    PROVE  PatientInv'
<1>1. Typed /\ \A l \in Listeners : events[l] \in Event /\ StageOK(l)
  BY DEF IInv, Typed
<1>2. ASSUME NEW l \in Listeners, Start(l) PROVE PatientInv'
  <2> DEFINE e == [events[l] EXCEPT !.stage = "running", !.token = page.session]
  <2>1. e \in Event
    BY <1>1, EventType DEF Stages, Typed, Page
  <2>2. e.stage = "running" /\ e.token = page.session /\ e.by = events[l].by
        /\ e.history = events[l].history
    BY <1>1 DEF Event
  <2>3. events' = [events EXCEPT ![l] = e]
    BY <1>1, <1>2 DEF Start, Typed, Event
  <2> HIDE DEF e
  <2> QED BY <1>2, <2>1, <2>2, <2>3, PatientRuns DEF Start, people, Busy
<1>3. ASSUME NEW l \in Listeners \ Senders, Fail(l) \/ Change(l) \/ List(l) PROVE PatientInv'
  <2>1. events' \in [Listeners -> Event] /\ IInv'
    BY <1>3, FailInv, ChangeInv, ListInv DEF IInv, Typed
  <2>2. events' = [events EXCEPT ![l] = events'[l]]
    BY <1>1, <1>3, <2>1 DEF Fail, Change, List, Answered, Typed
  <2>3. Busy(l) /\ UNCHANGED <<page, answers, patient>>
    BY <1>3 DEF Fail, Change, List, people, Busy
  <2> QED BY <2>1, <2>2, <2>3, PatientRuns
<1>4. CASE Login \/ Logout
  <2>1. events' \in [Listeners -> Event]
    BY <1>4, LoginInv, LogoutInv DEF IInv, Typed
  <2>2. PICK l \in {"login", "logout"} :
          events' = [events EXCEPT ![l] = events'[l]] /\ Busy(l)
    BY <1>1, <1>4, <2>1, ListenersKnown DEF Login, Logout, Answered, Typed, Busy
  <2>3. UNCHANGED <<page, answers, patient>>
    BY <1>4 DEF Login, Logout, people
  <2> QED BY <2>1, <2>2, <2>3, PatientRuns, ListenersKnown
<1>5. CASE UNCHANGED vars
  BY <1>5 DEF vars, people, PatientInv, Busy, Mine, LoggedIn, OnItsWay, QuestionOK, MadeBy
<1>6. ASSUME NEW l \in Senders PROVE ~ Fail(l) /\ ~ Change(l) /\ ~ List(l)
  BY <1>1, <1>6, ListenersKnown DEF Fail, Change, List, StageOK
<1> QED BY <1>2, <1>3, <1>4, <1>5, <1>6, PatientClick, PatientRefuse, PatientAsk,
           PatientReturn DEF Next, Handler

(* People who wait for each answer see the whole of their conversation and *)
(* nothing of the ones before it, however many people use the page after   *)
(* one another (handle_send, handle_logout).                               *)
THEOREM ConversationsAreOwn == Spec => []ConversationIsOwn
<1>1. Init => PatientInv
  BY IdleIsEvent, ListenersKnown DEF Init, PatientInv, Busy, LoggedIn, QuestionOK
<1>2. IInv /\ PatientInv => ConversationIsOwn
  <2> SUFFICES ASSUME IInv, PatientInv, patient, LoggedIn,
                      \A l \in Senders : events[l] = Idle
               PROVE  /\ Len(page.chat) = answers
                      /\ \A i \in DOMAIN page.chat :
                           page.chat[i] = [by |-> page.session, token |-> page.session]
    BY DEF ConversationIsOwn
  <2>1. ~ OnItsWay
    BY IdleIsEvent DEF OnItsWay
  <2> QED BY <2>1 DEF PatientInv, Mine
<1> QED BY <1>1, <1>2, Inductive, PatientNext, PTL DEF Spec

=============================================================================
