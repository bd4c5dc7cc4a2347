------------------------------ MODULE Console -------------------------------
(***************************************************************************)
(* One browser page of the Gradio frontend (frontend/app.py), used by one  *)
(* person after another.  A click sends the values of the page's           *)
(* components to the server, where it waits for its handler's turn: Gradio *)
(* runs a function for one event at a time, whoever's page it is from.     *)
(* session_state lives on the server, and is read when the handler starts. *)
(* What a handler returns overwrites components of the page.               *)
(*                                                                         *)
(* A login is known by its number, 0 is None.  Texts, statuses and the two *)
(* tables, which no handler reads, are left out.                           *)
(***************************************************************************)
EXTENDS Naturals, Sequences, FiniteSets

CONSTANTS
    Channels, Reports,
    Home,       \* the channel of each report
    MaxLogins, MaxClicks, \* bounds
    NoChannel, NoReport

ASSUME ConsoleAssumption == /\ Home \in [Reports -> Channels]
                            /\ {MaxLogins, MaxClicks} \subseteq Nat
                            /\ NoChannel \notin Channels
                            /\ NoReport \notin Reports

VARIABLES
    page,    \* the components: see Page
    events,  \* the click of each listener that is not answered yet
    known, links, stored, \* of the backend: channels, linked ones, reports
    admin,   \* history: of each login, whether it carries admin_panel
    writers, \* history: of each change, who clicked, and under which token
    answers, \* history: questions answered since the last login
    clicks,  \* how many clicks there have been
    patient  \* whether people wait for an answer before they click again

backend == <<known, links, stored>>
people  == <<clicks, patient>>
vars    == <<page, events, backend, admin, writers, answers, people>>

Logins == 0 .. MaxLogins

Senders   == {"enter", "send"}
AdminOnly == {"refresh", "add", "link", "load", "delete", "ingest"}
Listeners == Senders \cup AdminOnly \cup {"login", "logout"}

(* A question and its answer, or a change: the login it was asked for in,  *)
(* and the one whose token it was made with.                               *)
Exchange == [by : Logins, token : Logins]

(* unlinked and linked are the choices of the channel dropdowns, choices   *)
(* those of delete_report_dropdown.                                        *)
Page == [session : Logins, main : BOOLEAN, tabs : BOOLEAN, chat : Seq(Exchange),
         unlinked : SUBSET Channels, linked : SUBSET Channels,
         choices : SUBSET Reports]

Stages == {"idle", "queued", "running", "listing", "answered"}

(* The page with what a handler returns; gr.update() leaves a component    *)
(* out of it.                                                              *)
Updated(update) ==
    [c \in DOMAIN page |-> IF c \in DOMAIN update THEN update[c] ELSE page[c]]

Nothing == [c \in {} |-> {}]

Idle == [stage |-> "idle", by |-> 0, token |-> 0, history |-> <<>>, blank |-> FALSE,
         channel |-> NoChannel, report |-> NoReport, update |-> Nothing]

TypeOK ==
    /\ page \in Page
    /\ \A l \in Listeners :
           LET e == events[l]
           IN  /\ e.stage \in Stages
               /\ {e.by, e.token} \subseteq Logins
               /\ e.history \in Seq(Exchange)
               /\ e.blank \in BOOLEAN
               /\ e.channel \in Channels \cup {NoChannel}
               /\ e.report \in Reports \cup {NoReport}
               /\ Updated(e.update) \in Page
    /\ links \subseteq known /\ known \subseteq Channels
    /\ stored \subseteq {r \in Reports : Home[r] \in links}
    /\ admin \in Seq(BOOLEAN)
    /\ writers \subseteq Exchange
    /\ answers \in 0 .. MaxClicks
    /\ clicks \in 0 .. MaxClicks
    /\ patient \in BOOLEAN

Init ==
    /\ page = [session |-> 0, main |-> FALSE, tabs |-> FALSE, chat |-> <<>>,
               unlinked |-> {}, linked |-> {}, choices |-> {}]
    /\ events = [l \in Listeners |-> Idle]
    /\ known \in SUBSET Channels
    /\ links \in SUBSET known
    /\ stored \in SUBSET {r \in Reports : Home[r] \in links}
    /\ admin = <<>> /\ writers = {}
    /\ answers = 0 /\ clicks = 0
    /\ patient \in BOOLEAN

-----------------------------------------------------------------------------
(* What can be clicked is on the screen, and is not waiting already.       *)
OnScreen(l) ==
    CASE l = "login"       -> ~ page.main
      [] l \in AdminOnly   -> page.main /\ page.tabs
      [] OTHER             -> page.main

Selectable(l) ==
    CASE l \in {"load", "delete", "ingest"} -> page.linked \cup {NoChannel}
      [] l = "link"                         -> page.unlinked \cup {NoChannel}
      [] l = "add"                          -> Channels
      [] OTHER                              -> {NoChannel}

Click(l) ==
    /\ OnScreen(l)
    /\ events[l] = Idle
    /\ patient => \A k \in Listeners : events[k] = Idle
    /\ clicks < MaxClicks
    /\ \E c \in Selectable(l),
          r \in IF l = "delete" THEN page.choices \cup {NoReport} ELSE {NoReport},
          blank \in IF l \in Senders THEN BOOLEAN ELSE {FALSE} :
           events' = [events EXCEPT ![l] =
                         [Idle EXCEPT !.stage = "queued", !.by = page.session,
                                      !.history = page.chat, !.blank = blank,
                                      !.channel = c, !.report = r]]
    /\ clicks' = clicks + 1
    /\ UNCHANGED <<page, backend, admin, writers, answers, patient>>

(* A handler that returns without a call has been given nothing to do, or  *)
(* nobody is logged in.                                                    *)
Pointless(l) ==
    LET e == events[l]
    IN  CASE l \in Senders            -> e.blank
          [] l = "delete"             -> e.report = NoReport
          [] l \in {"load", "link", "ingest"} -> e.channel = NoChannel
          [] OTHER                    -> FALSE

LoggedIn == page.session # 0

(* What it returns then.                                                   *)
Refusal(l) ==
    LET e == events[l]
    IN  CASE l \in Senders ->
               [chat |-> IF e.blank THEN e.history
                         ELSE Append(e.history, [by |-> e.by, token |-> 0])]
          [] l = "load" -> [choices |-> {}]
          [] OTHER -> Nothing

(* Enter and Send have one handler: the second event waits for the first.  *)
MyTurn(l) ==
    l \in Senders => \A k \in Senders \ {l} : events[k].stage \in {"idle", "queued"}

Refuse(l) ==
    /\ l \in Senders \cup AdminOnly
    /\ events[l].stage = "queued" /\ MyTurn(l)
    /\ Pointless(l) \/ ~ LoggedIn
    /\ page' = Updated(Refusal(l))
    /\ events' = [events EXCEPT ![l] = Idle]
    /\ UNCHANGED <<backend, admin, writers, answers, people>>

Start(l) ==
    /\ l \in Senders \cup AdminOnly
    /\ events[l].stage = "queued" /\ MyTurn(l)
    /\ ~ Pointless(l) /\ LoggedIn
    /\ events' = [events EXCEPT ![l].stage = "running", ![l].token = page.session]
    /\ UNCHANGED <<page, backend, admin, writers, answers, people>>

-----------------------------------------------------------------------------
Answered(l, update) ==
    events' = [events EXCEPT ![l].stage = "answered", ![l].update = update]

AdmittedAnyone(n) == n # 0

(* require_admin of the backend, and the same test for an ingest.          *)
Admitted(n) == n # 0 /\ admin[n]

MadeBy(l) == [by |-> events[l].by, token |-> events[l].token]

(* POST /orchestrate, query: its errors are shown as answers.              *)
Ask(l) ==
    /\ l \in Senders /\ events[l].stage = "running"
    /\ Answered(l, [chat |-> Append(events[l].history, MadeBy(l))])
    /\ answers' = answers + 1
    /\ UNCHANGED <<page, backend, admin, writers, people>>

(* What the backend does for an admitted request.                          *)
Effect(l) ==
    LET c == events[l].channel
        r == events[l].report
    IN  \/ l = "add" /\ c \notin known
           /\ known' = known \cup {c} /\ UNCHANGED <<links, stored>>
        \/ l = "link" /\ c \in known \ links
           /\ links' = links \cup {c} /\ UNCHANGED <<known, stored>>
        \/ l = "delete" /\ r \in stored
           /\ stored' = stored \ {r} /\ UNCHANGED <<known, links>>
        \/ l = "ingest" /\ c \in links
           /\ \E d \in {d \in Reports : Home[d] = c} : stored' = stored \cup {d}
           /\ UNCHANGED <<known, links>>

(* The request is refused, or fails, or the answer is lost: a message.     *)
Fail(l) ==
    /\ l \in AdminOnly /\ events[l].stage = "running"
    /\ l # "load"
    /\ \/ UNCHANGED <<backend, writers>>
       \/ /\ Admitted(events[l].token) /\ Effect(l)
          /\ writers' = writers \cup {MadeBy(l)}
    /\ events' = [events EXCEPT ![l] = Idle]
    /\ UNCHANGED <<page, admin, answers, people>>

Change(l) ==
    /\ l \in AdminOnly /\ events[l].stage = "running"
    /\ Admitted(events[l].token) /\ Effect(l)
    /\ writers' = writers \cup {MadeBy(l)}
    /\ CASE l = "ingest" -> events' = [events EXCEPT ![l] = Idle]
         [] l = "delete" /\ events[l].channel = NoChannel -> Answered(l, [choices |-> {}])
         [] OTHER -> events' = [events EXCEPT ![l].stage = "listing"]
    /\ UNCHANGED <<page, admin, answers, people>>

(* _refresh_dropdowns                                                      *)
ChannelLists(u, l) == [unlinked |-> u, linked |-> l]

ReportListsWithPlaceholder(s) == [choices |-> s \cup {NoReport}]

(* handle_refresh_reports, and the end of handle_delete_report.            *)
ReportLists(s) == [choices |-> s]

SignedIn(n, u, l) ==
    [session |-> n, main |-> TRUE, tabs |-> admin'[n], unlinked |-> u, linked |-> l]

(* A list that cannot be had is shown as an empty one.                     *)
List(l) ==
    /\ \/ events[l].stage = "listing"
       \/ events[l].stage = "running" /\ l \in {"refresh", "load"}
    /\ UNCHANGED <<page, backend, admin, writers, answers, people>>
    /\ LET n == events[l].token
           S == {r \in stored : Home[r] = events[l].channel}
       IN  CASE l = "login" ->
                  \/ Answered(l, SignedIn(n, known \ links, links))
                  \/ Answered(l, SignedIn(n, {}, {}))
             [] l \in {"load", "delete"} ->
                  \/ Admitted(n) /\ Answered(l, ReportLists(S))
                  \/ Answered(l, ReportLists({}))
             [] OTHER ->
                  \/ Admitted(n) /\ Answered(l, ChannelLists(known \ links, links))
                  \/ l # "refresh" /\ Answered(l, ChannelLists({}, {}))

(* The handler's outputs reach the page.                                   *)
Return(l) ==
    /\ events[l].stage = "answered"
    /\ page' = Updated(events[l].update)
    /\ events' = [events EXCEPT ![l] = Idle]
    /\ answers' = IF l = "login" THEN 0 ELSE answers
    /\ UNCHANGED <<backend, admin, writers, people>>

-----------------------------------------------------------------------------
SignedOut == [session |-> 0, main |-> FALSE, tabs |-> FALSE,
              unlinked |-> {}, linked |-> {}]

(* handle_login: refused, or accepted; an admin's channels are loaded too. *)
Login ==
    /\ events["login"].stage = "queued"
    /\ UNCHANGED <<page, backend, writers, answers, people>>
    /\ \/ UNCHANGED admin /\ Answered("login", SignedOut)
       \/ /\ Len(admin) < MaxLogins
          /\ \/ /\ admin' = Append(admin, TRUE)
                /\ events' = [events EXCEPT !["login"].stage = "listing",
                                            !["login"].token = Len(admin')]
             \/ /\ admin' = Append(admin, FALSE)
                /\ Answered("login", SignedIn(Len(admin'), {}, {}))

LeavingPageTabsOpen ==
    [session |-> 0, main |-> FALSE, chat |-> <<>>,
     unlinked |-> {}, linked |-> {}, choices |-> {}]

LeavingPageChatKept ==
    [session |-> 0, main |-> FALSE, tabs |-> FALSE,
     unlinked |-> {}, linked |-> {}, choices |-> {}]

LeavingPage ==
    [session |-> 0, main |-> FALSE, tabs |-> FALSE, chat |-> <<>>,
     unlinked |-> {}, linked |-> {}, choices |-> {}]

(* handle_logout: the backend only notes the time.                         *)
Logout ==
    /\ events["logout"].stage = "queued"
    /\ Answered("logout", LeavingPage)
    /\ UNCHANGED <<page, backend, admin, writers, answers, people>>

Handler(l) ==
    Refuse(l) \/ Start(l) \/ Ask(l) \/ Fail(l) \/ Change(l) \/ List(l) \/ Return(l)

Next ==
    \/ \E l \in Listeners : Click(l) \/ Handler(l)
    \/ Login
    \/ Logout

Spec == Init /\ [][Next]_vars

-----------------------------------------------------------------------------
(* The screens and tabs follow the session: whoever is logged in sees the  *)
(* main screen, and the admin tabs exactly if the token carries            *)
(* admin_panel, whatever was still running when the last one left          *)
(* (handle_login, handle_logout; README.md:77).                            *)
ScreenMatchesSession ==
    /\ page.main = LoggedIn
    /\ page.tabs = (LoggedIn /\ admin[page.session])

(* Whatever changes in the backend was asked for by an admin, on tabs only *)
(* admins see, and is made with the token of an admin, though a click that *)
(* waits for its turn is carried out with the token of whoever is logged   *)
(* in by then (README.md:77-79; backend/admin.py require_admin,            *)
(* orchestrator._ingest).                                                  *)
ChangesAreByAdmins == \A w \in writers : admin[w.by] /\ admin[w.token]

(* People who wait for their answers see the whole of their conversation,  *)
(* and nothing of the ones before it (handle_send, handle_logout).         *)
ConversationIsOwn ==
    patient /\ (\A l \in Senders : events[l] = Idle) /\ LoggedIn =>
        /\ Len(page.chat) = answers
        /\ \A i \in DOMAIN page.chat :
               page.chat[i] = [by |-> page.session, token |-> page.session]
=============================================================================
