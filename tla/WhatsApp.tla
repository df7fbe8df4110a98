------------------------------ MODULE WhatsApp -----------------------------
(* The WhatsApp channel of one API instance: the inbound webhook, the       *)
(* intent router behind it with its SOS, lost-person and chat branches, the *)
(* replies, and the outbound sends that other routes schedule without       *)
(* waiting for them.  All messages come from one phone.  What a message     *)
(* says is the class of its text that the router tells apart; what is done  *)
(* with a filed SOS or report belongs to RecordReplicas.                    *)
EXTENDS Naturals, Sequences, FiniteSets, Functions

CONSTANTS
    Message,    \* messages of the pilgrim
    Deliveries, \* how often the gateway may deliver each
    Provider,   \* "meta", "twilio" or "generic": who calls the webhook
    AppSos,     \* POST /sos_alert requests that leave the same phone number
    SosLimit,   \* alerts a phone may file in a window
    FFMax,      \* WHATSAPP_FF_CONCURRENCY
    MaxFailures   \* bound on failed Redis calls and restarts

ASSUME ProviderAssumption == Provider \in {"meta", "twilio", "generic"}
ASSUME DeliveriesAssumption == Deliveries \in [Message -> Nat \ {0}]
ASSUME LimitsAssumption ==
    {SosLimit, FFMax} \subseteq Nat \ {0} /\ MaxFailures \in Nat

VARIABLES
    sent,       \* what the pilgrim sent: text class and whether with a location;
                \* forgotten once it cannot be delivered again
    call,       \* the webhook calls: where each is, and the reply's intent
    told,       \* calls whose reply reached the pilgrim and claims something
    alerts,     \* calls and app requests whose SOS alert is filed
    window,     \* alerts in the rate limiter's window for the phone
    reports,    \* calls whose lost person is in DB["lost_persons"]
    indexed,    \* those that DB_BY_ID has as well
    table,      \* those that Postgres has
    readBack,   \* ghost: whether a restart has read the lists back from the table
    found,      \* calls whose report a volunteer has marked as found
    app,        \* the app's SOS requests: where each is
    queue,      \* scheduled sends that wait for _FF_SEMAPHORE, in order
    sending,    \* sends under way
    attempted,  \* sends that were made, whatever their result
    dropped,    \* ghost: sends that a restart forgot
    failures

whatsAppVars == <<sent, call, told, alerts, window, reports, indexed, table, readBack,
                  found, app, queue, sending, attempted, dropped, failures>>

inbound == <<sent, call, told>>
lists == <<reports, indexed, table, readBack, found>>
outbound == <<queue, sending, attempted, dropped>>

Call == UNION {{m} \X (1..Deliveries[m]) : m \in Message}

\* The send to the phone of a report.
Found(c) == <<"found", c>>

Note == AppSos \cup {Found(c) : c \in Call}

ASSUME AppSosAssumption == AppSos \cap (Call \cup {Found(c) : c \in Call}) = {}

\* The class of the first word ("lost" without details is "lost who", what the
\* router answers from memory whatever else is said is "info"), and whether a
\* location came with it.
Says == {"nothing", "greeting", "sos", "info", "nearest", "lost", "lost who", "question"}

Content == [says : Says, located : BOOLEAN]

\* The parsers: a text with or without a location.  Meta sends one or the other,
\* but a location brings the name of its place as the text, which is routed as
\* any other.  Where a location makes no difference none is sent.
Sendable == {x \in Content : x.located => x.says \in {"nothing", "sos", "nearest"}}

NoCall == [pc |-> "new", intent |-> "none"]
Ended == {"answered", "cut"}

Unsent == [says |-> "nothing", located |-> FALSE]

WhatsAppInit ==
    /\ sent = [m \in Message |-> Unsent]
    /\ call = [c \in Call |-> NoCall]
    /\ told = {}
    /\ alerts = {} /\ window = 0
    /\ reports = {} /\ indexed = {} /\ table = {} /\ readBack = FALSE /\ found = {}
    /\ app = [a \in AppSos |-> "new"]
    /\ queue = <<>> /\ sending = {} /\ attempted = {} /\ dropped = {}
    /\ failures = 0

----------------------------------------------------------------------------
(* The webhook and the router.                                              *)

\* Whatever ends a branch leaves an intent to reply with.
Reply(c, intent) == call' = [call EXCEPT ![c] = [pc |-> "replying", intent |-> intent]]

Goto(c, pc) == call' = [call EXCEPT ![c].pc = pc]

\* route(): the branches in their order, a greeting before an SOS.  An SOS with a
\* location, a lost person and a question need more than a look into memory.
Enter(c, x) ==
    CASE x.says \in {"nothing", "greeting"} -> Reply(c, "info")
      [] x.says = "sos" /\ x.located        -> Goto(c, "limiting")
      [] x.says = "sos" /\ ~x.located       -> Reply(c, "info")
      [] x.says \in {"info", "nearest"}     -> Reply(c, "info")
      [] x.says = "lost"                    -> Goto(c, "registering")
      [] x.says = "lost who"                -> Reply(c, "info")
      [] x.says = "question"                -> Goto(c, "asking")

\* The pilgrim sends a message and the gateway delivers it: the first message
\* of the payload is parsed and routed.
Send(m) ==
    /\ call[<<m, 1>>].pc = "new"
    /\ \E x \in Sendable :
        /\ sent' = [sent EXCEPT ![m] = x]
        /\ Enter(<<m, 1>>, x)
    /\ UNCHANGED <<told, alerts, window, lists, app, outbound, failures>>

\* The gateway delivers it again when no answer came, or none in time.  No one
\* compares message ids.
Redeliver(m, k) ==
    /\ call[<<m, k>>].pc \notin {"new", "answered"}
    /\ call[<<m, k + 1>>].pc = "new"
    /\ Enter(<<m, k + 1>>, sent[m])
    /\ UNCHANGED <<sent, told, alerts, window, lists, app, outbound, failures>>

\* create_sos_record() first asks the rate limiter, which counts whom it admits
\* and refuses everyone when Redis fails.
Admitted == window < SosLimit /\ window' = window + 1 /\ UNCHANGED failures

Refused ==
    /\ UNCHANGED window
    /\ \/ window >= SosLimit /\ UNCHANGED failures
       \/ failures < MaxFailures /\ failures' = failures + 1

\* The exception of a refusal ends in the reply to call 112.
Limit(c) ==
    /\ call[c].pc = "limiting"
    /\ \/ Admitted /\ Goto(c, "filing")
       \/ Refused /\ Reply(c, "sos_failed")
    /\ UNCHANGED <<sent, told, alerts, lists, app, outbound>>

\* The limiter's window moves on.
WindowPasses ==
    /\ window > 0
    /\ window' = 0
    /\ UNCHANGED <<inbound, alerts, lists, app, outbound, failures>>

\* The alert is filed and broadcast; no failure on the way stops it.
FileSos(c) ==
    /\ call[c].pc = "filing"
    /\ alerts' = alerts \cup {c}
    /\ Reply(c, "sos")
    /\ UNCHANGED <<sent, told, window, lists, app, outbound, failures>>

\* _handle_lost(): write_lost_person() has an effect or raises what is logged.
\* Which of the two is left open: today Postgres refuses every report, as its
\* timestamp is bound as a string.
WriteLost(c) ==
    /\ call[c].pc = "registering"
    /\ Goto(c, "appending")
    /\ table' \in {table, table \cup {c}}
    /\ UNCHANGED <<sent, told, alerts, window, reports, indexed, readBack, found, app,
                   outbound, failures>>

\* ... then the list, and not the index.
AppendLost(c) ==
    /\ call[c].pc = "appending"
    /\ reports' = reports \cup {c}
    /\ Reply(c, "lost")
    /\ UNCHANGED <<sent, told, alerts, window, indexed, table, readBack, found, app,
                   outbound, failures>>

\* Mutant: when the smaller model is busy as well the first is asked again.
AskInTurns(c) ==
    /\ \/ call[c].pc \in {"asking", "asking smaller"} /\ Reply(c, "chat")
       \/ call[c].pc = "asking" /\ Goto(c, "asking smaller")
       \/ call[c].pc = "asking smaller" /\ Goto(c, "asking")
    /\ UNCHANGED <<sent, told, alerts, window, lists, app, outbound, failures>>

\* _handle_chat_fallback(): on a 429 another model is asked once; any failure
\* ends in the menu.
Ask(c) ==
    /\ \/ call[c].pc \in {"asking", "asking smaller"} /\ Reply(c, "chat")
       \/ call[c].pc \in {"asking", "asking smaller"} /\ Reply(c, "info")
       \/ call[c].pc = "asking" /\ Goto(c, "asking smaller")
    /\ UNCHANGED <<sent, told, alerts, window, lists, app, outbound, failures>>

\* What the pilgrim can rely on.
Claims == {"sos", "sos_failed", "lost"}

\* No later delivery of the message is on record: the gateway has no reason for one
\* once this call is answered.
Latest(c) == <<c[1], c[2] + 1>> \in Call => call[<<c[1], c[2] + 1>>].pc = "new"

\* Twilio is answered with the reply; for the others send_text() makes a call
\* that may fail, and its result does not change the acknowledgement.
Answer(c) ==
    /\ call[c].pc = "replying"
    /\ \/ /\ call[c].intent \in Claims
          /\ Goto(c, "answered") /\ told' = told \cup {c}
       \/ /\ call[c].intent \notin Claims \/ Provider # "twilio"
          /\ call' = [call EXCEPT ![c] = [pc |-> "answered", intent |-> "none"]]
          /\ UNCHANGED told
    /\ sent' = IF Latest(c) THEN [sent EXCEPT ![c[1]] = Unsent] ELSE sent
    /\ UNCHANGED <<alerts, window, lists, app, outbound, failures>>

----------------------------------------------------------------------------
(* Sends that no one waits for.                                             *)

\* fire_and_forget_send(): a task of its own.
Schedule(n) == queue' = Append(queue, n)

\* POST /sos_alert asks the same limiter, ...
LimitApp(a) ==
    /\ app[a] = "new"
    /\ \/ Admitted /\ app' = [app EXCEPT ![a] = "filing"]
       \/ Refused /\ app' = [app EXCEPT ![a] = "refused"]
    /\ UNCHANGED <<inbound, alerts, lists, outbound>>

\* ... files the alert, and confirms to the phone that came with it.
FileApp(a) ==
    /\ app[a] = "filing"
    /\ app' = [app EXCEPT ![a] = "answered"]
    /\ alerts' = alerts \cup {a}
    /\ Schedule(a)
    /\ UNCHANGED <<inbound, window, lists, sending, attempted, dropped, failures>>

\* PUT /lost/{pid} with status "found", by a volunteer who sees the report in the
\* table or the list: the route has updated the row when it looks the record up
\* in the index, and answers 404 if it is not there.
MarkFound(c) ==
    /\ c \in (table \cup reports) \ found
    /\ found' = found \cup {c}
    /\ IF c \in indexed THEN Schedule(Found(c)) ELSE UNCHANGED queue
    /\ UNCHANGED <<inbound, alerts, window, reports, indexed, table, readBack, app,
                   sending, attempted, dropped, failures>>

\* _FF_SEMAPHORE lets the tasks in by order of arrival.
Acquire ==
    /\ queue # <<>> /\ Cardinality(sending) < FFMax
    /\ sending' = sending \cup {Head(queue)}
    /\ queue' = Tail(queue)
    /\ UNCHANGED <<inbound, alerts, window, lists, app, attempted, dropped, failures>>

\* Mutant: a send that fails keeps its permit.
ReleaseOnSuccess(n) ==
    /\ n \in sending \ attempted
    /\ attempted' = attempted \cup {n}
    /\ sending' \in {sending \ {n}, sending}
    /\ UNCHANGED <<inbound, alerts, window, lists, app, queue, dropped, failures>>

\* The call ends, by its time-out at the latest; send_text() never raises.
Release(n) ==
    /\ n \in sending
    /\ attempted' = attempted \cup {n}
    /\ sending' = sending \ {n}
    /\ UNCHANGED <<inbound, alerts, window, lists, app, queue, dropped, failures>>

----------------------------------------------------------------------------

\* Calls and requests break off, and scheduled tasks are gone.
CutOff ==
    /\ failures < MaxFailures /\ failures' = failures + 1
    /\ call' = [c \in Call |-> IF call[c].pc \in Ended \cup {"new"} THEN call[c]
                               ELSE [call[c] EXCEPT !.pc = "cut"]]
    /\ app' = [a \in AppSos |-> IF app[a] = "filing" THEN "cut" ELSE app[a]]
    /\ dropped' = dropped \cup Range(queue) \cup sending
    /\ queue' = <<>> /\ sending' = {}
    /\ readBack' = TRUE

\* Mutant: nothing is read back.
RestartEmpty ==
    /\ CutOff
    /\ reports' = {} /\ indexed' = {}
    /\ UNCHANGED <<sent, told, alerts, window, table, found, attempted>>

\* The reports come back from the table, with the index rebuilt.
Restart ==
    /\ CutOff
    /\ reports' = table /\ indexed' = table
    /\ UNCHANGED <<sent, told, alerts, window, table, found, attempted>>

WhatsAppNext ==
    \/ \E m \in Message : Send(m) \/ \E k \in 1..(Deliveries[m] - 1) : Redeliver(m, k)
    \/ \E c \in Call :
        \/ Limit(c) \/ FileSos(c) \/ WriteLost(c) \/ AppendLost(c) \/ Ask(c) \/ Answer(c)
        \/ MarkFound(c)
    \/ WindowPasses
    \/ \E a \in AppSos : LimitApp(a) \/ FileApp(a)
    \/ Acquire
    \/ \E n \in sending : Release(n)
    \/ Restart

\* The event loop goes on, and every call it awaits has a time-out.
WhatsAppFairness ==
    /\ \A c \in Call :
          WF_whatsAppVars(Limit(c) \/ FileSos(c) \/ WriteLost(c) \/ AppendLost(c)
                          \/ Ask(c) \/ Answer(c))
    /\ WF_whatsAppVars(Acquire)
    /\ WF_whatsAppVars(\E n \in sending : Release(n))

WhatsAppSpec == WhatsAppInit /\ [][WhatsAppNext]_whatsAppVars /\ WhatsAppFairness

----------------------------------------------------------------------------
(* Properties.                                                              *)

\* The types of the variables; no more sends are under way than the semaphore
\* has permits.
WhatsAppTypeOK ==
    /\ sent \in [Message -> Content]
    /\ \A c \in Call :
          call[c].pc \in {"new", "limiting", "filing", "registering", "appending",
                          "asking", "asking smaller", "replying"} \cup Ended
    /\ told \subseteq Call
    /\ alerts \subseteq Call \cup AppSos /\ window \in 0..SosLimit
    /\ reports \subseteq Call /\ indexed \subseteq reports /\ table \subseteq Call
    /\ readBack \in BOOLEAN /\ found \subseteq Call
    /\ app \in [AppSos -> {"new", "filing", "answered", "refused", "cut"}]
    /\ queue \in Seq(Note) /\ IsInjective(queue)
    /\ sending \subseteq Note /\ Cardinality(sending) <= FFMax
    /\ attempted \subseteq Note /\ dropped \subseteq Note
    /\ failures \in 0..MaxFailures

\* Types; and what the pilgrim was told is so: an SOS "received" is filed, one that "could
\* not be processed" is not, and a person "registered" is in the lists, of which
\* a restart takes only a report that Postgres did not accept.
ToldIsSo ==
    /\ WhatsAppTypeOK
    /\ \A c \in told :
        /\ call[c].intent = "sos" => c \in alerts
        /\ call[c].intent = "sos_failed" => c \notin alerts
        /\ call[c].intent = "lost" => c \in reports \/ (readBack /\ c \notin table)

\* Every webhook call is acknowledged, or cut off by a restart, whatever fails
\* behind it.
EveryCallAnswered == \A c \in Call : call[c].pc # "new" ~> call[c].pc \in Ended

\* Every scheduled send gets its turn, or is forgotten by a restart: failures of
\* the provider do not use up the permits.
EverySendAttempted ==
    \A n \in Note : n \in Range(queue) ~> n \in attempted \cup dropped
=============================================================================
