------------------------------- MODULE JobLog -------------------------------
(***************************************************************************)
(* The output of a job in the web front end (component OB of the bundle):  *)
(* the dialog loads the last lines of three tabs, one request after the    *)
(* other, then opens a stream of what comes after, and loads earlier lines *)
(* on demand.  The dialog can be closed, opened again and switched to      *)
(* another tab while answers are on their way.                             *)
(*                                                                         *)
(* The sandbox service is external: it numbers the lines of each tab from  *)
(* 0, sends a stream what the job writes from its opening on, says when    *)
(* the job is over and breaks the connection then; a stream opened on a    *)
(* finished job breaks at once.  A connection may also break while the job *)
(* runs.  The browser makes a new one, which says nothing of what was      *)
(* written in between.                                                     *)
(***************************************************************************)
EXTENDS Listing

CONSTANTS MaxLines,    \* bound on the lines of the job
          PageLines,   \* lines per request (200)
          MaxClicks    \* bound on what the user does and on broken connections

(* A request asks for a number of lines. *)
ASSUME LogAssumption == PageLines \in Nat

Tabs == <<"all", "stdout", "stderr">>
TabNames == {"all", "stdout", "stderr"}

VARIABLES output,    \* what the job wrote: the streams of its lines, in order
          ended,     \* whether it is over
          listening, \* whether the service has the page as a listener
          events,    \* events on their way: a line, "completed" or "error"
          opened,    \* whether the dialog is open
          tab,       \* the tab of the dialog
          views,     \* f[job]: tab -> view, or no tabs while it is being loaded
          source,    \* whether there is an EventSource
          loads,     \* loads of the dialog under way: the tabs loaded so far
          earlier,   \* loads of earlier lines under way
          clicks,
          tangled,   \* whether a load met another one, a tab or an open source
          overtaken  \* whether an event came while earlier lines were loaded

job == <<output, ended>>
logVars == <<output, ended, listening, events, opened, tab, views, source, loads, earlier, clicks, tangled, overtaken>>

(* A line is its number among all lines of the job; a tab has those of its stream. *)
Lines(name) == Ascending({i \in 1..Len(output) : name \in {"all", output[i]}})

(* The lines of a tab after the first from, up to the to-th, as far as there are. *)
Window(name, from, to) ==
  LET lines == Lines(name) IN SubSeq(lines, from + 1, IF to < Len(lines) THEN to ELSE Len(lines))

Empty == [lines |-> <<>>, first |-> 0, done |-> FALSE]
NoViews == <<>>

(* The dialog has just been opened. *)
LogInit ==
  /\ output = <<>> /\ ended = FALSE /\ listening = FALSE /\ events = <<>>
  /\ opened = TRUE /\ tab = "all" /\ views = NoViews /\ source = FALSE
  /\ loads = {[no |-> 0, got |-> NoViews]} /\ earlier = {} /\ clicks = 0 /\ tangled = FALSE /\ overtaken = FALSE

-----------------------------------------------------------------------------
(* The job and the service *)
Write(name) ==
  /\ ~ended /\ Len(output) < MaxLines
  /\ output' = Append(output, name)
  /\ events' = IF listening THEN Append(events, [event |-> "output", of |-> name, line |-> Len(output) + 1]) ELSE events
  /\ UNCHANGED <<ended, listening, opened, tab, views, source, loads, earlier, clicks, tangled, overtaken>>

End ==
  /\ ~ended /\ ended' = TRUE
  /\ events' = IF listening THEN Append(events, [event |-> "completed", of |-> "all", line |-> 0]) ELSE events
  /\ UNCHANGED <<output, listening, opened, tab, views, source, loads, earlier, clicks, tangled, overtaken>>

BreakOff ==
  /\ ended /\ listening /\ listening' = FALSE
  /\ events' = Append(events, [event |-> "error", of |-> "all", line |-> 0])
  /\ UNCHANGED <<job, opened, tab, views, source, loads, earlier, clicks, tangled, overtaken>>

(* The connection breaks early.  What was on it counts as written afterwards. *)
Cut ==
  /\ ~ended /\ listening /\ listening' = FALSE
  /\ clicks < MaxClicks /\ clicks' = clicks + 1
  /\ events' = Append(events, [event |-> "error", of |-> "all", line |-> 0])
  /\ UNCHANGED <<job, opened, tab, views, source, loads, earlier, tangled, overtaken>>

Relisten ==
  /\ source /\ ~listening /\ ~ended /\ listening' = TRUE
  /\ UNCHANGED <<job, events, opened, tab, views, source, loads, earlier, clicks, tangled, overtaken>>

-----------------------------------------------------------------------------
(* _: the dialog is opened.  What it showed before is gone. *)
Open ==
  /\ clicks < MaxClicks /\ clicks' = clicks + 1
  /\ ~opened /\ opened' = TRUE /\ tab' = "all" /\ views' = NoViews
  /\ loads' = loads \cup {[no |-> clicks', got |-> NoViews]}
  /\ tangled' = (tangled \/ loads # {} \/ earlier # {} \/ source)
  /\ UNCHANGED <<job, listening, events, source, earlier, overtaken>>

(* The last lines of a tab are loaded, or not. *)
Snapshot(name) ==
  LET lines == Lines(name)
      from == IF Len(lines) > PageLines THEN Len(lines) - PageLines ELSE 0
  IN  [lines |-> Window(name, from, Len(lines)), first |-> from, done |-> ended]

LoadTab(l) ==
  /\ l \in loads /\ Len(l.got) < Len(Tabs)
  /\ \E v \in {Snapshot(Tabs[Len(l.got) + 1]), Empty} :
       loads' = (loads \ {l}) \cup {[l EXCEPT !.got = Append(@, v)]}
  /\ UNCHANGED <<job, listening, events, opened, tab, views, source, earlier, clicks, tangled, overtaken>>

(* All three are there: they are shown, and the stream is opened unless there
   is one.  A dialog closed meanwhile is not noticed. *)
Show(l) ==
  /\ l \in loads /\ Len(l.got) = Len(Tabs)
  /\ loads' = loads \ {l}
  /\ views' = [name \in TabNames |-> l.got[CHOOSE i \in 1..3 : Tabs[i] = name]]
  /\ source' = TRUE /\ listening' = (listening \/ ~source)
  /\ UNCHANGED <<job, events, opened, tab, earlier, clicks, tangled, overtaken>>

(* v: the stream is closed, the loads go on. *)
Close ==
  /\ opened /\ opened' = FALSE /\ clicks < MaxClicks /\ clicks' = clicks + 1
  /\ source' = FALSE /\ listening' = FALSE /\ events' = <<>>
  /\ UNCHANGED <<job, tab, views, loads, earlier, tangled, overtaken>>

SwitchTab(name) ==
  /\ opened /\ name # tab /\ clicks < MaxClicks /\ clicks' = clicks + 1 /\ tab' = name
  /\ tangled' = (tangled \/ earlier # {})
  /\ UNCHANGED <<job, listening, events, opened, views, source, loads, earlier, overtaken>>

-----------------------------------------------------------------------------
Added(v, line) == [v EXCEPT !.lines = Append(@, line)]
Done(vs) == [name \in DOMAIN vs |-> [vs[name] EXCEPT !.done = TRUE]]

(* Faulty: a line goes to every tab. *)
FaultyDeliver ==
  /\ events # <<>> /\ events' = Tail(events)
  /\ overtaken' = (overtaken \/ earlier # {})
  /\ LET e == Head(events)
     IN  views' = CASE views = NoViews -> views
                    [] views # NoViews /\ e.event = "output" -> [name \in TabNames |-> Added(views[name], e.line)]
                    [] OTHER -> Done(views)
  /\ UNCHANGED <<job, listening, opened, tab, source, loads, earlier, clicks, tangled>>

(* Faulty: a connection that breaks says nothing about the job. *)
FaultyDeafDeliver ==
  /\ events # <<>> /\ events' = Tail(events)
  /\ overtaken' = (overtaken \/ earlier # {})
  /\ LET e == Head(events)
     IN  views' = CASE views = NoViews -> views
                    [] views # NoViews /\ e.event = "output" ->
                         [name \in TabNames |-> IF name \in {"all", e.of} THEN Added(views[name], e.line) ELSE views[name]]
                    [] views # NoViews /\ e.event = "completed" -> Done(views)
                    [] OTHER -> views
  /\ UNCHANGED <<job, listening, opened, tab, source, loads, earlier, clicks, tangled>>

(* y: a line goes to its tab and to the tab of all lines; the end of the job
   and the end of the connection mark all tabs.  Without views, nothing. *)
Deliver ==
  /\ events # <<>> /\ events' = Tail(events)
  /\ overtaken' = (overtaken \/ earlier # {})
  /\ LET e == Head(events)
     IN  views' = CASE views = NoViews -> views
                    [] views # NoViews /\ e.event = "output" ->
                         [name \in TabNames |-> IF name \in {"all", e.of} THEN Added(views[name], e.line) ELSE views[name]]
                    [] OTHER -> Done(views)
  /\ UNCHANGED <<job, listening, opened, tab, source, loads, earlier, clicks, tangled>>

(* b: the lines before the first one.  The view is remembered as it is now. *)
LoadEarlier ==
  /\ clicks < MaxClicks /\ clicks' = clicks + 1
  /\ opened /\ views # NoViews /\ views[tab].first > 0
  /\ LET v == views[tab]
         from == IF v.first > PageLines THEN v.first - PageLines ELSE 0
     IN  earlier' = earlier \cup {[no |-> clicks', view |-> v, first |-> from,
                                   lines |-> Window(tab, from, v.first)]}
  /\ UNCHANGED <<job, listening, events, opened, tab, views, source, loads, tangled, overtaken>>

(* The answer is put before the view as it was, into the tab of now; an empty
   one changes nothing. *)
ShowEarlier(l) ==
  /\ l \in earlier /\ earlier' = earlier \ {l}
  /\ l.lines # <<>>
  /\ views' = IF views = NoViews THEN views
              ELSE [views EXCEPT ![tab] = [l.view EXCEPT !.lines = l.lines \o @, !.first = l.first]]
  /\ UNCHANGED <<job, listening, events, opened, tab, source, loads, clicks, tangled, overtaken>>

EarlierFails(l) ==
  /\ l \in earlier /\ earlier' = earlier \ {l}
  /\ UNCHANGED <<job, listening, events, opened, tab, views, source, loads, clicks, tangled, overtaken>>

-----------------------------------------------------------------------------
LoadingTabs == \E l \in loads : LoadTab(l) \/ Show(l)

LogNext ==
  \/ \E name \in {"stdout", "stderr"} : Write(name)
  \/ End \/ BreakOff \/ Cut \/ Relisten
  \/ Open \/ Close \/ \E name \in TabNames : SwitchTab(name)
  \/ LoadingTabs \/ Deliver \/ LoadEarlier
  \/ \E l \in earlier : ShowEarlier(l) \/ EarlierFails(l)

(* Requests are answered and events delivered; the job and the user are free. *)
LogFairness == WF_logVars(BreakOff) /\ WF_logVars(LoadingTabs) /\ WF_logVars(Deliver)

LogSpec == LogInit /\ [][LogNext]_logVars /\ LogFairness

-----------------------------------------------------------------------------
(* A tab shows lines of its own, in order and each once: unless the dialog was
   opened while something of an earlier opening was under way, or the tab was
   left while its earlier lines were. *)
LinesAreOrdered ==
  (views # NoViews /\ ~tangled) =>
    \A name \in TabNames :
      LET lines == views[name].lines
      IN  /\ \A i \in 1..Len(lines) : name \in {"all", output[lines[i]]}
          /\ \A i, j \in 1..Len(lines) : i < j => lines[i] < lines[j]

(* A dialog that stays open shows in the end that the job is over, unless it
   was opened again, or an event came, while something was being loaded. *)
EndIsShown ==
  (opened /\ ended) ~>
    (~opened \/ tangled \/ overtaken \/ (views # NoViews /\ \A name \in TabNames : views[name].done))
=============================================================================
