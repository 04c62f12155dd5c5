------------------------------ MODULE Screens ------------------------------
(***************************************************************************)
(* One page of a front end in use: the person at it, the promises it has   *)
(* under way, the rows of the server, and the other users who change them. *)
(* The pages differ in the record that describes them (PageKit); what the  *)
(* browser, React and the API make of such a record is the same for all.   *)
(*                                                                         *)
(* An action of the page reaches from one await to the next.  A row of the *)
(* server has a status and the number of changes made to it.               *)
(***************************************************************************)
EXTENDS PageKit, Integers, FiniteSets, TLC

CONSTANTS
  Pages,        \* the pages, as records of PageKit
  Rows,         \* identifiers of rows
  Present,      \* those that exist when the page is opened
  MaxPresses,   \* bound on presses of a control
  MaxTrouble    \* bound on changes by other users and requests that break off

ASSUME PagesAssumption == \A p \in Pages : IsPage(p)
ASSUME HabitsAssumption ==
  \A p \in Pages : AddsWhatItMade(p) /\ KeepsUp(p) /\ OffersWhatIsAccepted(p)
ASSUME RowsAssumption == Rows \subseteq Nat \ {0}
ASSUME PressesAssumption == MaxPresses \in Nat

VARIABLES
  page,      \* the page that is open
  server,    \* the rows as stored
  view,      \* the rows as the page shows them, and how many times
  press,     \* the handlers of the page, one for each press
  load,      \* the loads: 0 on opening, i for press i, the last for a parameter
  raised,    \* Boolean flags that are true
  slot,      \* the row in the variable of RowSlot, 0 for null
  loading,   \* the page shows that a load is under way
  known,     \* there is a list to show, if only of what was added to it
  left,      \* the browser is on another page
  hurried,   \* history: a control was pressed before a list was there, or a list
             \* was unfolded again before a handler had ended
  acked,     \* history: the last change of a row the page was told to be its own
  trouble    \* number of disturbances so far, for the bound

flags == <<raised, slot>>
history == <<hurried, acked>>
vars == <<page, server, view, press, load, raised, slot, loading, known, left, hurried,
          acked, trouble>>

Presses == 1 .. MaxPresses
Opening == 0
Reparam == MaxPresses + 1
Loads == Opening .. Reparam

Stored(status, rev) == [status |-> status, rev |-> rev]
Showing(n, status, rev) == [n |-> n, status |-> status, rev |-> rev]
Hidden == Showing(0, "absent", 0)

NoOp == [kind |-> "none", from |-> {}, flag |-> NoFlag, calls |-> <<>>, fatal |-> FALSE]
Unused == [phase |-> "unused", op |-> NoOp, call |-> 1, row |-> 0, seen |-> "absent",
           rev |-> 0, answer |-> [row |-> 0, status |-> "absent", rev |-> 0]]
Over == [Unused EXCEPT !.phase = "over"]

Loaded(phase, rows) == [phase |-> phase, rows |-> rows]
Empty(phase) == Loaded(phase, [r \in Rows |-> Hidden])

Init ==
  /\ page \in Pages
  /\ \E s \in StatusesOf(page) :
       server = [r \in Rows |-> IF r \in Present THEN Stored(s, 1) ELSE Stored("absent", 0)]
  /\ view = [r \in Rows |-> Hidden]
  /\ press = [i \in Presses |-> Unused]
  /\ load = [k \in Loads |-> Empty(IF k = Opening /\ page.loads # "none" THEN "asked" ELSE "idle")]
  /\ raised = {}
  /\ slot = 0
  /\ loading = (page.loads # "none")
  /\ known = FALSE
  /\ left = FALSE
  /\ hurried = FALSE
  /\ acked = [r \in Rows |-> 0]
  /\ trouble = 0

Disturb == trouble < MaxTrouble /\ trouble' = trouble + 1

-----------------------------------------------------------------------------
(* The person presses a control.                                            *)
Pending(i) == press[i].phase \notin {"unused", "over"}
UnderWay(k) == load[k].phase \in {"asked", "served"}

Exists(r) == server[r].status \notin {"absent", "deleted"}
Spare == {r \in Rows : server[r].status = "absent"}
NewRows == {r \in Spare : \A q \in Spare : r <= q}

Usable(op) ==
  CASE page.gate = "open" -> TRUE
    [] page.gate \in {"rows", "list"} -> op.kind = "create" \/ ~loading
    [] page.gate = "ended" -> load[Opening].phase = "ended"
    [] page.gate = "data" -> \E r \in Rows : view[r].n > 0

Offered_InAnyStatus(op, r) == IF op.kind = "create" THEN r = 0 ELSE r \in Rows /\ view[r].n > 0

Offered(op, r) ==
  IF op.kind = "create" THEN r = 0
  ELSE /\ r \in Rows
       /\ view[r].n > 0
       /\ op.from = {} \/ view[r].status \in op.from

Disabled(op, r) == op.flag \in raised \/ (op.flag = RowSlot /\ slot = r /\ r # 0)

\* Flags of other controls that a call raises and lowers.
Inner(op, n) == {op.calls[n].during} \ {NoFlag}

Raise_AnyFlag(op, r) ==
  /\ raised' = raised \cup {op.flag}
  /\ slot' = IF op.flag = RowSlot THEN r ELSE slot

\* The slot has room for one row: the last press has it.
Raise(op, r) ==
  /\ raised' = raised \cup ({op.flag} \ {NoFlag, RowSlot}) \cup Inner(op, 1)
  /\ slot' = IF op.flag = RowSlot THEN r ELSE slot

\* Whoever else has raised them.
Lower(op, n) ==
  /\ raised' = raised \ ({op.flag} \cup Inner(op, n))
  /\ slot' = IF op.flag = RowSlot THEN 0 ELSE slot

Start(i, op, r) ==
  /\ ~left
  /\ press[i] = Unused /\ \A j \in 1 .. i - 1 : press[j] # Unused
  /\ Usable(op) /\ Offered(op, r)
  /\ press' = [press EXCEPT ![i] =
       [Unused EXCEPT !.phase = "asked", !.op = op, !.row = r,
                      !.seen = IF r = 0 THEN @ ELSE view[r].status,
                      !.rev = IF r = 0 THEN @ ELSE view[r].rev]]
  /\ Raise(op, r)
  /\ hurried' = (hurried \/ UnderWay(Opening) \/ UnderWay(Reparam))
  /\ UNCHANGED <<page, server, view, load, loading, known, left, acked, trouble>>

Press_NotDisabled(i, op, r) == Start(i, op, r)

Press(i, op, r) == ~Disabled(op, r) /\ Start(i, op, r)

-----------------------------------------------------------------------------
(* The server, statement by statement.                                      *)
This(i) == press[i].op.calls[press[i].call]
Does(i) == This(i).does

Passes(i) ==
  LET r == press[i].row IN
  IF Does(i).test = "insert" THEN Spare # {} ELSE Exists(r) /\ Accepts(Does(i), server[r].status)

Becomes(i, phase) == press' = [press EXCEPT ![i].phase = phase]
ServerOnly == UNCHANGED <<page, view, load, flags, loading, known, left, history, trouble>>

\* A handler that creates goes on with the row it has made.
Answered(i, r, to, rev) ==
  press' = [press EXCEPT
    ![i].phase = "done",
    ![i].answer = [row |-> r, status |-> to, rev |-> rev],
    ![i].row = IF press[i].op.kind = "create" THEN r ELSE @,
    ![i].rev = IF Does(i).test # "insert" THEN @ + (rev - server[r].rev)
               ELSE IF press[i].op.kind = "create" THEN rev ELSE @]

Write(i) ==
  \E r \in IF Does(i).test = "insert" THEN NewRows ELSE {press[i].row} :
  \E to \in IF Does(i).to = Same THEN {server[r].status} ELSE Does(i).to :
    LET rev == server[r].rev + IF Does(i).test = "read" THEN 0 ELSE 1 IN
    /\ server' = [server EXCEPT ![r] = Stored(to, rev)]
    /\ Answered(i, r, to, rev)

\* The statement that goes first.  It may also fail: nothing looks at its error.
ClearOthers(i) ==
  /\ press[i].phase = "asked"
  /\ \E s \in Does(i).others :
       server' = [r \in Rows |->
         IF Exists(r) /\ server[r].status \in Does(i).to THEN Stored(s, server[r].rev + 1)
         ELSE server[r]]
  /\ Becomes(i, "cleared")
  /\ ServerOnly

Serve(i) ==
  /\ press[i].phase \in {"asked", "cleared"} /\ Does(i).test # "select" /\ Passes(i)
  /\ Write(i)
  /\ ServerOnly

Check(i) ==
  /\ press[i].phase = "asked" /\ Does(i).test = "select" /\ Passes(i)
  /\ Becomes(i, "checked")
  /\ UNCHANGED server /\ ServerOnly

\* What the SELECT found is not looked at again.
ServeChecked(i) ==
  /\ press[i].phase = "checked"
  /\ IF Exists(press[i].row) THEN Write(i)
     ELSE Becomes(i, "failed") /\ UNCHANGED server
  /\ ServerOnly

\* 400, 404 or 409.  An INSERT may be refused for what was typed.
Refuse(i) ==
  /\ press[i].phase \in {"asked", "cleared"}
  /\ Does(i).test = "insert" \/ Does(i).choosy \/ ~Passes(i)
  /\ Becomes(i, "failed")
  /\ UNCHANGED server /\ ServerOnly

\* The connection breaks before the request arrived, or before its answer did.
Lose(i) ==
  /\ press[i].phase \in {"asked", "cleared", "done"}
  /\ Disturb
  /\ Becomes(i, "failed")
  /\ UNCHANGED <<page, server, view, load, flags, loading, known, left, history>>

-----------------------------------------------------------------------------
(* The page goes on when a call has returned.                               *)
Render_PutAdds(v, a, show) ==
  LET shown(n) == [v EXCEPT ![a.row] = Showing(n, a.status, a.rev)]
      n == v[a.row].n
  IN CASE show \in {"add", "put"} -> shown(n + 1)
       [] show \in {"upsert", "mark"} -> shown(1)
       [] show = "drop" -> [v EXCEPT ![a.row] = Hidden]
       [] OTHER -> v

Render_NoPut(v, a, show) ==
  LET shown(n) == [v EXCEPT ![a.row] = Showing(n, a.status, a.rev)]
      n == v[a.row].n
  IN CASE show = "add" -> shown(n + 1)
       [] show = "drop" -> [v EXCEPT ![a.row] = Hidden]
       [] OTHER -> v

Render(v, a, show) ==
  LET shown(n) == [v EXCEPT ![a.row] = Showing(n, a.status, a.rev)]
      n == v[a.row].n
  IN CASE show = "add" -> shown(n + 1)
       [] show = "put" /\ n > 0 -> shown(n)
       [] show \in {"upsert", "mark"} -> shown(1)
       [] show = "drop" -> [v EXCEPT ![a.row] = Hidden]
       [] show = "oust" -> [r \in Rows |->
            IF r = a.row THEN Showing(1, a.status, a.rev)
            ELSE IF v[r].status = "primary" THEN Hidden ELSE v[r]]
       [] OTHER -> v

More(i) ==
  LET calls == press[i].op.calls n == press[i].call + 1
  IN n <= Len(calls) /\ (calls[n].when = {} \/ press[i].seen \in calls[n].when)

\* A copy has what it had when the control was pressed and what the call did to it.
Shown(i) ==
  [press[i].answer EXCEPT !.rev = IF This(i).show = "mark" THEN press[i].rev ELSE @]

Told(i) == [acked EXCEPT ![press[i].answer.row] = press[i].answer.rev]

Returned(i) ==
  /\ ~left /\ press[i].phase = "done"
  /\ view' = Render(view, Shown(i), This(i).show)
  /\ known' = (known \/ This(i).show = "add")
  /\ UNCHANGED <<page, server, hurried, trouble>>

GoOn(i) ==
  /\ Returned(i) /\ More(i)
  /\ press' = [press EXCEPT ![i].phase = "asked", ![i].call = @ + 1]
  /\ raised' = (raised \ Inner(press[i].op, press[i].call))
               \cup Inner(press[i].op, press[i].call + 1)
  /\ acked' = Told(i)
  /\ UNCHANGED <<load, slot, loading, left>>

LoadFor(k) ==
  /\ load' = [load EXCEPT ![k] = Empty("asked")]
  /\ loading' = (loading \/ page.gate = "list")

Reload_NotAwaited(i) ==
  /\ Returned(i) /\ ~More(i) /\ This(i).show = "reload"
  /\ press' = [press EXCEPT ![i] = Over]
  /\ Lower(press[i].op, press[i].call)
  /\ LoadFor(i)
  /\ UNCHANGED <<left, acked>>

Reload(i) ==
  /\ Returned(i) /\ ~More(i) /\ This(i).show = "reload"
  /\ Becomes(i, "reloading")
  /\ LoadFor(i)
  /\ UNCHANGED <<flags, left, acked>>

Refetch(i) ==
  /\ Returned(i) /\ ~More(i) /\ This(i).show = "refetch"
  /\ press' = [press EXCEPT ![i] = Over]
  /\ Lower(press[i].op, press[i].call)
  /\ LoadFor(i)
  /\ UNCHANGED <<left, acked>>

LeavePage(i) ==
  /\ Returned(i) /\ ~More(i) /\ This(i).show = "leave"
  /\ press' = [press EXCEPT ![i] = Over]
  /\ left' = TRUE
  /\ UNCHANGED <<load, flags, loading, acked>>

Finish(i) ==
  /\ Returned(i) /\ ~More(i) /\ This(i).show \notin {"reload", "refetch", "leave"}
  /\ press' = [press EXCEPT ![i] = Over]
  /\ Lower(press[i].op, press[i].call)
  /\ acked' = Told(i)
  /\ UNCHANGED <<load, loading, left>>

\* catch and finally: a message, and the flag comes down.
Fail(i) ==
  /\ ~left /\ press[i].phase = "failed"
  /\ press' = [press EXCEPT ![i] = Over]
  /\ Lower(press[i].op, press[i].call)
  /\ left' = press[i].op.fatal
  /\ UNCHANGED <<page, server, view, load, loading, known, history, trouble>>

-----------------------------------------------------------------------------
(* Loads.                                                                   *)
Snapshot == [r \in Rows |-> IF Exists(r) THEN Showing(1, server[r].status, server[r].rev)
                            ELSE Hidden]

ServeLoad(k) ==
  /\ load[k].phase = "asked"
  /\ load' = [load EXCEPT ![k] = Loaded("served", Snapshot)]
  /\ UNCHANGED <<page, server, view, press, flags, loading, known, left, history, trouble>>

Awaited(k) == k \in Presses /\ press[k].phase = "reloading"

EndLoad(k) ==
  /\ ~left
  /\ load' = [load EXCEPT ![k] = Empty("ended")]
  /\ loading' = FALSE
  /\ IF Awaited(k)
     THEN press' = [press EXCEPT ![k] = Over] /\ Lower(press[k].op, press[k].call)
     ELSE UNCHANGED <<press, flags>>
  /\ UNCHANGED <<page, server, hurried>>

\* Whichever load returns last is what the page shows.
ApplyLoad(k) ==
  /\ load[k].phase = "served"
  /\ view' = load[k].rows
  /\ acked' = IF Awaited(k) THEN Told(k) ELSE acked
  /\ known' = TRUE
  /\ EndLoad(k)
  /\ UNCHANGED <<left, trouble>>

FailLoad(k) ==
  /\ UnderWay(k)
  /\ Disturb
  /\ view' = IF page.empties THEN [r \in Rows |-> Hidden] ELSE view
  /\ left' = (Awaited(k) /\ press[k].op.fatal)
  /\ EndLoad(k)
  /\ UNCHANGED <<known, acked>>

\* The load before is not cancelled.
LoadAgain ==
  /\ ~left /\ load[Reparam].phase = "idle"
  /\ LoadFor(Reparam)
  /\ hurried' = (hurried \/ \E i \in Presses : Pending(i))
  /\ UNCHANGED <<page, server, view, press, flags, known, left, acked, trouble>>

\* A filter is changed or the device comes online: the effect runs again.
ChangeParam == page.loads = "keyed" /\ LoadAgain

\* The list inside a row is folded and unfolded.
Expand == page.loads = "lazy" /\ ~known /\ LoadAgain

-----------------------------------------------------------------------------
(* Another user changes a row, deletes it, or adds one.                     *)
OtherUser ==
  /\ Disturb
  /\ \/ \E r \in Rows, s \in StatusesOf(page) \cup {"deleted"} :
          Exists(r) /\ server' = [server EXCEPT ![r] = Stored(s, @.rev + 1)]
     \/ \E r \in NewRows, s \in StatusesOf(page) :
          server' = [server EXCEPT ![r] = Stored(s, 1)]
  /\ UNCHANGED <<page, view, press, load, flags, loading, known, left, history>>

Handle(i) == ClearOthers(i) \/ Serve(i) \/ Check(i) \/ ServeChecked(i) \/ Refuse(i)
Return(i) == GoOn(i) \/ Reload(i) \/ Refetch(i) \/ LeavePage(i) \/ Finish(i) \/ Fail(i)

Next ==
  \/ \E i \in Presses :
       \/ \E op \in page.ops, r \in Rows \cup {0} : Press(i, op, r)
       \/ Handle(i) \/ Lose(i) \/ Return(i)
  \/ \E k \in Loads : ServeLoad(k) \/ ApplyLoad(k) \/ FailLoad(k)
  \/ ChangeParam \/ Expand
  \/ OtherUser

Spec == Init /\ [][Next]_vars

-----------------------------------------------------------------------------
Phases == {"unused", "asked", "cleared", "checked", "done", "failed", "reloading", "over"}

OneAtATime == OneFlag(page)

\* The person waited for the list, and the page has one thing to load.
Calm == ~hurried /\ page.loads = "once"

AtRest ==
  /\ \A i \in Presses : ~Pending(i)
  /\ \A k \in Loads : load[k].phase \in {"idle", "ended"}

(* The types of the variables.                                              *)
Statuses == {"absent", "deleted"} \cup UNION {StatusesOf(p) : p \in Pages}
ViewType == [Rows -> [n : Nat, status : Statuses, rev : Nat]]

TypeOK ==
  /\ page \in Pages
  /\ server \in [Rows -> [status : Statuses, rev : Nat]]
  /\ view \in ViewType
  /\ press \in [Presses -> [phase : Phases, op : page.ops \cup {NoOp}, call : Nat,
                            row : Rows \cup {0}, seen : Statuses, rev : Nat,
                            answer : [row : Rows \cup {0}, status : Statuses, rev : Nat]]]
  /\ load \in [Loads -> [phase : {"idle", "asked", "served", "ended"}, rows : ViewType]]
  /\ raised \subseteq Flags(page)
  /\ slot \in Rows \cup {0}
  /\ loading \in BOOLEAN /\ known \in BOOLEAN /\ left \in BOOLEAN /\ hurried \in BOOLEAN
  /\ acked \in [Rows -> Nat]

(* A flag never stays up when no handler is left that would take it down,   *)
(* awaited reloads and second calls included.  Unless one control calls the *)
(* function behind another, and with it raises and lowers the flag of that  *)
(* other, a flag is up for as long as such a handler is there, and there is *)
(* one: a control with a flag of its own never has two requests under way.  *)
Holding(f) ==
  {i \in Presses : Pending(i) /\ f \in {press[i].op.flag} \cup Inner(press[i].op, press[i].call)}

OneInFlightPerFlag ==
  \A f \in Flags(page) :
    /\ left \/ (f \in raised => Holding(f) # {})
    /\ f \notin Nested(page) =>
         /\ \A i, j \in Holding(f) : i = j
         /\ left \/ (Holding(f) # {} => f \in raised)

(* A row is in the list once.  Pages add what they created to whatever they *)
(* show: this needs that no load is under way when a control is pressed and *)
(* none is begun while a handler is at work, which is up to the person on   *)
(* pages that load as they open and in lists that load as they unfold.      *)
OneList ==
  /\ ~hurried
  /\ \/ page.loads = "once" /\ OneAtATime
     \/ page.loads \in {"once", "lazy"} /\ ShownBy(page) \cap {"reload", "refetch"} = {}

ShownAtMostOnce == OneList => \A r \in Rows : view[r].n <= 1

(* When nothing is under way, a page with one flag shows of every row its   *)
(* own last change that it was told of, or a later one; a row it does not   *)
(* show is no longer there.                                                 *)
RestsOnOwnWrites ==
  Calm /\ OneAtATime /\ "oust" \notin ShownBy(page) /\ AtRest =>
    \A r \in Rows : acked[r] > 0 =>
      IF view[r].n > 0 THEN view[r].rev >= acked[r] ELSE ~Exists(r)

(* A page with one flag never goes back to an older state of a row: answers *)
(* and reloads are shown in the order in which the server made them.        *)
ViewMovesForward ==
  [][Calm /\ OneAtATime =>
       \A r \in Rows : view'[r].n > 0 => view'[r].rev >= view[r].rev]_vars

(* The statuses in which a page offers a control are those in which the     *)
(* handler behind it, or the last of several, agrees: unless it has other   *)
(* reasons as well (Choosy), the server refuses only if somebody else has   *)
(* changed the row since the page showed it.                                *)
FreshPressIsAccepted ==
  [][\A i \in Presses :
       Refuse(i) /\ Does(i).test # "insert" /\ ~Does(i).choosy =>
         server[press[i].row].rev # press[i].rev]_vars
=============================================================================
