------------------------- MODULE ScreenLists_proofs -------------------------
(***************************************************************************)
(* Proofs about what pages show, for any set of pages with the habits of   *)
(* PageKit (HabitsAssumption), any rows, and any number of presses, loads  *)
(* and disturbances.                                                       *)
(*                                                                         *)
(* Whatever a page or an answer says of a row was once true of it, and is  *)
(* still true if nobody has changed the row since.  From that, and from    *)
(* what a flag keeps apart, follows what becomes of the list.              *)
(***************************************************************************)
EXTENDS Screens_proofs

\* The steps, by what becomes of the rows, of one handler and of one load.
Others(i) == \A j \in Presses : j # i => press'[j] = press[j]
OtherLoads(k) == \A l \in Loads : l # k => load'[l] = load[l]
Looks == <<page, view, load, acked, hurried>>

Pressed(i, op, r) ==
  /\ press[i] = Unused /\ Offered(op, r)
  /\ press'[i].phase = "asked" /\ press'[i].op = op /\ press'[i].call = 1 /\ press'[i].row = r
  /\ r \in Rows => press'[i].seen = view[r].status /\ press'[i].rev = view[r].rev
  /\ Others(i)
  /\ hurried' = (hurried \/ UnderWay(Opening) \/ UnderWay(Reparam))
  /\ UNCHANGED <<page, server, view, load, acked>>

Wrote(i, r, to, rev) ==
  LET d == Does(i) create == press[i].op.kind = "create" IN
  /\ press[i].phase \in {"asked", "cleared", "checked"}
  /\ IF d.test = "insert" THEN server[r].status = "absent" ELSE r = press[i].row /\ Exists(r)
  /\ to \in IF d.to = Same THEN {server[r].status} ELSE d.to
  /\ rev = server[r].rev + IF d.test = "read" THEN 0 ELSE 1
  /\ server'[r] = Stored(to, rev) /\ \A s \in Rows : s # r => server'[s] = server[s]
  /\ press'[i].phase = "done" /\ press'[i].op = press[i].op /\ press'[i].call = press[i].call
  /\ press'[i].seen = press[i].seen
  /\ press'[i].answer = [row |-> r, status |-> to, rev |-> rev]
  /\ press'[i].row = IF create THEN r ELSE press[i].row
  /\ press'[i].rev = IF d.test # "insert" THEN press[i].rev + (rev - server[r].rev)
                     ELSE IF create THEN rev ELSE press[i].rev
  /\ Others(i)
  /\ UNCHANGED Looks

RowsChange ==
  \A r \in Rows :
    \/ server'[r] = server[r]
    \/ Exists(r) /\ \E s \in StatusesOf(page) \cup {"deleted"} : server'[r] = Stored(s, server[r].rev + 1)
    \/ server[r].status = "absent" /\ \E s \in StatusesOf(page) : server'[r] = Stored(s, 1)

Moved(i, phase) ==
  /\ press[i].phase \in {"asked", "cleared", "checked", "done"}
  /\ press'[i] = [press[i] EXCEPT !.phase = phase]
  /\ phase \in {"cleared", "checked"} => press[i].phase = "asked"
  /\ RowsChange /\ Others(i) /\ UNCHANGED Looks

Went(i) ==
  /\ More(i) /\ press'[i] = [press[i] EXCEPT !.phase = "asked", !.call = @ + 1]
  /\ acked' = Told(i) /\ load' = load
Asks(i) ==
  /\ load'[i] = Empty("asked") /\ OtherLoads(i) /\ acked' = acked /\ ~More(i)
  /\ \/ This(i).show = "reload" /\ press'[i] = [press[i] EXCEPT !.phase = "reloading"]
     \/ This(i).show = "refetch" /\ press'[i] = Over
Ends(i) ==
  /\ press'[i] = Over /\ load' = load /\ ~More(i)
  /\ \/ This(i).show = "leave" /\ acked' = acked
     \/ This(i).show \notin {"reload", "refetch", "leave"} /\ acked' = Told(i)

Came(i) ==
  /\ press[i].phase = "done" /\ view' = Render(view, Shown(i), This(i).show)
  /\ Went(i) \/ Asks(i) \/ Ends(i)
  /\ Others(i) /\ UNCHANGED <<page, server, hurried>>

Failing(i) ==
  /\ press[i].phase = "failed" /\ press'[i] = Over
  /\ Others(i) /\ UNCHANGED server /\ UNCHANGED Looks

Brought(k) ==
  /\ load[k].phase = "asked" /\ load'[k] = Loaded("served", Snapshot) /\ OtherLoads(k)
  /\ UNCHANGED <<page, server, press, view, acked, hurried>>

Closed(k) ==
  /\ load[k].phase \in {"asked", "served"} /\ load'[k] = Empty("ended") /\ OtherLoads(k)
  /\ IF Awaited(k) THEN press'[k] = Over /\ Others(k) ELSE press' = press
  /\ \/ /\ load[k].phase = "served" /\ view' = load[k].rows
        /\ acked' = IF Awaited(k) THEN Told(k) ELSE acked
     \/ UNCHANGED <<view, acked>>
     \/ page.empties /\ view' = [r \in Rows |-> Hidden] /\ acked' = acked
  /\ UNCHANGED <<page, server, hurried>>

Again ==
  /\ page.loads \in {"keyed", "lazy"} /\ load'[Reparam] = Empty("asked") /\ OtherLoads(Reparam)
  /\ hurried' = (hurried \/ \E i \in Presses : Pending(i))
  /\ UNCHANGED <<page, server, press, view, acked>>

Elsewhere == RowsChange /\ press' = press /\ UNCHANGED Looks

LEMMA TypedParts ==
  ASSUME Inv
  PROVE  /\ press \in [Presses -> PressType]
         /\ server \in [Rows -> [status : Statuses, rev : Nat]]
         /\ load \in [Loads -> [phase : {"idle", "asked", "served", "ended"}, rows : ViewType]]
         /\ view \in ViewType /\ acked \in [Rows -> Nat]
         /\ Presses \subseteq Loads /\ Opening \in Loads /\ Reparam \in Loads
         /\ Opening \notin Presses /\ Reparam \notin Presses /\ 0 \notin Rows
BY PressesAssumption, RowsAssumption
DEF Inv, TypeOK, PressType, AnswerType, Presses, Loads, Opening, Reparam

LEMMA WriteSteps ==
  ASSUME Inv, NEW i \in Presses, Write(i), press[i].phase \in {"asked", "cleared", "checked"},
         Does(i).test # "insert" => press[i].row \in Rows /\ Exists(press[i].row),
         UNCHANGED Looks
  PROVE  \E r \in Rows : \E to, rev : Wrote(i, r, to, rev)
<1>1. PICK r \in IF Does(i).test = "insert" THEN NewRows ELSE {press[i].row} :
        \E to \in IF Does(i).to = Same THEN {server[r].status} ELSE Does(i).to :
          LET rev == server[r].rev + IF Does(i).test = "read" THEN 0 ELSE 1 IN
          /\ server' = [server EXCEPT ![r] = Stored(to, rev)]
          /\ Answered(i, r, to, rev)
  BY DEF Write
<1>2. PICK to \in IF Does(i).to = Same THEN {server[r].status} ELSE Does(i).to :
        LET rev == server[r].rev + IF Does(i).test = "read" THEN 0 ELSE 1 IN
        /\ server' = [server EXCEPT ![r] = Stored(to, rev)]
        /\ Answered(i, r, to, rev)
  BY <1>1
<1>3. PICK rev : /\ rev = server[r].rev + IF Does(i).test = "read" THEN 0 ELSE 1
                 /\ server' = [server EXCEPT ![r] = Stored(to, rev)]
                 /\ Answered(i, r, to, rev)
  BY <1>2
<1>4. r \in Rows /\ IF Does(i).test = "insert" THEN server[r].status = "absent"
                    ELSE r = press[i].row /\ Exists(r)
  BY <1>1 DEF NewRows, Spare
<1>5. server'[r] = Stored(to, rev) /\ \A s \in Rows : s # r => server'[s] = server[s]
  BY <1>3, <1>4, TypedParts
<1> DEFINE a == [row |-> r, status |-> to, rev |-> rev]
           row == IF press[i].op.kind = "create" THEN r ELSE press[i].row
           mine == IF Does(i).test # "insert" THEN press[i].rev + (rev - server[r].rev)
                   ELSE IF press[i].op.kind = "create" THEN rev ELSE press[i].rev
<1>6. press' = [press EXCEPT ![i] =
        [press[i] EXCEPT !.phase = "done", !.answer = a, !.row = row, !.rev = mine]]
  BY <1>3, TypedParts DEF Answered, PressType
<1>7. /\ press'[i].phase = "done" /\ press'[i].op = press[i].op /\ press'[i].call = press[i].call
      /\ press'[i].seen = press[i].seen /\ press'[i].answer = a /\ press'[i].row = row
      /\ press'[i].rev = mine
      /\ Others(i)
  <2> HIDE DEF a, row, mine
  <2> QED
    BY <1>6, TypedParts DEF PressType, Others
<1> QED
  BY <1>2, <1>3, <1>4, <1>5, <1>7 DEF Wrote

LEMMA MoveSteps ==
  ASSUME Inv, NEW i \in Presses, press[i].phase \in {"asked", "cleared", "checked", "done"},
         NEW phase, Becomes(i, phase),
         phase \in {"cleared", "checked"} => press[i].phase = "asked", RowsChange, UNCHANGED Looks
  PROVE  Moved(i, phase)
BY TypedParts DEF Becomes, Moved, Others

LEMMA ReturnSteps ==
  ASSUME Inv, NEW i \in Presses, Return(i)
  PROVE  Came(i) \/ Failing(i)
<1>0. press \in [Presses -> PressType] /\ i \in Loads
      /\ load \in [Loads -> [phase : {"idle", "asked", "served", "ended"}, rows : ViewType]]
  BY TypedParts
<1>1. CASE GoOn(i)
  <2>1. press' = [press EXCEPT ![i] = [press[i] EXCEPT !.phase = "asked", !.call = @ + 1]]
    BY <1>0, <1>1 DEF GoOn, PressType
  <2> QED
    BY <1>0, <1>1, <2>1 DEF GoOn, Returned, Came, Went, Others
<1>2. CASE Reload(i)
  <2>1. press' = [press EXCEPT ![i] = [press[i] EXCEPT !.phase = "reloading"]]
    BY <1>0, <1>2 DEF Reload, Becomes
  <2> QED
    BY <1>0, <1>2, <2>1 DEF Reload, Returned, LoadFor, Came, Asks, Others, OtherLoads
<1>3. CASE Refetch(i)
  BY <1>0, <1>3 DEF Refetch, Returned, LoadFor, Came, Asks, Others, OtherLoads
<1>4. CASE LeavePage(i) \/ Finish(i)
  BY <1>0, <1>4 DEF LeavePage, Finish, Returned, Came, Ends, Others
<1>5. CASE Fail(i)
  BY <1>0, <1>5 DEF Fail, Failing, Others, Looks, history
<1> QED
  BY <1>1, <1>2, <1>3, <1>4, <1>5 DEF Return

LEMMA LoadSteps ==
  ASSUME Inv, NEW k \in Loads
  PROVE  /\ ServeLoad(k) => Brought(k)
         /\ ApplyLoad(k) \/ FailLoad(k) => Closed(k)
<1>1. ServeLoad(k) => Brought(k)
  BY TypedParts DEF ServeLoad, Brought, OtherLoads, history
<1>2. ASSUME EndLoad(k), load[k].phase \in {"asked", "served"}
      PROVE  /\ load'[k] = Empty("ended") /\ OtherLoads(k)
             /\ IF Awaited(k) THEN press'[k] = Over /\ Others(k) ELSE press' = press
             /\ UNCHANGED <<page, server, hurried>>
  BY <1>2, TypedParts DEF EndLoad, OtherLoads, Others, Awaited
<1>3. ApplyLoad(k) => Closed(k)
  BY <1>2 DEF ApplyLoad, Closed
<1>4. FailLoad(k) => Closed(k)
  BY <1>2 DEF FailLoad, Closed, UnderWay
<1> QED
  BY <1>1, <1>3, <1>4

LEMMA OtherSteps ==
  ASSUME Inv, OtherUser \/ UNCHANGED vars
  PROVE  Elsewhere
<1>1. press' = press /\ UNCHANGED Looks
  BY DEF OtherUser, vars, Looks, history
<1>2. CASE UNCHANGED vars
  BY <1>1, <1>2 DEF vars, Elsewhere, RowsChange
<1>3. ASSUME NEW r \in Rows, NEW s \in StatusesOf(page) \cup {"deleted"}, Exists(r),
             server' = [server EXCEPT ![r] = Stored(s, @.rev + 1)]
      PROVE  Elsewhere
  BY <1>1, <1>3, TypedParts DEF Elsewhere, RowsChange
<1>4. ASSUME NEW r \in NewRows, NEW s \in StatusesOf(page),
             server' = [server EXCEPT ![r] = Stored(s, 1)]
      PROVE  Elsewhere
  <2>1. r \in Rows /\ server[r].status = "absent"
    BY <1>4 DEF NewRows, Spare
  <2> QED
    BY <1>1, <1>4, <2>1, TypedParts DEF Elsewhere, RowsChange
<1> QED
  BY <1>2, <1>3, <1>4 DEF OtherUser

\* The statuses a page speaks of are those of rows that are there.
LEMMA PageSpeaks ==
  ASSUME Inv
  PROVE  /\ StatusesOf(page) \cap Gone = {} /\ StatusesOf(page) # {}
         /\ \A op \in page.ops : \A n \in DOMAIN op.calls :
              /\ IsHandler(op.calls[n].does)
              /\ op.calls[n].does.to \cup op.calls[n].does.others
                   \subseteq StatusesOf(page) \cup {"deleted"}
              /\ op.calls[n].show \in ShownBy(page)
              /\ op.calls[n].show \in {"add", "put", "upsert", "oust", "mark"} =>
                   "deleted" \notin op.calls[n].does.to
              /\ op.calls[n].show = "mark" => op.calls[n].does.test # "insert"
<1> DEFINE calls == UNION {ToSet(op.calls) : op \in page.ops}
           said(c) == c.does.from \cup c.does.to \cup c.does.others
           named == ((UNION {op.from : op \in page.ops}) \cup (UNION {said(c) : c \in calls}))
                      \ {"deleted"}
<1>1. \A op \in page.ops : IsOp(op)
  BY PageFacts DEF Inv
<1>2. \A c \in calls : IsHandler(c.does)
  BY <1>1 DEF IsOp
<1>3. \A op \in page.ops : op.from \cap Gone = {}
  BY <1>1 DEF IsOp
<1>4. StatusesOf(page) = IF named = {} THEN {"kept"} ELSE named
  BY DEF StatusesOf
<1>5. named \cap Gone = {}
  <2>1. ASSUME NEW s \in named PROVE s # "absent"
    <3>1. CASE \E op \in page.ops : s \in op.from
      BY <1>3, <3>1 DEF Gone
    <3>2. CASE \E c \in calls : s \in said(c)
      BY <1>2, <3>2 DEF IsHandler, Gone
    <3> QED
      BY <2>1, <3>1, <3>2
  <2> QED
    BY <2>1 DEF Gone
<1>6. StatusesOf(page) \cap Gone = {} /\ StatusesOf(page) # {}
  <2> HIDE DEF named
  <2> QED
    BY <1>4, <1>5 DEF Gone
<1>7. ASSUME NEW op \in page.ops, NEW n \in DOMAIN op.calls
      PROVE  /\ op.calls[n] \in ToSet(op.calls) /\ op.calls[n] \in calls
             /\ op.calls[n].does.to \cup op.calls[n].does.others
                  \subseteq StatusesOf(page) \cup {"deleted"}
  <2>1. op.calls[n] \in ToSet(op.calls) /\ op.calls[n] \in calls
    BY DEF ToSet
  <2>2. said(op.calls[n]) \subseteq UNION {said(c) : c \in calls}
    BY <2>1
  <2>3. op.calls[n].does.to \cup op.calls[n].does.others \subseteq named \cup {"deleted"}
    BY <2>2
  <2>4. named \subseteq StatusesOf(page)
    BY <1>4
  <2> QED
    BY <2>1, <2>3, <2>4
<1>8. ASSUME NEW op \in page.ops, NEW n \in DOMAIN op.calls
      PROVE  op.calls[n].show \in ShownBy(page)
  BY <1>7, <1>8 DEF ShownBy
<1> QED
  BY <1>1, <1>2, <1>6, <1>7, <1>8 DEF IsOp

LEMMA ScreenSteps ==
  ASSUME Inv, [Next]_vars
  PROVE  \/ \E i \in Presses, op \in page.ops, r \in Rows \cup {0} : Pressed(i, op, r)
         \/ \E i \in Presses, r \in Rows : \E to, rev : Wrote(i, r, to, rev)
         \/ \E i \in Presses, phase \in {"cleared", "checked", "failed"} : Moved(i, phase)
         \/ \E i \in Presses : Came(i) \/ Failing(i)
         \/ \E k \in Loads : Brought(k) \/ Closed(k)
         \/ Again
         \/ Elsewhere
<1>1. ASSUME NEW i \in Presses, NEW op \in page.ops, NEW r \in Rows \cup {0}, Press(i, op, r)
      PROVE  Pressed(i, op, r)
  <2> DEFINE q == [Unused EXCEPT !.phase = "asked", !.op = op, !.row = r,
                      !.seen = IF r = 0 THEN @ ELSE view[r].status,
                      !.rev = IF r = 0 THEN @ ELSE view[r].rev]
  <2>1. press' = [press EXCEPT ![i] = q]
    BY <1>1 DEF Press, Start
  <2>2. /\ q.phase = "asked" /\ q.op = op /\ q.call = 1 /\ q.row = r
        /\ r \in Rows => q.seen = view[r].status /\ q.rev = view[r].rev
    BY TypedParts DEF Unused
  <2> HIDE DEF q
  <2>3. press'[i] = q /\ Others(i)
    BY <2>1, TypedParts DEF Others
  <2> QED
    BY <1>1, <2>2, <2>3 DEF Press, Start, Pressed
<1>2. ASSUME NEW i \in Presses, Handle(i) \/ Lose(i)
      PROVE  \/ \E r \in Rows : \E to, rev : Wrote(i, r, to, rev)
             \/ \E phase \in {"cleared", "checked", "failed"} : Moved(i, phase)
  <2>1. Pending(i) /\ press[i].phase \in {"asked", "cleared", "checked", "done"} /\ UNCHANGED Looks
    BY <1>2 DEF Handle, Lose, ClearOthers, Serve, Check, ServeChecked, Refuse, Pending, ServerOnly,
       Looks, history
  <2>2. Does(i).test # "insert" => press[i].row \in Rows
    BY <2>1, TypedParts DEF Inv, Working, Sound, Pending, Does, This, PressType
  <2>6. UNCHANGED server => RowsChange
    BY DEF RowsChange
  <2>7. CASE ClearOthers(i)
    <3>1. Does(i).others \subseteq StatusesOf(page) \cup {"deleted"}
      <4>1. press[i].op \in page.ops /\ press[i].call \in DOMAIN press[i].op.calls
        BY <2>1, WorkFacts DEF Pending
      <4> QED
        BY <4>1, PageSpeaks DEF Does, This
    <3>2. RowsChange
      BY <2>7, <3>1 DEF ClearOthers, RowsChange
    <3> QED
      BY <2>1, <2>7, <3>2, MoveSteps DEF ClearOthers
  <2>3. CASE Serve(i)
    BY <2>1, <2>2, <2>3, WriteSteps DEF Serve, Passes
  <2>4. CASE ServeChecked(i)
    <3>1. press[i].row \in Rows
      BY <2>1, <2>4, TypedParts DEF ServeChecked, Inv, Working, Sound, Pending, PressType
    <3>2. CASE Exists(press[i].row)
      BY <2>1, <2>4, <3>1, <3>2, WriteSteps DEF ServeChecked
    <3> QED
      BY <2>1, <2>4, <2>6, <3>2, MoveSteps DEF ServeChecked
  <2>5. CASE Check(i) \/ Refuse(i) \/ Lose(i)
    <3>1. UNCHANGED server
      BY <2>5 DEF Check, Refuse, Lose
    <3> QED
      BY <2>1, <2>5, <2>6, <3>1, MoveSteps DEF Check, Refuse, Lose
  <2> QED
    BY <1>2, <2>3, <2>4, <2>5, <2>7 DEF Handle
<1>3. ChangeParam \/ Expand => Again
  BY TypedParts DEF ChangeParam, Expand, LoadAgain, LoadFor, Again, OtherLoads
<1> QED
  BY <1>1, <1>2, <1>3, ReturnSteps, LoadSteps, OtherSteps DEF Next

-----------------------------------------------------------------------------
(* What is known of a row.  Changes of a row are counted, so that what was  *)
(* once read of it is either the truth or out of date.                      *)
Follows(s, t) ==
  /\ t.rev >= s.rev
  /\ t.rev = s.rev => t.status = s.status
  /\ s.status = "deleted" => t.status = "deleted"

Met(s, e) == e.rev \in 1 .. s.rev /\ (e.rev = s.rev => e.status = s.status)

RowsCounted ==
  \A r \in Rows : /\ server[r].status \in StatusesOf(page) \cup Gone
                  /\ server[r].status = "absent" <=> server[r].rev = 0

\* An entry of a list that speaks of these statuses.
TrueOf(statuses, s, e) == IF e.n > 0 THEN Met(s, e) /\ e.status \in statuses ELSE e.rev = 0

ListsTrue ==
  \A r \in Rows :
    /\ TrueOf(StatusesOf(page), server[r], view[r])
    /\ acked[r] <= server[r].rev
    /\ \A k \in Loads : /\ TrueOf(StatusesOf(page), server[r], load[k].rows[r])
                        /\ load[k].rows[r].n <= 1

\* What a handler has been told of its row, by the page and by the answer.
Informed(i) ==
  LET q == press[i] a == q.answer IN
  /\ Pending(i) /\ q.row # 0 => q.rev \in 1 .. server[q.row].rev
  /\ q.phase \in {"done", "reloading"} =>
       /\ a.row \in Rows /\ Met(server[a.row], a)
       /\ a.status = "deleted" => server[a.row].status = "deleted"
  /\ q.phase = "done" =>
       /\ IF Does(i).to = Same THEN a.status \in StatusesOf(page) ELSE a.status \in Does(i).to
       /\ Does(i).test # "insert" => a.row = q.row /\ q.rev <= a.rev

Known == RowsCounted /\ ListsTrue /\ \A i \in Presses : Informed(i)

\* What a handler is at.
LEMMA AtWork ==
  ASSUME Inv, NEW i \in Presses, Pending(i)
  PROVE  /\ press[i] \in PressType /\ press[i].op \in page.ops /\ IsOp(press[i].op)
         /\ press[i].call \in DOMAIN press[i].op.calls
         /\ IsHandler(Does(i)) /\ Does(i).to \subseteq StatusesOf(page) \cup {"deleted"}
         /\ This(i).show \in ShownBy(page)
         /\ This(i).show \in {"add", "put", "upsert", "oust", "mark"} => "deleted" \notin Does(i).to
         /\ This(i).show = "mark" => Does(i).test # "insert"
BY WorkFacts, PageFacts, PageSpeaks DEF Inv, Working, Sound, Pending, Does, This

LEMMA PageStays == ASSUME Inv, [Next]_vars PROVE page' = page
<1>1. ASSUME NEW i \in Presses, Handle(i) \/ Lose(i) \/ Return(i) PROVE page' = page
  BY <1>1 DEF Handle, Return, ClearOthers, Serve, Check, ServeChecked, Refuse, Lose, ServerOnly,
     GoOn, Reload, Refetch, LeavePage, Finish, Fail, Returned
<1>2. ASSUME NEW k \in Loads, ServeLoad(k) \/ ApplyLoad(k) \/ FailLoad(k) PROVE page' = page
  BY <1>2 DEF ServeLoad, ApplyLoad, FailLoad, EndLoad
<1>3. CASE \E i \in Presses, op \in page.ops, r \in Rows \cup {0} : Press(i, op, r)
  BY <1>3 DEF Press, Start
<1>4. CASE ChangeParam \/ Expand \/ OtherUser \/ UNCHANGED vars
  BY <1>4 DEF ChangeParam, Expand, LoadAgain, OtherUser, vars
<1> QED
  BY <1>1, <1>2, <1>3, <1>4 DEF Next

\* A row is counted up when it changes, and one that is deleted stays so.
LEMMA RowsFollow ==
  ASSUME Inv, RowsCounted, [Next]_vars
  PROVE  RowsCounted' /\ page' = page /\ \A r \in Rows : Follows(server[r], server'[r])
<1>0. server \in [Rows -> [status : Statuses, rev : Nat]]
  BY TypedParts
<1>1. page' = page
  BY PageStays
<1>2. ASSUME NEW i \in Presses, NEW r \in Rows, NEW to, NEW rev, Wrote(i, r, to, rev)
      PROVE  RowsCounted' /\ \A s \in Rows : Follows(server[s], server'[s])
  <2>1. Pending(i)
    BY <1>2 DEF Wrote, Pending
  <2>2. IsHandler(Does(i)) /\ Does(i).to \subseteq StatusesOf(page) \cup {"deleted"}
    BY <2>1, AtWork
  <2>3. to # "absent" /\ to \in StatusesOf(page) \cup {"deleted"}
    BY <1>2, <2>2, PageSpeaks DEF Wrote, IsHandler, Exists, RowsCounted, Gone
  <2>4. server'[r] = Stored(to, rev) /\ rev \in Nat /\ rev > 0
    BY <1>0, <1>2 DEF Wrote, RowsCounted, Exists
  <2>5. Follows(server[r], server'[r])
    BY <1>0, <1>2, <2>2, <2>4 DEF Wrote, Follows, Stored, IsHandler, Exists
  <2>6. \A s \in Rows : s # r => server'[s] = server[s]
    BY <1>2 DEF Wrote
  <2> QED
    BY <1>0, <1>1, <2>3, <2>4, <2>5, <2>6 DEF RowsCounted, Stored, Gone, Follows
<1>3. ASSUME RowsChange PROVE RowsCounted' /\ \A s \in Rows : Follows(server[s], server'[s])
  <2> SUFFICES ASSUME NEW r \in Rows
               PROVE  /\ server'[r].status \in StatusesOf(page) \cup Gone
                      /\ server'[r].status = "absent" <=> server'[r].rev = 0
                      /\ Follows(server[r], server'[r])
    BY <1>1 DEF RowsCounted
  <2>1. CASE server'[r] = server[r]
    BY <1>0, <2>1 DEF RowsCounted, Follows
  <2>2. ASSUME Exists(r), NEW s \in StatusesOf(page) \cup {"deleted"},
               server'[r] = Stored(s, server[r].rev + 1)
        PROVE  /\ server'[r].status \in StatusesOf(page) \cup Gone
               /\ server'[r].status = "absent" <=> server'[r].rev = 0
               /\ Follows(server[r], server'[r])
    BY <1>0, <2>2, PageSpeaks DEF Stored, Exists, Gone, Follows
  <2>3. ASSUME server[r].status = "absent", NEW s \in StatusesOf(page), server'[r] = Stored(s, 1)
        PROVE  /\ server'[r].status \in StatusesOf(page) \cup Gone
               /\ server'[r].status = "absent" <=> server'[r].rev = 0
               /\ Follows(server[r], server'[r])
    BY <1>0, <2>3, PageSpeaks DEF Stored, RowsCounted, Gone, Follows
  <2> QED
    BY <1>3, <2>1, <2>2, <2>3 DEF RowsChange
<1>4. CASE server' = server
  BY <1>0, <1>1, <1>4 DEF RowsCounted, Follows
<1> QED
  BY <1>1, <1>2, <1>3, <1>4, ScreenSteps
  DEF Pressed, Moved, Came, Failing, Brought, Closed, Again, Elsewhere

\* What was met stays met.
LEMMA MetStays ==
  ASSUME NEW s \in [status : Statuses, rev : Nat], NEW t \in [status : Statuses, rev : Nat],
         Follows(s, t), NEW e, Met(s, e)
  PROVE  Met(t, e)
BY DEF Met, Follows

\* What a list said truly of a row is still true of it.
LEMMA TrueStays ==
  ASSUME NEW s \in [status : Statuses, rev : Nat], NEW t \in [status : Statuses, rev : Nat],
         Follows(s, t), NEW statuses, NEW e, TrueOf(statuses, s, e)
  PROVE  TrueOf(statuses, t, e)
BY MetStays DEF TrueOf

\* A handler that is told nothing new.
LEMMA InformedStays ==
  ASSUME Inv, Inv', page' = page, \A r \in Rows : Follows(server[r], server'[r]),
         NEW j \in Presses, Informed(j),
         Pending(j)' => Pending(j) /\ press'[j].row = press[j].row /\ press'[j].rev = press[j].rev,
         press'[j].phase \in {"done", "reloading"} =>
           press[j].phase \in {"done", "reloading"} /\ press'[j].answer = press[j].answer,
         press'[j].phase = "done" => press'[j] = press[j]
  PROVE  Informed(j)'
<1>0. /\ server \in [Rows -> [status : Statuses, rev : Nat]]
      /\ server' \in [Rows -> [status : Statuses, rev : Nat]]
      /\ press \in [Presses -> PressType]
  BY TypedParts DEF Inv, TypeOK
<1>1. Pending(j)' /\ press'[j].row # 0 => press'[j].rev \in 1 .. server'[press'[j].row].rev
  <2> SUFFICES ASSUME Pending(j)', press'[j].row # 0
               PROVE  press'[j].rev \in 1 .. server'[press'[j].row].rev
    OBVIOUS
  <2> DEFINE r == press[j].row
  <2>1. r \in Rows /\ press[j].rev \in 1 .. server[r].rev /\ press'[j].row = r /\ press'[j].rev = press[j].rev
    BY <1>0 DEF PressType, Informed
  <2> QED
    BY <1>0, <2>1 DEF Follows
<1>2. press'[j].phase \in {"done", "reloading"} =>
        LET a == press'[j].answer IN
        /\ a.row \in Rows /\ Met(server'[a.row], a)
        /\ a.status = "deleted" => server'[a.row].status = "deleted"
  <2> SUFFICES ASSUME press'[j].phase \in {"done", "reloading"}
               PROVE  LET a == press[j].answer IN
                      /\ a.row \in Rows /\ Met(server'[a.row], a)
                      /\ a.status = "deleted" => server'[a.row].status = "deleted"
    OBVIOUS
  <2> DEFINE a == press[j].answer
  <2>1. a.row \in Rows /\ Met(server[a.row], a) /\ (a.status = "deleted" => server[a.row].status = "deleted")
    BY DEF Informed
  <2>2. Met(server'[a.row], a)
    BY <1>0, <2>1, MetStays
  <2> QED
    BY <2>1, <2>2 DEF Follows
<1>3. press'[j].phase = "done" =>
        /\ IF Does(j)' .to = Same THEN press'[j].answer.status \in StatusesOf(page)'
           ELSE press'[j].answer.status \in Does(j)'.to
        /\ Does(j)'.test # "insert" =>
             press'[j].answer.row = press'[j].row /\ press'[j].rev <= press'[j].answer.rev
  BY DEF Informed, Does, This
<1> QED
  BY <1>1, <1>2, <1>3 DEF Informed

LEMMA InformedPressed ==
  ASSUME Inv, Known, NEW i \in Presses, NEW op \in page.ops, NEW r \in Rows \cup {0}, Pressed(i, op, r)
  PROVE  Informed(i)'
<1>1. press'[i].phase = "asked" /\ press'[i].row = r /\ server' = server
  BY DEF Pressed
<1>2. ASSUME r # 0 PROVE press'[i].rev \in 1 .. server[r].rev
  BY <1>2, TypedParts DEF Pressed, Offered, Known, ListsTrue, TrueOf, Met
<1> QED
  BY <1>1, <1>2 DEF Informed

LEMMA InformedWrote ==
  ASSUME Inv, Inv', Known, RowsCounted', page' = page, \A s \in Rows : Follows(server[s], server'[s]),
         NEW i \in Presses, NEW r \in Rows, NEW to, NEW rev, Wrote(i, r, to, rev)
  PROVE  Informed(i)'
<1>0. /\ server \in [Rows -> [status : Statuses, rev : Nat]]
      /\ server' \in [Rows -> [status : Statuses, rev : Nat]]
      /\ press \in [Presses -> PressType]
  BY TypedParts DEF Inv, TypeOK
<1>1. Pending(i) /\ IsHandler(Does(i)) /\ Informed(i)
  <2>1. Pending(i)
    BY DEF Wrote, Pending
  <2> QED
    BY <2>1, AtWork DEF Known
<1>2. /\ press'[i].answer = [row |-> r, status |-> to, rev |-> rev]
      /\ server'[r] = Stored(to, rev) /\ press'[i].phase = "done" /\ Does(i)' = Does(i)
  BY DEF Wrote, Does, This
<1>3. rev \in Nat /\ rev > 0
  BY <1>0 DEF Wrote, Known, RowsCounted, Exists
<1>4. ASSUME press'[i].row # 0 PROVE press'[i].rev \in 1 .. server'[press'[i].row].rev
  <2>1. CASE Does(i).test # "insert"
    <3>1. r = press[i].row /\ press'[i].row = r /\ press'[i].rev = press[i].rev + (rev - server[r].rev)
      BY <2>1 DEF Wrote
    <3>2. press[i].rev \in 1 .. server[r].rev
      BY <1>1, <3>1, TypedParts DEF Informed
    <3> QED
      BY <1>0, <1>2, <1>3, <3>1, <3>2 DEF Stored, Wrote
  <2>2. CASE Does(i).test = "insert" /\ press[i].op.kind = "create"
    BY <1>2, <1>3, <2>2 DEF Wrote, Stored
  <2>3. CASE Does(i).test = "insert" /\ press[i].op.kind # "create"
    <3>1. press'[i].row = press[i].row /\ press'[i].rev = press[i].rev
      BY <2>3 DEF Wrote
    <3>2. press[i].row \in Rows /\ press[i].rev \in 1 .. server[press[i].row].rev
      BY <1>0, <1>1, <1>4, <3>1 DEF Informed, PressType
    <3> QED
      BY <1>0, <3>1, <3>2 DEF Follows
  <2> QED
    BY <2>1, <2>2, <2>3
<1>5. Met(server'[r], [row |-> r, status |-> to, rev |-> rev])
  BY <1>2, <1>3 DEF Met, Stored
<1>6. IF Does(i).to = Same THEN to \in StatusesOf(page) ELSE to \in Does(i).to
  BY <1>1 DEF Wrote, IsHandler, Exists, Known, RowsCounted, Gone
<1>7. Does(i).test # "insert" => r = press'[i].row /\ press'[i].rev <= rev
  <2> SUFFICES ASSUME Does(i).test # "insert" PROVE r = press'[i].row /\ press'[i].rev <= rev
    OBVIOUS
  <2>1. r = press[i].row /\ press'[i].row = r /\ press'[i].rev = press[i].rev + (rev - server[r].rev)
    BY DEF Wrote
  <2>2. press[i].rev \in 1 .. server[r].rev
    BY <1>1, <2>1, TypedParts DEF Informed
  <2> QED
    BY <1>0, <1>3, <2>1, <2>2
<1> QED
  BY <1>2, <1>4, <1>5, <1>6, <1>7 DEF Informed, Stored

LEMMA InformedStep ==
  ASSUME Inv, Inv', Known, RowsCounted', [Next]_vars, page' = page,
         \A s \in Rows : Follows(server[s], server'[s]), NEW j \in Presses
  PROVE  Informed(j)'
<1>0. press \in [Presses -> PressType] /\ Informed(j)
  BY TypedParts DEF Known
<1>1. CASE press'[j] = press[j]
  BY <1>0, <1>1, InformedStays DEF Pending
<1>2. ASSUME NEW op \in page.ops, NEW r \in Rows \cup {0}, Pressed(j, op, r) PROVE Informed(j)'
  BY <1>2, InformedPressed
<1>3. ASSUME NEW r \in Rows, NEW to, NEW rev, Wrote(j, r, to, rev) PROVE Informed(j)'
  BY <1>3, InformedWrote
<1>4. ASSUME NEW phase \in {"cleared", "checked", "failed"}, Moved(j, phase) PROVE Informed(j)'
  <2>1. Pending(j) /\ press'[j] = [press[j] EXCEPT !.phase = phase]
    BY <1>4 DEF Moved, Pending
  <2>2. press'[j].phase = phase /\ press'[j].row = press[j].row /\ press'[j].rev = press[j].rev
    BY <1>0, <2>1 DEF PressType
  <2> QED
    BY <1>0, <2>1, <2>2, InformedStays
<1>5. CASE press'[j] = Over
  BY <1>5 DEF Informed, Over, Unused, Pending
<1>6. ASSUME press[j].phase = "done", Went(j) \/ Asks(j) PROVE Informed(j)'
  <2>1. \/ press'[j] = [press[j] EXCEPT !.phase = "asked", !.call = @ + 1]
        \/ press'[j] = [press[j] EXCEPT !.phase = "reloading"]
        \/ press'[j] = Over
    BY <1>6 DEF Went, Asks
  <2>2. CASE press'[j] # Over
    <3>1. /\ press'[j].phase \in {"asked", "reloading"} /\ press'[j].row = press[j].row
          /\ press'[j].rev = press[j].rev /\ press'[j].answer = press[j].answer
      BY <1>0, <2>1, <2>2 DEF PressType
    <3>2. Pending(j)
      BY <1>6 DEF Pending
    <3> QED
      BY <1>0, <1>6, <3>1, <3>2, InformedStays
  <2> QED
    BY <1>5, <2>2
<1>7. ASSUME NEW i \in Presses, i # j, Others(i) PROVE Informed(j)'
  BY <1>1, <1>7 DEF Others
<1>8. ASSUME NEW i \in Presses, Came(i) \/ Failing(i) PROVE Informed(j)'
  <2>1. CASE i = j
    BY <1>5, <1>6, <1>8, <2>1 DEF Came, Failing, Ends
  <2> QED
    BY <1>7, <1>8, <2>1 DEF Came, Failing
<1>9. ASSUME NEW k \in Loads, Brought(k) \/ Closed(k) PROVE Informed(j)'
  BY <1>1, <1>5, <1>9 DEF Brought, Closed, Others
<1>10. CASE Again \/ Elsewhere
  BY <1>1, <1>10 DEF Again, Elsewhere
<1>11. ASSUME NEW i \in Presses, NEW op \in page.ops, NEW r \in Rows \cup {0}, Pressed(i, op, r)
       PROVE  Informed(j)'
  BY <1>2, <1>7, <1>11 DEF Pressed
<1>12. ASSUME NEW i \in Presses, NEW r \in Rows, NEW to, NEW rev, Wrote(i, r, to, rev)
       PROVE  Informed(j)'
  BY <1>3, <1>7, <1>12 DEF Wrote
<1>13. ASSUME NEW i \in Presses, NEW phase \in {"cleared", "checked", "failed"}, Moved(i, phase)
       PROVE  Informed(j)'
  BY <1>4, <1>7, <1>13 DEF Moved
<1> QED
  BY <1>8, <1>9, <1>10, <1>11, <1>12, <1>13, ScreenSteps

\* A list stays true when the answer of a call is put into it.
LEMMA RenderTrue ==
  ASSUME NEW v \in ViewType, NEW a, a.row \in Rows, NEW show, NEW statuses,
         NEW rows \in [Rows -> [status : Statuses, rev : Nat]],
         \A r \in Rows : TrueOf(statuses, rows[r], v[r]),
         Met(rows[a.row], a),
         show \in {"add", "put", "upsert", "oust", "mark"} => a.status \in statuses
  PROVE  \A r \in Rows : TrueOf(statuses, rows[r], Render(v, a, show)[r])
<1> DEFINE shown(n) == [v EXCEPT ![a.row] = Showing(n, a.status, a.rev)]
<1>0. TrueOf(statuses, rows[a.row], Hidden) /\ \A r \in Rows : TrueOf(statuses, rows[r], Hidden)
  BY DEF TrueOf, Hidden, Showing
<1>1. ASSUME NEW n, a.status \in statuses
      PROVE  TrueOf(statuses, rows[a.row], Showing(n, a.status, a.rev)) \/ ~(n > 0)
  BY <1>1 DEF TrueOf, Showing, Met
<1>2. ASSUME NEW n, n > 0, a.status \in statuses
      PROVE  \A r \in Rows : TrueOf(statuses, rows[r], shown(n)[r])
  BY <1>1, <1>2 DEF ViewType
<1>3. v[a.row].n \in Nat
  BY DEF ViewType
<1>4. CASE show = "add" \/ (show = "put" /\ v[a.row].n > 0) \/ show \in {"upsert", "mark"}
  <2>1. \/ Render(v, a, show) = shown(v[a.row].n + 1)
        \/ v[a.row].n > 0 /\ Render(v, a, show) = shown(v[a.row].n)
        \/ Render(v, a, show) = shown(1)
    BY <1>4 DEF Render
  <2> HIDE DEF shown
  <2> QED
    BY <1>2, <1>3, <1>4, <2>1
<1>5. CASE show = "drop"
  BY <1>0, <1>5 DEF Render, ViewType
<1>6. CASE show = "oust"
  <2>1. Render(v, a, show) = [r \in Rows |->
            IF r = a.row THEN Showing(1, a.status, a.rev)
            ELSE IF v[r].status = "primary" THEN Hidden ELSE v[r]]
    BY <1>6 DEF Render
  <2>2. TrueOf(statuses, rows[a.row], Showing(1, a.status, a.rev))
    BY <1>1, <1>6
  <2> QED
    BY <1>0, <2>1, <2>2
<1>7. CASE show \notin {"add", "upsert", "mark", "drop", "oust"} /\ ~(show = "put" /\ v[a.row].n > 0)
  BY <1>7 DEF Render
<1> QED
  BY <1>4, <1>5, <1>6, <1>7

\* What a page makes of an answer is true of the row, a copy it has kept included.
LEMMA ShownFacts ==
  ASSUME Inv, Known, NEW i \in Presses, press[i].phase = "done"
  PROVE  /\ Pending(i) /\ press[i].answer.row \in Rows /\ press[i].answer \in AnswerType
         /\ Shown(i).row = press[i].answer.row /\ Shown(i).status = press[i].answer.status
         /\ Met(server[press[i].answer.row], Shown(i))
         /\ Calm /\ OneAtATime => Shown(i) = press[i].answer
<1> DEFINE q == press[i]
           a == q.answer
           c == This(i)
<1>1. /\ Pending(i) /\ a \in AnswerType /\ q \in PressType /\ a.row \in Rows
      /\ server \in [Rows -> [status : Statuses, rev : Nat]] /\ 0 \notin Rows
  BY TypedParts DEF Pending, PressType, Known, Informed
<1>2. Shown(i) = [a EXCEPT !.rev = IF c.show = "mark" THEN q.rev ELSE a.rev]
  BY DEF Shown
<1>3. Shown(i).row = a.row /\ Shown(i).status = a.status
      /\ Shown(i).rev = IF c.show = "mark" THEN q.rev ELSE a.rev
  BY <1>1, <1>2 DEF AnswerType
<1>4. Met(server[a.row], a)
  BY DEF Known, Informed
<1>5. ASSUME c.show = "mark" PROVE Met(server[a.row], Shown(i))
  <2>1. a.row = q.row /\ q.rev <= a.rev
    BY <1>1, <1>5, AtWork DEF Known, Informed
  <2>2. q.rev \in 1 .. server[a.row].rev
    BY <1>1, <2>1 DEF Known, Informed
  <2> QED
    BY <1>1, <1>3, <1>4, <1>5, <2>1, <2>2 DEF Met, PressType, AnswerType
<1>6. ASSUME c.show # "mark" PROVE Shown(i) = a
  BY <1>1, <1>2, <1>6 DEF AnswerType
<1>7. ASSUME Calm, OneAtATime PROVE c.show # "mark"
  <2>1. KeepsUp(page)
    BY HabitsAssumption DEF Inv, TypeOK
  <2> QED
    BY <1>1, <1>7, <2>1, AtWork DEF KeepsUp, Calm, OneAtATime
<1> QED
  BY <1>1, <1>3, <1>4, <1>5, <1>6, <1>7

LEMMA CameTrue ==
  ASSUME Inv, Known, NEW i \in Presses, Came(i)
  PROVE  /\ \A r \in Rows : TrueOf(StatusesOf(page), server[r], view'[r])
         /\ \A r \in Rows : acked'[r] <= server[r].rev
<1> DEFINE a == press[i].answer
<1>0. /\ a.row \in Rows /\ Met(server[a.row], a) /\ Pending(i)
      /\ IF Does(i).to = Same THEN a.status \in StatusesOf(page) ELSE a.status \in Does(i).to
  BY DEF Came, Known, Informed, Pending
<1>1. /\ Does(i).to \subseteq StatusesOf(page) \cup {"deleted"}
      /\ This(i).show \in {"add", "put", "upsert", "oust", "mark"} => "deleted" \notin Does(i).to
  BY <1>0, AtWork
<1>2. This(i).show \in {"add", "put", "upsert", "oust", "mark"} => a.status \in StatusesOf(page)
  BY <1>0, <1>1
<1>3. view' = Render(view, Shown(i), This(i).show) /\ server \in [Rows -> [status : Statuses, rev : Nat]]
      /\ view \in ViewType /\ acked \in [Rows -> Nat]
  BY TypedParts DEF Came
<1>4. \A r \in Rows : TrueOf(StatusesOf(page), server[r], view[r]) /\ acked[r] <= server[r].rev
  BY DEF Known, ListsTrue
<1>5. \A r \in Rows : TrueOf(StatusesOf(page), server[r], view'[r])
  <2>1. Shown(i).row = a.row /\ Shown(i).status = a.status /\ Met(server[a.row], Shown(i))
    BY ShownFacts DEF Came
  <2> HIDE DEF a
  <2> QED
    BY <1>0, <1>2, <1>3, <1>4, <2>1, RenderTrue
<1>6. acked' = acked \/ acked' = [acked EXCEPT ![a.row] = a.rev]
  BY DEF Came, Went, Asks, Ends, Told
<1>7. \A r \in Rows : acked'[r] <= server[r].rev
  BY <1>0, <1>3, <1>4, <1>6 DEF Met
<1> QED
  BY <1>5, <1>7

LEMMA LoadTrue ==
  ASSUME Inv, Known, NEW k \in Loads, Brought(k) \/ Closed(k)
  PROVE  ListsTrue'
<1>0. /\ server \in [Rows -> [status : Statuses, rev : Nat]]
      /\ press \in [Presses -> PressType] /\ acked \in [Rows -> Nat]
  BY TypedParts
<1>1. \A r \in Rows : /\ TrueOf(StatusesOf(page), server[r], view[r]) /\ acked[r] <= server[r].rev
                      /\ \A l \in Loads : /\ TrueOf(StatusesOf(page), server[r], load[l].rows[r])
                                          /\ load[l].rows[r].n <= 1
  BY DEF Known, ListsTrue
<1>2. page' = page /\ server' = server /\ OtherLoads(k)
  BY DEF Brought, Closed
<1>3. CASE Brought(k)
  <2>1. view' = view /\ acked' = acked /\ load'[k].rows = Snapshot
    BY <1>3 DEF Brought, Loaded
  <2>2. \A r \in Rows : TrueOf(StatusesOf(page), server[r], Snapshot[r]) /\ Snapshot[r].n <= 1
    BY <1>0 DEF Snapshot, TrueOf, Met, Showing, Hidden, Exists, Known, RowsCounted, Gone
  <2> QED
    BY <1>1, <1>2, <2>1, <2>2 DEF ListsTrue, OtherLoads
<1>4. CASE Closed(k)
  <2>1. load'[k] = Empty("ended")
    BY <1>4 DEF Closed
  <2>2. \A r \in Rows : /\ TrueOf(StatusesOf(page), server[r], load'[k].rows[r])
                        /\ load'[k].rows[r].n <= 1
    BY <2>1 DEF Empty, Loaded, Hidden, Showing, TrueOf
  <2>3. view' = view \/ view' = load[k].rows \/ view' = [r \in Rows |-> Hidden]
    BY <1>4 DEF Closed
  <2>4. acked' = acked \/ (Awaited(k) /\ acked' = Told(k))
    BY <1>4 DEF Closed
  <2>5. ASSUME NEW r \in Rows PROVE acked'[r] <= server[r].rev
    <3>1. CASE Awaited(k) /\ acked' = Told(k)
      <4>1. press[k].answer.row \in Rows /\ Met(server[press[k].answer.row], press[k].answer)
        BY <3>1 DEF Awaited, Known, Informed
      <4> QED
        BY <1>0, <1>1, <3>1, <4>1 DEF Told, Met
    <3> QED
      BY <1>1, <2>4, <3>1
  <2>6. ASSUME NEW r \in Rows PROVE TrueOf(StatusesOf(page), server[r], view'[r])
    BY <1>1, <2>3 DEF Hidden, Showing, TrueOf
  <2> QED
    BY <1>1, <1>2, <2>2, <2>5, <2>6 DEF ListsTrue, OtherLoads
<1> QED
  BY <1>3, <1>4

LEMMA ListsTrueStep ==
  ASSUME Inv, Inv', Known, [Next]_vars, page' = page,
         \A s \in Rows : Follows(server[s], server'[s])
  PROVE  ListsTrue'
<1>0. /\ server \in [Rows -> [status : Statuses, rev : Nat]]
      /\ server' \in [Rows -> [status : Statuses, rev : Nat]]
      /\ acked \in [Rows -> Nat]
  BY TypedParts DEF Inv, TypeOK
<1>1. \A r \in Rows : /\ TrueOf(StatusesOf(page), server[r], view[r]) /\ acked[r] <= server[r].rev
                      /\ \A l \in Loads : /\ TrueOf(StatusesOf(page), server[r], load[l].rows[r])
                                          /\ load[l].rows[r].n <= 1
  BY DEF Known, ListsTrue
<1>2. \A r \in Rows : \A e : TrueOf(StatusesOf(page), server[r], e) => TrueOf(StatusesOf(page), server'[r], e)
  BY <1>0, TrueStays
<1>3. \A r \in Rows : acked[r] <= server'[r].rev
  BY <1>0, <1>1 DEF Follows
<1>4. CASE UNCHANGED <<view, load, acked>>
  BY <1>1, <1>2, <1>3, <1>4 DEF ListsTrue
<1>5. ASSUME NEW i \in Presses, Came(i) PROVE ListsTrue'
  <2>1. server' = server
    BY <1>5 DEF Came
  <2>2. \A r \in Rows : TrueOf(StatusesOf(page), server[r], view'[r]) /\ acked'[r] <= server[r].rev
    BY <1>5, CameTrue
  <2>3. i \in Loads /\ (load' = load \/ (load'[i] = Empty("asked") /\ OtherLoads(i)))
    BY <1>5, TypedParts DEF Came, Went, Asks, Ends
  <2>4. \A r \in Rows : TrueOf(StatusesOf(page), server[r], Empty("asked").rows[r]) /\ Empty("asked").rows[r].n <= 1
    BY DEF Empty, Loaded, Hidden, Showing, TrueOf
  <2> QED
    BY <1>1, <2>1, <2>2, <2>3, <2>4 DEF ListsTrue, OtherLoads
<1>6. CASE Again
  <2>1. \A r \in Rows : TrueOf(StatusesOf(page), server[r], Empty("asked").rows[r]) /\ Empty("asked").rows[r].n <= 1
    BY DEF Empty, Loaded, Hidden, Showing, TrueOf
  <2> QED
    BY <1>1, <1>6, <2>1 DEF Again, ListsTrue, OtherLoads
<1>7. ASSUME NEW i \in Presses, NEW op \in page.ops, NEW r \in Rows \cup {0}, Pressed(i, op, r)
      PROVE  ListsTrue'
  BY <1>4, <1>7 DEF Pressed
<1>8. ASSUME NEW i \in Presses, NEW r \in Rows, NEW to, NEW rev, Wrote(i, r, to, rev)
      PROVE  ListsTrue'
  BY <1>4, <1>8 DEF Wrote, Looks
<1>9. ASSUME NEW i \in Presses, NEW phase \in {"cleared", "checked", "failed"}, Moved(i, phase) \/ Failing(i)
      PROVE  ListsTrue'
  BY <1>4, <1>9 DEF Moved, Failing, Looks
<1>10. CASE Elsewhere
  BY <1>4, <1>10 DEF Elsewhere, Looks
<1> QED
  BY <1>5, <1>6, <1>7, <1>8, <1>9, <1>10, LoadTrue, ScreenSteps

LEMMA KnownStep == Inv /\ Known /\ [Next]_vars => Known'
<1> SUFFICES ASSUME Inv, Known, [Next]_vars PROVE Known'
  OBVIOUS
<1>1. Inv'
  BY InvStep
<1>2. RowsCounted' /\ page' = page /\ \A r \in Rows : Follows(server[r], server'[r])
  BY RowsFollow DEF Known
<1>3. ListsTrue'
  BY <1>1, <1>2, ListsTrueStep
<1>4. \A j \in Presses : Informed(j)'
  BY <1>1, <1>2, InformedStep
<1> QED
  BY <1>2, <1>3, <1>4 DEF Known

\* A row that a page shows, or that a handler has answered with, is at the server
\* as it is shown, or has been changed since: no page invents a state, and a row
\* a handler found deleted stays so.
THEOREM KnownHolds == Spec => []Known
<1>1. Init => Known
  <2> SUFFICES ASSUME Init PROVE Known
    OBVIOUS
  <2>1. Inv
    BY InitInv
  <2>2. RowsCounted
    BY <2>1, PageSpeaks DEF Init, RowsCounted, Stored, Gone
  <2>3. ListsTrue
    BY <2>1, TypedParts DEF Init, ListsTrue, Empty, Loaded, Hidden, Showing, TrueOf
  <2>4. \A i \in Presses : Informed(i)
    BY DEF Init, Informed, Unused, Pending
  <2> QED
    BY <2>2, <2>3, <2>4 DEF Known
<1> QED
  BY <1>1, KnownStep, Typed, PTL DEF Spec

-----------------------------------------------------------------------------
(* Refusals.  As long as nobody else changes the row, a handler finds it as *)
(* its own last call has left it, or else as the page showed it.            *)
Promised(op, n, seen, status) ==
  \/ \E m \in 1 .. n - 1 : LastToGive(op, n, m) /\ status \in op.calls[m].does.to
  \/ (\A m \in 1 .. n - 1 : ~Gives(op, m)) /\ status = seen

Foreseen(i) ==
  LET q == press[i] n == IF q.phase = "done" THEN q.call + 1 ELSE q.call IN
  Pending(i) =>
    /\ q.op.kind # "create" =>
         /\ q.seen \in StatusesOf(page) /\ (q.op.from = {} \/ q.seen \in q.op.from)
         /\ \A k \in 2 .. q.call : q.op.calls[k].when = {} \/ q.seen \in q.op.calls[k].when
    /\ q.phase \in {"asked", "cleared", "checked", "done"} /\ q.row # 0 /\ server[q.row].rev = q.rev =>
         Promised(q.op, n, q.seen, server[q.row].status)

Foretold == \A i \in Presses : Foreseen(i)

LEMMA PromiseGoesOn ==
  ASSUME NEW op, NEW n \in Nat \ {0}, NEW seen, NEW status
  PROVE  /\ Gives(op, n) /\ status \in op.calls[n].does.to => Promised(op, n + 1, seen, status)
         /\ ~Gives(op, n) /\ Promised(op, n, seen, status) => Promised(op, n + 1, seen, status)
<1>1. ASSUME Gives(op, n), status \in op.calls[n].does.to PROVE Promised(op, n + 1, seen, status)
  <2>1. n \in 1 .. (n + 1) - 1 /\ n + 1 .. (n + 1) - 1 = {}
    OBVIOUS
  <2>2. LastToGive(op, n + 1, n)
    BY <1>1, <2>1 DEF LastToGive
  <2> QED
    BY <1>1, <2>1, <2>2 DEF Promised
<1>2. ASSUME ~Gives(op, n), Promised(op, n, seen, status) PROVE Promised(op, n + 1, seen, status)
  <2>1. 1 .. (n + 1) - 1 = (1 .. n - 1) \cup {n}
    OBVIOUS
  <2>2. \A m \in 1 .. n - 1 : m + 1 .. (n + 1) - 1 = (m + 1 .. n - 1) \cup {n}
    OBVIOUS
  <2>3. \A m \in 1 .. n - 1 : LastToGive(op, n, m) => LastToGive(op, n + 1, m)
    BY <1>2, <2>1, <2>2 DEF LastToGive
  <2> QED
    BY <1>2, <2>1, <2>3 DEF Promised
<1> QED
  BY <1>1, <1>2

\* A handler that stays at the call it is at, or ends.
LEMMA ForeseenStays ==
  ASSUME Inv, Known, page' = page, \A r \in Rows : Follows(server[r], server'[r]), Inv',
         NEW j \in Presses, Foreseen(j),
         \/ ~Pending(j)'
         \/ /\ Pending(j)
            /\ press'[j].phase = press[j].phase \/ press'[j].phase \in {"failed", "reloading"}
                \/ (press[j].phase = "asked" /\ press'[j].phase \in {"cleared", "checked"})
            /\ press'[j].op = press[j].op /\ press'[j].call = press[j].call
            /\ press'[j].seen = press[j].seen /\ press'[j].row = press[j].row
            /\ press'[j].rev = press[j].rev
  PROVE  Foreseen(j)'
<1> DEFINE q == press[j]
           n == IF q.phase = "done" THEN q.call + 1 ELSE q.call
<1>0. /\ server \in [Rows -> [status : Statuses, rev : Nat]]
      /\ server' \in [Rows -> [status : Statuses, rev : Nat]]
      /\ press \in [Presses -> PressType]
  BY TypedParts DEF Inv, TypeOK
<1>1. CASE ~Pending(j)'
  BY <1>1 DEF Foreseen
<1>2. CASE Pending(j)'
  <2>1. ASSUME press'[j].phase \in {"asked", "cleared", "checked", "done"}, q.row # 0, server'[q.row].rev = q.rev
        PROVE  Promised(q.op, n, q.seen, server'[q.row].status)
    <3>1. q.row \in Rows /\ q.rev \in 1 .. server[q.row].rev
      BY <1>0, <1>2, <2>1 DEF PressType, Known, Informed
    <3>2. server[q.row].rev = q.rev /\ server'[q.row].status = server[q.row].status
      BY <1>0, <2>1, <3>1 DEF Follows
    <3>3. q.phase \in {"asked", "cleared", "checked", "done"}
      BY <1>2, <2>1
    <3> QED
      BY <1>2, <2>1, <3>2, <3>3 DEF Foreseen
  <2> QED
    BY <1>2, <2>1 DEF Foreseen
<1> QED
  BY <1>1, <1>2

LEMMA ForeseenPressed ==
  ASSUME Inv, Known, NEW i \in Presses, NEW op \in page.ops, NEW r \in Rows \cup {0}, Pressed(i, op, r)
  PROVE  Foreseen(i)'
<1>1. /\ press'[i].op = op /\ press'[i].phase = "asked" /\ press'[i].call = 1 /\ press'[i].row = r
      /\ page' = page /\ server' = server
      /\ r # 0 => press'[i].seen = view[r].status /\ press'[i].rev = view[r].rev
      /\ op.kind # "create" => r \in Rows /\ view[r].n > 0 /\ (op.from = {} \/ view[r].status \in op.from)
      /\ op.kind = "create" => r = 0
  BY DEF Pressed, Offered
<1>2. r # 0 => Met(server[r], view[r]) /\ view[r].status \in StatusesOf(page)
  BY <1>1 DEF Known, ListsTrue, TrueOf
<1>3. ASSUME r # 0, server[r].rev = press'[i].rev
      PROVE  Promised(op, 1, press'[i].seen, server[r].status)
  BY <1>1, <1>2, <1>3 DEF Promised, Met
<1>4. 2 .. 1 = {} /\ 0 \notin Rows
  BY TypedParts
<1> QED
  BY <1>1, <1>2, <1>3, <1>4 DEF Foreseen

LEMMA ForeseenWrote ==
  ASSUME Inv, Known, NEW i \in Presses, Foreseen(i), NEW r \in Rows, NEW to, NEW rev, Wrote(i, r, to, rev)
  PROVE  Foreseen(i)'
<1> DEFINE q == press[i]
           n == q.call
<1>0. /\ server \in [Rows -> [status : Statuses, rev : Nat]]
      /\ press \in [Presses -> PressType] /\ 0 \notin Rows
  BY TypedParts
<1>1. /\ Pending(i) /\ q \in PressType /\ IsOp(q.op) /\ n \in DOMAIN q.op.calls /\ IsHandler(Does(i))
      /\ Does(i) = q.op.calls[n].does
  <2>1. Pending(i)
    BY DEF Wrote, Pending
  <2> QED
    BY <2>1, AtWork DEF Does, This
<1>2. n \in Nat \ {0}
  BY <1>1 DEF IsOp
<1>3. /\ press'[i].op = q.op /\ press'[i].call = n /\ press'[i].seen = q.seen /\ press'[i].phase = "done"
      /\ page' = page
      /\ server'[r] = Stored(to, rev) /\ \A s \in Rows : s # r => server'[s] = server[s]
      /\ to \in IF Does(i).to = Same THEN {server[r].status} ELSE Does(i).to
      /\ rev = server[r].rev + IF Does(i).test = "read" THEN 0 ELSE 1
      /\ q.phase \in {"asked", "cleared", "checked"}
  BY DEF Wrote, Looks
<1>4. ASSUME press'[i].row # 0, server'[press'[i].row].rev = press'[i].rev
      PROVE  Promised(q.op, n + 1, q.seen, server'[press'[i].row].status)
  <2>1. CASE Gives(q.op, n)
    <3>1. to \in q.op.calls[n].does.to
      BY <1>1, <1>3, <2>1 DEF Gives
    <3>2. press'[i].row = r
      <4>1. Does(i).test = "insert" => q.op.kind = "create"
        BY <1>1, <2>1 DEF Gives
      <4> QED
        BY <4>1 DEF Wrote
    <3>3. server'[press'[i].row].status = to
      BY <1>3, <3>2 DEF Stored
    <3>4. Promised(q.op, n + 1, q.seen, to)
      <4> HIDE DEF q, n
      <4> QED
        BY <1>2, <2>1, <3>1, PromiseGoesOn
    <3> QED
      BY <3>3, <3>4
  <2>2. CASE ~Gives(q.op, n) /\ Does(i).test # "insert"
    <3>1. r = q.row /\ press'[i].row = r /\ press'[i].rev = q.rev + (rev - server[r].rev) /\ r # 0
      BY <1>0, <2>2 DEF Wrote
    <3>2. q.rev \in 1 .. server[r].rev
      BY <1>1, <3>1 DEF Known, Informed
    <3>3. server[r].rev = q.rev
      BY <1>0, <1>3, <1>4, <3>1, <3>2 DEF Stored
    <3>4. Promised(q.op, n, q.seen, server[r].status)
      BY <1>1, <1>3, <3>1, <3>3 DEF Foreseen
    <3>5. to = server[r].status
      BY <1>1, <1>3, <2>2 DEF Gives
    <3> QED
      BY <1>2, <1>3, <2>2, <3>1, <3>4, <3>5, PromiseGoesOn DEF Stored
  <2>3. CASE ~Gives(q.op, n) /\ Does(i).test = "insert"
    <3>1. q.op.kind # "create"
      BY <1>1, <2>3 DEF Gives, IsHandler
    <3>2. press'[i].row = q.row /\ press'[i].rev = q.rev
      BY <2>3, <3>1 DEF Wrote
    <3>3. q.row \in Rows /\ q.rev \in 1 .. server[q.row].rev
      BY <1>1, <1>4, <3>2 DEF Known, Informed, PressType
    <3>4. server[r].rev = 0
      BY <2>3 DEF Wrote, Known, RowsCounted
    <3>5. q.row # r
      BY <3>3, <3>4
    <3>6. Promised(q.op, n, q.seen, server[q.row].status)
      BY <1>1, <1>3, <1>4, <3>2, <3>3, <3>5 DEF Foreseen
    <3> QED
      BY <1>2, <1>3, <2>3, <3>2, <3>3, <3>5, <3>6, PromiseGoesOn
  <2> QED
    BY <2>1, <2>2, <2>3
<1> QED
  BY <1>1, <1>3, <1>4 DEF Foreseen

LEMMA ForeseenWent ==
  ASSUME Inv, Known, NEW i \in Presses, Foreseen(i), Came(i), Went(i)
  PROVE  Foreseen(i)'
<1> DEFINE q == press[i]
<1>1. Pending(i) /\ q \in PressType /\ q.phase = "done"
  <2>1. Pending(i) /\ q.phase = "done"
    BY DEF Came, Pending
  <2> QED
    BY <2>1, AtWork
<1>2. press'[i] = [q EXCEPT !.phase = "asked", !.call = q.call + 1] /\ page' = page /\ server' = server
  BY DEF Came, Went
<1>3. /\ press'[i].phase = "asked" /\ press'[i].call = q.call + 1 /\ press'[i].op = q.op
      /\ press'[i].seen = q.seen /\ press'[i].row = q.row /\ press'[i].rev = q.rev
  BY <1>1, <1>2 DEF PressType
<1>4. q.op.calls[q.call + 1].when = {} \/ q.seen \in q.op.calls[q.call + 1].when
  BY DEF Went, More
<1>5. q.call \in Nat /\ \A k \in 2 .. q.call + 1 : k \in 2 .. q.call \/ k = q.call + 1
  BY <1>1 DEF PressType
<1> QED
  BY <1>1, <1>2, <1>3, <1>4, <1>5 DEF Foreseen

LEMMA ForeseenStep ==
  ASSUME Inv, Known, Foretold, [Next]_vars, NEW j \in Presses
  PROVE  Foreseen(j)'
<1>0. /\ press \in [Presses -> PressType] /\ Foreseen(j) /\ Inv'
      /\ page' = page /\ \A r \in Rows : Follows(server[r], server'[r])
  BY TypedParts, InvStep, RowsFollow DEF Foretold, Known
<1>1. CASE press'[j] = press[j]
  BY <1>0, <1>1, ForeseenStays DEF Pending
<1>2. CASE press'[j] = Over
  BY <1>0, <1>2, ForeseenStays DEF Pending, Over, Unused
<1>3. ASSUME NEW i \in Presses, i # j, Others(i) PROVE Foreseen(j)'
  BY <1>1, <1>3 DEF Others
<1>4. ASSUME NEW i \in Presses, NEW op \in page.ops, NEW r \in Rows \cup {0}, Pressed(i, op, r)
      PROVE  Foreseen(j)'
  BY <1>3, <1>4, ForeseenPressed DEF Pressed
<1>5. ASSUME NEW i \in Presses, NEW r \in Rows, NEW to, NEW rev, Wrote(i, r, to, rev)
      PROVE  Foreseen(j)'
  <2>1. CASE i = j
    BY <1>0, <1>5, <2>1, ForeseenWrote
  <2> QED
    BY <1>3, <1>5, <2>1 DEF Wrote
<1>6. ASSUME NEW phase \in {"cleared", "checked", "failed", "reloading"}, press[j].phase \in {"asked", "cleared", "checked", "done"},
             phase \in {"cleared", "checked"} => press[j].phase = "asked",
             press'[j] = [press[j] EXCEPT !.phase = phase]
      PROVE  Foreseen(j)'
  <2>1. /\ press'[j].op = press[j].op /\ press'[j].call = press[j].call
        /\ press'[j].seen = press[j].seen /\ press'[j].row = press[j].row
        /\ press'[j].rev = press[j].rev /\ press'[j].phase = phase
    BY <1>0, <1>6 DEF PressType
  <2>2. Pending(j)
    BY <1>6 DEF Pending
  <2> QED
    BY <1>0, <1>6, <2>1, <2>2, ForeseenStays
<1>7. ASSUME NEW i \in Presses, NEW phase \in {"cleared", "checked", "failed"}, Moved(i, phase)
      PROVE  Foreseen(j)'
  <2>1. CASE i = j
    BY <1>6, <1>7, <2>1 DEF Moved
  <2> QED
    BY <1>3, <1>7, <2>1 DEF Moved
<1>8. ASSUME NEW i \in Presses, Came(i) PROVE Foreseen(j)'
  <2>1. CASE i = j /\ Went(i)
    BY <1>0, <1>8, <2>1, ForeseenWent
  <2>2. CASE i = j /\ ~Went(i)
    <3>1. press'[j] = Over \/ press'[j] = [press[j] EXCEPT !.phase = "reloading"]
      BY <1>8, <2>2 DEF Came, Asks, Ends
    <3>2. press[j].phase = "done"
      BY <1>8, <2>2 DEF Came
    <3> QED
      BY <1>2, <1>6, <3>1, <3>2
  <2> QED
    BY <1>3, <1>8, <2>1, <2>2 DEF Came
<1>9. ASSUME NEW i \in Presses, Failing(i) PROVE Foreseen(j)'
  BY <1>2, <1>3, <1>9 DEF Failing
<1>10. ASSUME NEW k \in Loads, Brought(k) \/ Closed(k) PROVE Foreseen(j)'
  BY <1>1, <1>2, <1>10 DEF Brought, Closed, Others
<1>11. CASE Again \/ Elsewhere
  BY <1>1, <1>11 DEF Again, Elsewhere
<1> QED
  BY <1>4, <1>5, <1>7, <1>8, <1>9, <1>10, <1>11, ScreenSteps

LEMMA ForetoldHolds == Spec => []Foretold
<1>1. Init => Foretold
  BY DEF Init, Foretold, Foreseen, Pending, Unused
<1>2. Inv /\ Known /\ Foretold /\ [Next]_vars => Foretold'
  BY ForeseenStep DEF Foretold
<1> QED
  BY <1>1, <1>2, Typed, KnownHolds, PTL DEF Spec

\* No handler that tests nothing but the status refuses a control that the page
\* offered, unless another user or another control has changed the row since the
\* page showed it: of all the pages whose conditions for a control imply those of
\* the handlers behind it, whatever happens between the calls of a control.
THEOREM FreshPress == Spec => FreshPressIsAccepted
<1>1. ASSUME Inv, Known, Foretold, NEW i \in Presses, Refuse(i), Does(i).test # "insert",
             ~Does(i).choosy, server[press[i].row].rev = press[i].rev
      PROVE  FALSE
  <2> DEFINE q == press[i]
             s == server[q.row].status
  <2>1. /\ Pending(i) /\ q.phase \in {"asked", "cleared"} /\ ~Passes(i)
    BY <1>1 DEF Refuse, Pending
  <2>2. /\ q \in PressType /\ q.op \in page.ops /\ IsOp(q.op) /\ q.call \in DOMAIN q.op.calls
        /\ Does(i) = q.op.calls[q.call].does
    BY <1>1, <2>1, AtWork DEF Does, This
  <2>3. q.row \in Rows /\ q.rev \in 1 .. server[q.row].rev
    BY <1>1, <2>1, <2>2 DEF PressType, Inv, Working, Sound, Pending, Known, Informed
  <2>4. s \in StatusesOf(page) \cup {"deleted"}
    BY <1>1, <2>3, TypedParts DEF Known, RowsCounted, Gone
  <2>5. Promised(q.op, q.call, q.seen, s)
    BY <1>1, <2>1, <2>3, TypedParts DEF Foretold, Foreseen
  <2>6. Expected(q.op, q.call, s)
    <3>1. CASE \E m \in 1 .. q.call - 1 : LastToGive(q.op, q.call, m) /\ s \in q.op.calls[m].does.to
      BY <3>1 DEF Expected
    <3>2. CASE (\A m \in 1 .. q.call - 1 : ~Gives(q.op, m)) /\ s = q.seen
      <4>1. q.op.kind # "create"
        <5>1. SUFFICES ASSUME q.op.kind = "create" PROVE FALSE
          OBVIOUS
        <5>2. q.op.calls[1].does.test = "insert"
          BY <2>2, <5>1 DEF IsOp
        <5>3. q.op.calls[1] \in ToSet(q.op.calls)
          BY <2>2 DEF IsOp, ToSet
        <5>4. Gives(q.op, 1)
          BY <2>2, <5>1, <5>2, <5>3 DEF Gives, IsOp, IsHandler
        <5>5. q.call # 1
          BY <1>1, <2>2, <5>2
        <5>6. 1 \in 1 .. q.call - 1
          BY <2>2, <5>5 DEF IsOp
        <5> QED
          BY <3>2, <5>4, <5>6
      <4>2. /\ q.seen \in StatusesOf(page) /\ (q.op.from = {} \/ q.seen \in q.op.from)
            /\ \A k \in 2 .. q.call : q.op.calls[k].when = {} \/ q.seen \in q.op.calls[k].when
        BY <1>1, <2>1, <4>1 DEF Foretold, Foreseen
      <4>3. q.seen # "deleted"
        BY <1>1, <4>2, PageSpeaks DEF Gone
      <4> QED
        BY <3>2, <4>2, <4>3 DEF Expected
    <3> QED
      BY <2>5, <3>1, <3>2 DEF Promised
  <2>7. OffersWhatIsAccepted(page)
    BY <1>1, HabitsAssumption DEF Inv, TypeOK
  <2>8. s # "deleted" /\ Accepts(Does(i), s)
    BY <1>1, <2>2, <2>4, <2>6, <2>7 DEF OffersWhatIsAccepted
  <2>9. Exists(q.row)
    BY <1>1, <2>4, <2>8, PageSpeaks DEF Exists, Gone
  <2> QED
    BY <1>1, <2>1, <2>8, <2>9 DEF Passes
<1>2. Inv /\ Known /\ Foretold /\ [Next]_vars =>
        [\A i \in Presses : Refuse(i) /\ Does(i).test # "insert" /\ ~Does(i).choosy =>
            server[press[i].row].rev # press[i].rev]_vars
  BY <1>1
<1> QED
  BY <1>2, Typed, KnownHolds, ForetoldHolds, PTL DEF Spec, FreshPressIsAccepted

-----------------------------------------------------------------------------
(* Loads under way.  If the person does not hurry, no handler is at work    *)
(* while the page or a list in it is loaded, and any other load is awaited  *)
(* by the handler that asked for it.                                        *)
Orderly ==
  /\ page.loads = "once" => load[Reparam].phase = "idle"
  /\ ~hurried => \A k \in {Opening, Reparam} : UnderWay(k) => \A i \in Presses : ~Pending(i)
  /\ \A k \in Presses : UnderWay(k) => press[k].phase = "reloading" \/ "refetch" \in ShownBy(page)
  /\ \A k \in Presses : press[k].phase = "reloading" => "reload" \in ShownBy(page)

\* Loads that begin and end, and handlers that wait for them.
LEMMA OrderlyStays ==
  ASSUME Orderly, page' = page, hurried' = hurried, UNCHANGED load,
         \A i \in Presses : Pending(i)' => Pending(i),
         \A i \in Presses : press'[i].phase = "reloading" <=> press[i].phase = "reloading"
  PROVE  Orderly'
BY DEF Orderly, UnderWay, ShownBy

LEMMA OrderlyStep == Inv /\ Orderly /\ [Next]_vars => Orderly'
<1> SUFFICES ASSUME Inv, Orderly, [Next]_vars PROVE Orderly'
  OBVIOUS
<1>0. /\ press \in [Presses -> PressType] /\ page' = page
      /\ Presses \subseteq Loads /\ Opening \in Loads /\ Reparam \in Loads
      /\ Opening \notin Presses /\ Reparam \notin Presses /\ Opening # Reparam
  BY TypedParts, PageStays, PressesAssumption DEF Opening, Reparam
<1>1. Unused.phase = "unused" /\ Over.phase = "over" /\ Empty("asked").phase = "asked"
      /\ Empty("ended").phase = "ended"
  BY DEF Unused, Over, Empty, Loaded
<1>2. ASSUME NEW i \in Presses, NEW op \in page.ops, NEW r \in Rows \cup {0}, Pressed(i, op, r)
      PROVE  Orderly'
  <2>1. ~hurried' => ~hurried /\ ~UnderWay(Opening) /\ ~UnderWay(Reparam)
    BY <1>2 DEF Pressed, UnderWay
  <2>2. \A k \in Presses : press'[k].phase = "reloading" <=> press[k].phase = "reloading"
    BY <1>1, <1>2 DEF Pressed, Others
  <2> QED
    BY <1>2, <2>1, <2>2 DEF Pressed, Orderly, UnderWay, ShownBy
<1>3. ASSUME NEW i \in Presses, NEW r \in Rows, NEW to, NEW rev, Wrote(i, r, to, rev)
      PROVE  Orderly'
  <2>1. press[i].phase \in {"asked", "cleared", "checked"} /\ press'[i].phase = "done" /\ Others(i) /\ UNCHANGED Looks
    BY <1>3 DEF Wrote
  <2> QED
    BY <1>1, <2>1, OrderlyStays DEF Others, Looks, Pending
<1>4. ASSUME NEW i \in Presses, NEW phase \in {"cleared", "checked", "failed"}, Moved(i, phase)
      PROVE  Orderly'
  <2>1. /\ press[i].phase \in {"asked", "cleared", "checked", "done"} /\ press'[i].phase = phase
        /\ Others(i) /\ UNCHANGED Looks
    BY <1>0, <1>4 DEF Moved, PressType
  <2> QED
    BY <1>1, <2>1, OrderlyStays DEF Others, Looks, Pending
<1>5. ASSUME NEW i \in Presses, Failing(i) PROVE Orderly'
  BY <1>1, <1>5, OrderlyStays DEF Failing, Others, Looks, Pending
<1>6. ASSUME NEW i \in Presses, Came(i) PROVE Orderly'
  <2>1. press[i].phase = "done" /\ Others(i) /\ page' = page /\ hurried' = hurried
    BY <1>6 DEF Came
  <2>2. CASE Went(i) \/ Ends(i)
    <3>1. load' = load /\ press'[i].phase \in {"asked", "over"}
      BY <1>0, <1>1, <2>2 DEF Went, Ends, PressType
    <3> QED
      BY <1>1, <2>1, <3>1, OrderlyStays DEF Others, Pending
  <2>3. CASE Asks(i)
    <3>1. This(i).show \in ShownBy(page)
      BY <2>1, AtWork DEF Pending
    <3>2. \/ "reload" \in ShownBy(page) /\ press'[i].phase = "reloading"
          \/ "refetch" \in ShownBy(page) /\ press'[i].phase = "over"
      BY <1>0, <1>1, <2>3, <3>1 DEF Asks, PressType
    <3>3. OtherLoads(i) /\ load'[Reparam] = load[Reparam] /\ load'[Opening] = load[Opening]
      BY <1>0, <2>3 DEF Asks, OtherLoads
    <3>4. \A j \in Presses : Pending(j)' => Pending(j)
      BY <2>1 DEF Others, Pending
    <3>5. /\ page.loads = "once" => load'[Reparam].phase = "idle"
          /\ (~hurried => \A k \in {Opening, Reparam} : UnderWay(k) => \A j \in Presses : ~Pending(j))'
      BY <2>1, <3>3, <3>4 DEF Orderly, UnderWay
    <3>6. ASSUME NEW k \in Presses
          PROVE  /\ UnderWay(k)' => press'[k].phase = "reloading" \/ "refetch" \in ShownBy(page)
                 /\ press'[k].phase = "reloading" => "reload" \in ShownBy(page)
      <4>1. CASE k = i
        BY <3>2, <4>1
      <4> QED
        BY <1>0, <2>1, <3>3, <4>1 DEF Orderly, UnderWay, OtherLoads, Others
    <3> QED
      BY <2>1, <3>5, <3>6 DEF Orderly, ShownBy
  <2> QED
    BY <1>6, <2>2, <2>3 DEF Came
<1>7. ASSUME NEW k \in Loads, Brought(k) PROVE Orderly'
  <2>1. \A l \in Loads : (UnderWay(l)' <=> UnderWay(l)) /\ (load[l].phase = "idle" => load'[l] = load[l])
    BY <1>7 DEF Brought, OtherLoads, UnderWay, Loaded
  <2> QED
    BY <1>0, <1>7, <2>1 DEF Brought, Orderly, ShownBy, Pending
<1>8. ASSUME NEW k \in Loads, Closed(k) PROVE Orderly'
  <2>1. \A l \in Loads : /\ UnderWay(l)' => UnderWay(l) /\ l # k
                         /\ load[l].phase = "idle" => load'[l] = load[l]
    BY <1>1, <1>8 DEF Closed, OtherLoads, UnderWay
  <2>2. \A i \in Presses : /\ Pending(i)' => Pending(i)
                           /\ i # k => press'[i] = press[i]
                           /\ press'[i].phase = "reloading" => press[i].phase = "reloading"
    BY <1>1, <1>8 DEF Closed, Awaited, Others, Pending
  <2>3. page' = page /\ hurried' = hurried
    BY <1>8 DEF Closed
  <2> QED
    BY <1>0, <2>1, <2>2, <2>3 DEF Orderly, ShownBy
<1>9. CASE Again
  <2>1. (page.loads = "once" => load[Reparam].phase = "idle")'
    BY <1>0, <1>9 DEF Again
  <2>2. (~hurried => \A k \in {Opening, Reparam} : UnderWay(k) => \A i \in Presses : ~Pending(i))'
    BY <1>0, <1>9 DEF Again, Pending
  <2>3. \A k \in Presses : UnderWay(k)' <=> UnderWay(k)
    BY <1>0, <1>9 DEF Again, OtherLoads, UnderWay
  <2> QED
    BY <1>0, <1>9, <2>1, <2>2, <2>3 DEF Again, Orderly, ShownBy
<1>10. CASE Elsewhere
  BY <1>10, OrderlyStays DEF Elsewhere, Looks, Pending
<1> QED
  BY <1>2, <1>3, <1>4, <1>5, <1>6, <1>7, <1>8, <1>9, <1>10, ScreenSteps

\* Controls that share a flag are used one after the other.
LEMMA Alone ==
  ASSUME Inv, OneInFlightPerFlag, OneAtATime, NEW i \in Presses, NEW j \in Presses, Pending(i), Pending(j)
  PROVE  i = j
<1>1. PICK f \in Flags(page) : \A op \in page.ops : op.flag = f
  BY DEF OneAtATime, OneFlag
<1>2. press[i].op \in page.ops /\ press[j].op \in page.ops
  BY AtWork
<1>3. i \in Holding(f) /\ j \in Holding(f)
  BY <1>1, <1>2 DEF Holding
<1>4. f \notin Nested(page)
  BY DEF OneAtATime, OneFlag
<1> QED
  BY <1>3, <1>4 DEF OneInFlightPerFlag

LEMMA LoadsAlone ==
  ASSUME Inv, OneInFlightPerFlag, Orderly, OneList, NEW k \in Loads, UnderWay(k)
  PROVE  /\ \A i \in Presses : Pending(i) => i = k /\ press[i].phase = "reloading"
         /\ page.loads = "once" /\ OneAtATime => \A l \in Loads : UnderWay(l) => l = k
<1>1. /\ ~hurried
      /\ \/ page.loads = "once" /\ OneAtATime
         \/ ShownBy(page) \cap {"reload", "refetch"} = {}
  BY DEF OneList
<1>2. Loads = {Opening, Reparam} \cup Presses
  BY PressesAssumption DEF Loads, Opening, Reparam, Presses
<1>3. "refetch" \notin ShownBy(page)
  <2>1. CASE page.loads = "once" /\ OneAtATime
    <3>1. KeepsUp(page)
      BY HabitsAssumption DEF Inv, TypeOK
    <3> QED
      BY <2>1, <3>1 DEF KeepsUp, WaitsForReloads, OneAtATime
  <2> QED
    BY <1>1, <2>1
<1>4. ASSUME NEW l \in Loads, UnderWay(l)
      PROVE  \/ l = Opening /\ \A i \in Presses : ~Pending(i)
             \/ l = Reparam /\ page.loads # "once" /\ \A i \in Presses : ~Pending(i)
             \/ l \in Presses /\ press[l].phase = "reloading" /\ OneAtATime
  <2>1. CASE l \in {Opening, Reparam}
    <3>1. \A i \in Presses : ~Pending(i)
      BY <1>1, <1>4, <2>1 DEF Orderly
    <3>2. l = Reparam => page.loads # "once"
      BY <1>4 DEF Orderly, UnderWay
    <3> QED
      BY <2>1, <3>1, <3>2
  <2>2. CASE l \in Presses
    <3>1. press[l].phase = "reloading" /\ "reload" \in ShownBy(page)
      BY <1>3, <1>4, <2>2 DEF Orderly
    <3> QED
      BY <1>1, <2>2, <3>1
  <2> QED
    BY <1>2, <1>4, <2>1, <2>2
<1>5. \A i \in Presses : ~Pending(i) => press[i].phase # "reloading"
  BY DEF Pending
<1>6. ASSUME NEW i \in Presses, Pending(i) PROVE i = k /\ press[i].phase = "reloading"
  <2>1. k \in Presses /\ press[k].phase = "reloading" /\ OneAtATime
    BY <1>4, <1>5, <1>6
  <2> QED
    BY <1>6, <2>1, Alone DEF Pending
<1>7. ASSUME page.loads = "once", OneAtATime, NEW l \in Loads, UnderWay(l) PROVE l = k
  BY <1>4, <1>5, <1>7, Alone DEF Pending
<1> QED
  BY <1>6, <1>7

LEMMA ListsStay ==
  ASSUME Inv, [Next]_vars
  PROVE  /\ page' = page /\ (OneAtATime' <=> OneAtATime) /\ ShownBy(page)' = ShownBy(page)
         /\ Calm' => Calm
         /\ OneList' => OneList
<1>1. page' = page
  BY PageStays
<1>2. hurried => hurried'
  <2>1. CASE \E i \in Presses, op \in page.ops, r \in Rows \cup {0} : Pressed(i, op, r)
    BY <2>1 DEF Pressed
  <2>2. ASSUME NEW i \in Presses, NEW r \in Rows, NEW to, NEW rev, Wrote(i, r, to, rev)
        PROVE  hurried' = hurried
    BY <2>2 DEF Wrote, Looks
  <2>3. ASSUME NEW i \in Presses, NEW phase \in {"cleared", "checked", "failed"}, Moved(i, phase)
        PROVE  hurried' = hurried
    BY <2>3 DEF Moved, Looks
  <2>4. ASSUME NEW i \in Presses, Came(i) \/ Failing(i) PROVE hurried' = hurried
    BY <2>4 DEF Came, Failing, Looks
  <2>5. ASSUME NEW k \in Loads, Brought(k) \/ Closed(k) PROVE hurried' = hurried
    BY <2>5 DEF Brought, Closed
  <2>6. CASE Again \/ Elsewhere
    BY <2>6 DEF Again, Elsewhere, Looks
  <2>7. hurried \in BOOLEAN /\ hurried' \in BOOLEAN
    BY InvStep DEF Inv, TypeOK
  <2> QED
    BY <2>7, <2>1, <2>2, <2>3, <2>4, <2>5, <2>6, ScreenSteps
<1> QED
  BY <1>1, <1>2 DEF OneAtATime, ShownBy, OneFlag, Flags, Nested, Calm, OneList

-----------------------------------------------------------------------------
(* Once in the list.  A row that was just made is not in the list yet, and  *)
(* nothing else under way is about it.                                      *)
Made(i) == press[i].phase = "done" /\ Does(i).test = "insert"

Apart(i, j) ==
  LET a == press[i].answer IN
  Pending(j) => press[j].row # a.row /\ (press[j].phase = "done" => press[j].answer.row # a.row)

Single ==
  OneList =>
    /\ \A r \in Rows : view[r].n <= 1
    /\ \A i \in Presses : Made(i) =>
         view[press[i].answer.row].n = 0 /\ \A j \in Presses \ {i} : Apart(i, j)

LEMMA RenderCounts ==
  ASSUME NEW v \in ViewType, NEW a, a.row \in Rows, NEW show
  PROVE  /\ (\A r \in Rows : v[r].n <= 1) /\ (show = "add" => v[a.row].n = 0) =>
              \A r \in Rows : Render(v, a, show)[r].n <= 1
         /\ \A r \in Rows \ {a.row} : v[r].n = 0 => Render(v, a, show)[r].n = 0
<1> DEFINE shown(n) == [v EXCEPT ![a.row] = Showing(n, a.status, a.rev)]
<1>1. \A n : shown(n)[a.row].n = n /\ \A r \in Rows \ {a.row} : shown(n)[r] = v[r]
  BY DEF ViewType, Showing
<1>2. \/ show = "add" /\ Render(v, a, show) = shown(v[a.row].n + 1)
      \/ Render(v, a, show) = shown(v[a.row].n)
      \/ Render(v, a, show) = shown(1)
      \/ Render(v, a, show) = [v EXCEPT ![a.row] = Hidden]
      \/ Render(v, a, show) = [r \in Rows |->
            IF r = a.row THEN Showing(1, a.status, a.rev)
            ELSE IF v[r].status = "primary" THEN Hidden ELSE v[r]]
      \/ Render(v, a, show) = v
  BY DEF Render
<1> HIDE DEF shown
<1>3. \A r \in Rows : v[r].n \in Nat
  BY DEF ViewType
<1> QED
  BY <1>1, <1>2, <1>3 DEF Hidden, Showing, ViewType

\* The list is as it was, and what was just made was made before.
LEMMA SingleStays ==
  ASSUME Single, OneList' => OneList, UNCHANGED view,
         \A i \in Presses : Made(i)' => Made(i) /\ press'[i].answer = press[i].answer,
         \A i \in Presses : Pending(i)' => Pending(i) /\ press'[i].row = press[i].row,
         \A i \in Presses : press'[i].phase = "done" =>
           press[i].phase = "done" /\ press'[i].answer = press[i].answer
  PROVE  Single'
BY DEF Single, Apart

LEMMA SingleWrote ==
  ASSUME Inv, Known, Single, NEW i \in Presses, NEW r \in Rows, NEW to, NEW rev, Wrote(i, r, to, rev),
         OneList' => OneList
  PROVE  Single'
<1>0. /\ server \in [Rows -> [status : Statuses, rev : Nat]] /\ view \in ViewType /\ 0 \notin Rows
      /\ press \in [Presses -> PressType]
  BY TypedParts
<1>1. /\ press[i].phase \in {"asked", "cleared", "checked"} /\ Pending(i)
      /\ press'[i].phase = "done" /\ press'[i].answer.row = r /\ view' = view
      /\ Does(i)' = Does(i)
      /\ press'[i].row \in {r, press[i].row}
      /\ \A j \in Presses : j # i => press'[j] = press[j]
      /\ Does(i).test # "insert" => r = press[i].row
      /\ Does(i).test = "insert" => server[r].status = "absent"
  <2>0. press'[i].answer = [row |-> r, status |-> to, rev |-> rev]
    BY DEF Wrote
  <2>1. /\ press[i].phase \in {"asked", "cleared", "checked"} /\ press'[i].phase = "done" /\ view' = view
        /\ press'[i].answer.row = r /\ press'[i].op = press[i].op /\ press'[i].call = press[i].call
    BY <2>0 DEF Wrote, Looks
  <2>2. /\ press'[i].row \in {r, press[i].row} /\ \A j \in Presses : j # i => press'[j] = press[j]
    BY DEF Wrote, Others
  <2>3. /\ Does(i).test # "insert" => r = press[i].row
        /\ Does(i).test = "insert" => server[r].status = "absent"
    BY DEF Wrote
  <2> QED
    BY <2>1, <2>2, <2>3 DEF Pending, Does, This
<1>2. ASSUME server[r].status = "absent"
      PROVE  /\ view[r].n = 0
             /\ \A j \in Presses : /\ Pending(j) => press[j].row # r
                                   /\ press[j].phase = "done" => press[j].answer.row # r
  <2>1. server[r].rev = 0 /\ \A n : n \notin 1 .. 0
    BY <1>2 DEF Known, RowsCounted
  <2>2. view[r].n = 0
    BY <1>0, <2>1 DEF Known, ListsTrue, TrueOf, Met, ViewType
  <2>3. ASSUME NEW j \in Presses, Pending(j) PROVE press[j].row # r
    BY <1>0, <2>1, <2>3 DEF Known, Informed
  <2>4. ASSUME NEW j \in Presses, press[j].phase = "done" PROVE press[j].answer.row # r
    BY <2>1, <2>4 DEF Known, Informed, Met
  <2> QED
    BY <2>2, <2>3, <2>4
<1>3. ASSUME OneList, NEW j \in Presses, Made(j)'
      PROVE  view[press'[j].answer.row].n = 0 /\ \A l \in Presses \ {j} : Apart(j, l)'
  <2>1. CASE j = i
    <3>1. server[r].status = "absent"
      BY <1>1, <1>3, <2>1 DEF Made
    <3>2. view[press'[j].answer.row].n = 0
      BY <1>1, <1>2, <2>1, <3>1
    <3>3. ASSUME NEW l \in Presses \ {j} PROVE Apart(j, l)'
      <4>1. press'[l] = press[l]
        BY <1>1, <2>1
      <4>2. Pending(l) => press[l].row # r /\ (press[l].phase = "done" => press[l].answer.row # r)
        BY <1>2, <3>1
      <4>3. press'[j].answer.row = r
        BY <1>1, <2>1
      <4> QED
        BY <4>1, <4>2, <4>3 DEF Apart, Pending
    <3> QED
      BY <3>2, <3>3
  <2>2. CASE j # i
    <3>1. press'[j] = press[j] /\ Made(j) /\ Pending(j) /\ press[j].phase = "done"
      BY <1>1, <1>3, <2>2 DEF Made, Does, This, Pending
    <3>2. view[press[j].answer.row].n = 0 /\ \A l \in Presses \ {j} : Apart(j, l)
      BY <1>3, <3>1 DEF Single
    <3>3. press[i].row # press[j].answer.row
      BY <1>1, <2>2, <3>2 DEF Apart
    <3>4. r # press[j].answer.row
      <4>1. CASE server[r].status = "absent"
        BY <1>2, <3>1, <4>1
      <4>2. CASE server[r].status # "absent"
        BY <1>1, <3>3, <4>2
      <4> QED
        BY <4>1, <4>2
    <3>5. Apart(j, i)'
      BY <1>1, <3>1, <3>3, <3>4 DEF Apart
    <3> QED
      BY <1>1, <3>1, <3>2, <3>5 DEF Apart, Pending
  <2> QED
    BY <2>1, <2>2
<1> QED
  BY <1>1, <1>3 DEF Single

LEMMA SingleCame ==
  ASSUME Inv, Known, Single, NEW i \in Presses, Came(i), OneList' => OneList
  PROVE  Single'
<1> DEFINE a == press[i].answer
<1>0. /\ press \in [Presses -> PressType] /\ view \in ViewType /\ a.row \in Rows
  BY TypedParts DEF Came, Known, Informed
<1>1. /\ press[i].phase = "done" /\ Pending(i) /\ view' = Render(view, Shown(i), This(i).show) /\ Others(i)
      /\ Shown(i).row = a.row
  BY ShownFacts DEF Came
<1>2. press'[i].phase # "done" /\ (Pending(i)' => press'[i].row = press[i].row)
  <2>1. \/ press'[i] = [press[i] EXCEPT !.phase = "asked", !.call = @ + 1]
        \/ press'[i] = [press[i] EXCEPT !.phase = "reloading"]
        \/ press'[i] = Over
    BY DEF Came, Went, Asks, Ends
  <2> QED
    BY <1>0, <2>1 DEF PressType, Over, Unused, Pending
<1>3. ASSUME OneList PROVE \A r \in Rows : view'[r].n <= 1
  <2>1. This(i).show = "add" => Does(i).test = "insert"
    <3>1. /\ press[i].op \in page.ops /\ press[i].call \in DOMAIN press[i].op.calls
          /\ AddsWhatItMade(page)
      BY <1>1, AtWork, HabitsAssumption DEF Inv, TypeOK
    <3> QED
      BY <3>1 DEF AddsWhatItMade, ToSet, This, Does
  <2>2. This(i).show = "add" => view[a.row].n = 0
    BY <1>1, <1>3, <2>1 DEF Single, Made
  <2>3. \A r \in Rows : view[r].n <= 1
    BY <1>3 DEF Single
  <2> HIDE DEF a
  <2> QED
    BY <1>0, <1>1, <2>2, <2>3, RenderCounts
<1>4. ASSUME OneList, NEW j \in Presses, Made(j)'
      PROVE  view'[press'[j].answer.row].n = 0 /\ \A l \in Presses \ {j} : Apart(j, l)'
  <2>1. j # i /\ press'[j] = press[j] /\ Made(j)
    BY <1>1, <1>2, <1>4 DEF Made, Others, Does, This
  <2>2. view[press[j].answer.row].n = 0 /\ \A l \in Presses \ {j} : Apart(j, l)
    BY <1>4, <2>1 DEF Single
  <2>3. press[j].answer.row # a.row /\ press[j].answer.row \in Rows
    BY <1>1, <2>1, <2>2 DEF Apart, Made, Known, Informed
  <2>4. view'[press[j].answer.row].n = 0
    <3> HIDE DEF a
    <3> QED
      BY <1>0, <1>1, <2>2, <2>3, RenderCounts
  <2>5. \A l \in Presses \ {j} : Apart(j, l)'
    BY <1>1, <1>2, <2>1, <2>2 DEF Apart, Others, Pending
  <2> QED
    BY <2>1, <2>4, <2>5
<1> QED
  BY <1>3, <1>4 DEF Single

LEMMA SingleClosed ==
  ASSUME Inv, OneInFlightPerFlag, Known, Orderly, Single, NEW k \in Loads, Closed(k), OneList' => OneList
  PROVE  Single'
<1>1. UnderWay(k)
  BY DEF Closed, UnderWay
<1>2. view' = view \/ view' = load[k].rows \/ view' = [r \in Rows |-> Hidden]
  BY DEF Closed
<1>3. ASSUME OneList PROVE \A r \in Rows : view'[r].n <= 1
  BY <1>2, <1>3 DEF Single, Known, ListsTrue, Hidden, Showing
<1>4. ASSUME OneList, NEW j \in Presses, Made(j)' PROVE FALSE
  <2>1. press[j].phase = "done"
    BY <1>4 DEF Closed, Made, Others, Over, Unused
  <2> QED
    BY <1>1, <1>4, <2>1, LoadsAlone DEF Pending
<1> QED
  BY <1>3, <1>4 DEF Single

LEMMA SingleStep == Inv /\ OneInFlightPerFlag /\ Known /\ Orderly /\ Single /\ [Next]_vars => Single'
<1> SUFFICES ASSUME Inv, OneInFlightPerFlag, Known, Orderly, Single, [Next]_vars PROVE Single'
  OBVIOUS
<1>0. press \in [Presses -> PressType] /\ (OneList' => OneList) /\ 0 \notin Rows
  BY TypedParts, ListsStay
<1>1. ASSUME NEW i \in Presses, NEW op \in page.ops, NEW r \in Rows \cup {0}, Pressed(i, op, r)
      PROVE  Single'
  <2>1. /\ press'[i].phase = "asked" /\ press'[i].row = r /\ view' = view
        /\ \A j \in Presses : j # i => press'[j] = press[j]
        /\ r \in Rows => view[r].n > 0
    BY <1>0, <1>1 DEF Pressed, Offered, Others
  <2>2. ASSUME OneList, NEW j \in Presses, Made(j)'
        PROVE  view[press'[j].answer.row].n = 0 /\ \A l \in Presses \ {j} : Apart(j, l)'
    <3>1. press'[j] = press[j] /\ Made(j) /\ j # i
      BY <2>1, <2>2 DEF Made, Does, This
    <3>2. view[press[j].answer.row].n = 0 /\ \A l \in Presses \ {j} : Apart(j, l)
      BY <2>2, <3>1 DEF Single
    <3>3. press[j].answer.row # r
      BY <1>0, <2>1, <3>1, <3>2 DEF Made, Known, Informed
    <3>4. Apart(j, i)'
      BY <2>1, <3>1, <3>3 DEF Apart
    <3> QED
      BY <2>1, <3>1, <3>2, <3>4 DEF Apart, Pending
  <2> QED
    BY <1>0, <2>1, <2>2 DEF Single
<1>2. ASSUME NEW i \in Presses, Others(i), view' = view, Pending(i)' => Pending(i) /\ press'[i].row = press[i].row,
             press'[i].phase # "done"
      PROVE  Single'
  BY <1>0, <1>2, SingleStays DEF Others, Made, Pending, Does, This
<1>3. ASSUME NEW i \in Presses, NEW phase \in {"cleared", "checked", "failed"}, Moved(i, phase) PROVE Single'
  <2>1. press'[i].phase = phase /\ press'[i].row = press[i].row /\ Pending(i) /\ Others(i) /\ view' = view
    BY <1>0, <1>3 DEF Moved, PressType, Pending, Looks
  <2> QED
    BY <1>2, <2>1
<1>4. ASSUME NEW i \in Presses, Failing(i) PROVE Single'
  BY <1>2, <1>4 DEF Failing, Looks, Over, Unused, Pending
<1>5. CASE UNCHANGED <<press, view>>
  BY <1>0, <1>5, SingleStays DEF Made, Pending, Does, This
<1>6. ASSUME NEW k \in Loads, Brought(k) PROVE Single'
  BY <1>5, <1>6 DEF Brought
<1>7. CASE Again \/ Elsewhere
  BY <1>5, <1>7 DEF Again, Elsewhere, Looks
<1>8. ASSUME NEW i \in Presses, NEW r \in Rows, NEW to, NEW rev, Wrote(i, r, to, rev) PROVE Single'
  BY <1>0, <1>8, SingleWrote
<1>9. ASSUME NEW i \in Presses, Came(i) PROVE Single'
  BY <1>0, <1>9, SingleCame
<1>10. ASSUME NEW k \in Loads, Closed(k) PROVE Single'
  BY <1>0, <1>10, SingleClosed
<1> QED
  BY <1>1, <1>3, <1>4, <1>6, <1>7, <1>8, <1>9, <1>10, ScreenSteps

LEMMA OrderlyHolds == Spec => []Orderly
<1>1. Init => Orderly
  <2> SUFFICES ASSUME Init PROVE Orderly
    OBVIOUS
  <2>1. \A i \in Presses : press[i] = Unused /\ Unused.phase = "unused"
    BY DEF Init, Unused
  <2>2. \A k \in Loads : k # Opening => load[k].phase = "idle"
    BY DEF Init, Empty, Loaded
  <2>3. Reparam \in Loads /\ Reparam # Opening /\ \A k \in Presses : k \in Loads /\ k # Opening
    BY PressesAssumption DEF Reparam, Loads, Opening, Presses
  <2> QED
    BY <2>1, <2>2, <2>3 DEF Orderly, UnderWay, Pending
<1> QED
  BY <1>1, OrderlyStep, Typed, PTL DEF Spec

\* A row is shown at most once, if the person waits for a list before adding to
\* it: on every page that loads its list as it opens or unfolds, puts into it
\* only what it has just made, and either has one flag for all its controls or
\* never loads the list again of itself; whatever order the answers, the loads
\* and the changes of other users come in.
THEOREM ShownOnce == Spec => []ShownAtMostOnce
<1>1. Init => Single
  BY DEF Init, Single, Made, Hidden, Showing, Unused
<1>2. Single => ShownAtMostOnce
  BY DEF Single, ShownAtMostOnce
<1> QED
  BY <1>1, <1>2, SingleStep, Typed, OneInFlight, KnownHolds, OrderlyHolds, PTL DEF Spec

-----------------------------------------------------------------------------
(* Forward.  An answer that has come is not older than what is shown, and   *)
(* neither is a list that has been read.                                    *)
Onward ==
  Calm /\ OneAtATime =>
    /\ \A i \in Presses : press[i].phase = "done" => view[press[i].answer.row].rev <= press[i].answer.rev
    /\ \A k \in Loads, r \in Rows :
         load[k].phase = "served" /\ load[k].rows[r].n > 0 => view[r].rev <= load[k].rows[r].rev

LEMMA ViewBehind ==
  ASSUME Inv, Known, NEW r \in Rows
  PROVE  view[r].rev <= server[r].rev
BY TypedParts DEF Known, ListsTrue, TrueOf, Met, ViewType

LEMMA RenderForward ==
  ASSUME NEW v \in ViewType, NEW a, a.row \in Rows, a.rev \in Nat, NEW show, v[a.row].rev <= a.rev
  PROVE  \A r \in Rows : Render(v, a, show)[r].n > 0 => Render(v, a, show)[r].rev >= v[r].rev
<1> DEFINE shown(n) == [v EXCEPT ![a.row] = Showing(n, a.status, a.rev)]
<1>0. \A r \in Rows : v[r].rev \in Nat /\ v[r].rev >= v[r].rev
  BY DEF ViewType
<1>1. \A n : shown(n)[a.row].rev = a.rev /\ \A r \in Rows \ {a.row} : shown(n)[r] = v[r]
  BY DEF ViewType, Showing
<1>2. \A n : \A r \in Rows : shown(n)[r].rev >= v[r].rev
  <2> HIDE DEF shown
  <2> QED
    BY <1>0, <1>1
<1>3. \/ \E n : Render(v, a, show) = shown(n)
      \/ Render(v, a, show) = [v EXCEPT ![a.row] = Hidden]
      \/ Render(v, a, show) = [r \in Rows |->
            IF r = a.row THEN Showing(1, a.status, a.rev)
            ELSE IF v[r].status = "primary" THEN Hidden ELSE v[r]]
      \/ Render(v, a, show) = v
  BY DEF Render
<1> HIDE DEF shown
<1> QED
  BY <1>0, <1>2, <1>3 DEF Hidden, Showing, ViewType

LEMMA OnwardStep == Inv /\ OneInFlightPerFlag /\ Known /\ Orderly /\ Onward /\ [Next]_vars => Onward'
<1> SUFFICES ASSUME Inv, OneInFlightPerFlag, Known, Orderly, Onward, [Next]_vars, Calm, OneAtATime
             PROVE  /\ \A i \in Presses : press'[i].phase = "done" =>
                         view'[press'[i].answer.row].rev <= press'[i].answer.rev
                    /\ \A k \in Loads, r \in Rows :
                         load'[k].phase = "served" /\ load'[k].rows[r].n > 0 => view'[r].rev <= load'[k].rows[r].rev
  BY ListsStay DEF Onward
<1> DEFINE Goal == /\ \A i \in Presses : press'[i].phase = "done" =>
                         view'[press'[i].answer.row].rev <= press'[i].answer.rev
                   /\ \A k \in Loads, r \in Rows :
                         load'[k].phase = "served" /\ load'[k].rows[r].n > 0 => view'[r].rev <= load'[k].rows[r].rev
<1>0. /\ press \in [Presses -> PressType] /\ server \in [Rows -> [status : Statuses, rev : Nat]]
      /\ view \in ViewType /\ Presses \subseteq Loads /\ OneList
      /\ \A r \in Rows : view[r].rev <= server[r].rev
      /\ \A i \in Presses : press[i].phase = "done" => view[press[i].answer.row].rev <= press[i].answer.rev
      /\ \A k \in Loads, r \in Rows :
           load[k].phase = "served" /\ load[k].rows[r].n > 0 => view[r].rev <= load[k].rows[r].rev
  BY TypedParts, ViewBehind DEF OneList, Calm, Onward
<1>1. ASSUME NEW i \in Presses, Others(i), press'[i].phase # "done", view' = view, load' = load PROVE Goal
  BY <1>0, <1>1 DEF Others
<1>2. ASSUME NEW i \in Presses, NEW op \in page.ops, NEW r \in Rows \cup {0}, Pressed(i, op, r) PROVE Goal
  BY <1>1, <1>2 DEF Pressed
<1>3. ASSUME NEW i \in Presses, NEW phase \in {"cleared", "checked", "failed"}, Moved(i, phase) \/ Failing(i) PROVE Goal
  <2>1. press'[i].phase # "done"
    BY <1>0, <1>3 DEF Moved, Failing, Over, Unused, PressType
  <2> QED
    BY <1>1, <1>3, <2>1 DEF Moved, Failing, Looks
<1>4. ASSUME NEW i \in Presses, NEW r \in Rows, NEW to, NEW rev, Wrote(i, r, to, rev) PROVE Goal
  <2>1. press'[i].answer = [row |-> r, status |-> to, rev |-> rev] /\ Others(i) /\ view' = view /\ load' = load
    BY <1>4 DEF Wrote, Looks
  <2>2. view[r].rev <= rev
    BY <1>0, <1>4 DEF Wrote, ViewType
  <2> QED
    BY <1>0, <2>1, <2>2 DEF Others
<1>5. ASSUME NEW i \in Presses, Pending(i), press[i].phase # "reloading" PROVE \A k \in Loads : ~UnderWay(k)
  BY <1>0, <1>5, LoadsAlone
<1>6. ASSUME NEW i \in Presses, Came(i) PROVE Goal
  <2>1. press[i].phase = "done" /\ Pending(i) /\ \A k \in Loads : ~UnderWay(k)
    BY <1>5, <1>6 DEF Came, Pending
  <2>2. \A k \in Loads : load'[k].phase # "served"
    BY <1>0, <1>6, <2>1 DEF Came, Went, Asks, Ends, OtherLoads, UnderWay, Empty, Loaded
  <2>3. press'[i].phase # "done"
    <3>1. \/ press'[i] = [press[i] EXCEPT !.phase = "asked", !.call = @ + 1]
          \/ press'[i] = [press[i] EXCEPT !.phase = "reloading"]
          \/ press'[i] = Over
      BY <1>6 DEF Came, Went, Asks, Ends
    <3> QED
      BY <1>0, <3>1 DEF PressType, Over, Unused
  <2>4. \A j \in Presses : press'[j].phase # "done"
    BY <1>6, <2>1, <2>3, Alone DEF Came, Others, Pending
  <2> QED
    BY <2>2, <2>4
<1>7. ASSUME NEW k \in Loads, Brought(k) PROVE Goal
  <2>1. press' = press /\ view' = view /\ load'[k].rows = Snapshot /\ OtherLoads(k)
    BY <1>7 DEF Brought, Loaded
  <2>2. \A r \in Rows : Snapshot[r].n > 0 => Snapshot[r].rev = server[r].rev
    BY DEF Snapshot, Showing, Hidden
  <2> QED
    BY <1>0, <2>1, <2>2 DEF OtherLoads
<1>8. ASSUME NEW k \in Loads, Closed(k) PROVE Goal
  <2>1. UnderWay(k)
    BY <1>8 DEF Closed, UnderWay
  <2>2. \A l \in Loads : load'[l].phase # "served"
    BY <1>0, <1>8, <2>1, LoadsAlone DEF Closed, OtherLoads, UnderWay, Empty, Loaded, Calm
  <2>3. \A j \in Presses : press'[j].phase = "done" => press[j].phase = "done"
    BY <1>8 DEF Closed, Others, Over, Unused
  <2>4. \A j \in Presses : press'[j].phase # "done"
    BY <1>5, <2>1, <2>3 DEF Pending
  <2> QED
    BY <2>2, <2>4
<1>9. CASE Again
  BY <1>9 DEF Again, Calm
<1>10. CASE Elsewhere
  BY <1>0, <1>10 DEF Elsewhere, Looks
<1> QED
  BY <1>2, <1>3, <1>4, <1>6, <1>7, <1>8, <1>9, <1>10, ScreenSteps

\* A page whose controls share one flag, and which loads its list once and
\* waits for it when it loads it again, never shows an older state of a row
\* than it has shown: whatever other users do in between.
THEOREM MovesForward == Spec => ViewMovesForward
<1>1. Init => Onward
  BY DEF Init, Onward, Unused, Empty, Loaded
<1>2. ASSUME Inv, Known, Onward, [Next]_vars
      PROVE  [Calm /\ OneAtATime =>
                \A r \in Rows : view'[r].n > 0 => view'[r].rev >= view[r].rev]_vars
  <2> SUFFICES ASSUME Calm, OneAtATime
               PROVE  \A r \in Rows : view'[r].n > 0 => view'[r].rev >= view[r].rev
    OBVIOUS
  <2>0. view \in ViewType /\ \A r \in Rows : view[r].rev \in Nat
    BY <1>2, TypedParts DEF ViewType
  <2>1. CASE view' = view
    BY <2>0, <2>1
  <2>2. ASSUME NEW i \in Presses, Came(i)
        PROVE  \A r \in Rows : view'[r].n > 0 => view'[r].rev >= view[r].rev
    <3> DEFINE a == press[i].answer
    <3>1. /\ view' = Render(view, a, This(i).show) /\ a.row \in Rows /\ view[a.row].rev <= a.rev
          /\ press[i] \in PressType
      BY <1>2, <2>2, ShownFacts, TypedParts DEF Came, Known, Informed, Onward
    <3>2. a.rev \in Nat
      BY <3>1 DEF PressType, AnswerType
    <3> HIDE DEF a
    <3> QED
      BY <2>0, <3>1, <3>2, RenderForward
  <2>3. ASSUME NEW k \in Loads, Closed(k), view' # view
        PROVE  \A r \in Rows : view'[r].n > 0 => view'[r].rev >= view[r].rev
    <3>1. \/ load[k].phase = "served" /\ view' = load[k].rows
          \/ view' = [r \in Rows |-> Hidden]
      BY <2>3 DEF Closed
    <3>2. load[k].rows \in ViewType
      BY <1>2, TypedParts
    <3>3. CASE load[k].phase = "served" /\ view' = load[k].rows
      BY <1>2, <2>0, <3>2, <3>3 DEF Onward, ViewType
    <3> QED
      BY <3>1, <3>3 DEF Hidden, Showing
  <2>4. ASSUME NEW i \in Presses, NEW op \in page.ops, NEW r \in Rows \cup {0}, Pressed(i, op, r) PROVE view' = view
    BY <2>4 DEF Pressed
  <2>5. ASSUME NEW i \in Presses, NEW r \in Rows, NEW to, NEW rev, Wrote(i, r, to, rev) PROVE view' = view
    BY <2>5 DEF Wrote, Looks
  <2>6. ASSUME NEW i \in Presses, NEW phase \in {"cleared", "checked", "failed"}, Moved(i, phase) \/ Failing(i)
        PROVE  view' = view
    BY <2>6 DEF Moved, Failing, Looks
  <2>7. ASSUME NEW k \in Loads, Brought(k) PROVE view' = view
    BY <2>7 DEF Brought
  <2>8. CASE Again \/ Elsewhere
    BY <2>1, <2>8 DEF Again, Elsewhere, Looks
  <2> QED
    BY <1>2, <2>1, <2>2, <2>3, <2>4, <2>5, <2>6, <2>7, <2>8, ScreenSteps
<1> QED
  BY <1>1, <1>2, OnwardStep, Typed, OneInFlight, KnownHolds, OrderlyHolds, PTL DEF Spec, ViewMovesForward

-----------------------------------------------------------------------------
(* Own changes.  Of a row whose change the page was told of, a list shows   *)
(* that change or a later one, or the row is gone.  So does every list that *)
(* has been read since, and that covers the change whose handler waits for  *)
(* the list.                                                                *)
ShowsAt(v, r, rev) == IF v[r].n > 0 THEN v[r].rev >= rev ELSE server[r].status = "deleted"

OwnList == Calm /\ OneAtATime /\ "oust" \notin ShownBy(page)

Covered(v) == \A r \in Rows : acked[r] > 0 => ShowsAt(v, r, acked[r])

Own ==
  OwnList =>
    /\ Covered(view)
    /\ \A k \in Loads : load[k].phase = "served" =>
         /\ Covered(load[k].rows)
         /\ Awaited(k) => ShowsAt(load[k].rows, press[k].answer.row, press[k].answer.rev)
    /\ \A i \in Presses :
         press[i].phase \in {"asked", "cleared", "checked", "done"} /\ press[i].op.kind # "create" =>
           view[press[i].row].n > 0

\* What the page does with an answer shows it, unless a load will.
LEMMA AnswerShows ==
  ASSUME Inv, Known, Own, OwnList, NEW i \in Presses, Came(i)
  PROVE  /\ This(i).show # "refetch"
         /\ More(i) => This(i).show \notin {"drop", "reload", "leave"}
         /\ This(i).show \notin {"reload", "leave"} =>
              /\ ShowsAt(view', press[i].answer.row, press[i].answer.rev)
              /\ \A r \in Rows : r # press[i].answer.row => view'[r] = view[r]
         /\ This(i).show \in {"reload", "leave"} => view' = view
         /\ This(i).show \in {"add", "put", "upsert"} => \A r \in Rows : view[r].n > 0 => view'[r].n > 0
<1> DEFINE a == press[i].answer
           c == This(i)
           shown(n) == [view EXCEPT ![a.row] = Showing(n, a.status, a.rev)]
<1>0. /\ press[i] \in PressType /\ view \in ViewType /\ a.row \in Rows /\ Pending(i) /\ press[i].phase = "done"
      /\ view' = Render(view, a, c.show) /\ a.rev \in Nat
  <2>1. press[i] \in PressType /\ view \in ViewType /\ a.row \in Rows
    BY TypedParts DEF Came, Known, Informed
  <2>2. press[i].phase = "done" /\ Shown(i) = a /\ Pending(i)
    BY ShownFacts DEF Came, OwnList
  <2> QED
    BY <2>1, <2>2 DEF Came, PressType, AnswerType
<1>1. /\ press[i].op \in page.ops /\ press[i].call \in DOMAIN press[i].op.calls
      /\ c = press[i].op.calls[press[i].call] /\ c.does = Does(i) /\ IsOp(press[i].op)
  BY <1>0, AtWork DEF This, Does
<1>2. ShowsItsWork(page) /\ WaitsForReloads(page)
  <2>1. KeepsUp(page)
    BY HabitsAssumption DEF Inv, TypeOK
  <2> QED
    BY <2>1 DEF KeepsUp, OwnList, Calm, OneAtATime
<1>3. /\ c.show \in {"add", "put", "upsert", "drop", "reload", "leave"}
      /\ c.show \in {"drop", "reload", "leave"} => press[i].call = Len(press[i].op.calls)
      /\ c.show = "put" => press[i].op.kind # "create" /\ c.does.test # "insert"
      /\ c.show = "drop" => c.does.to = {"deleted"}
  BY <1>1, <1>2 DEF ShowsItsWork
<1>4. More(i) => press[i].call # Len(press[i].op.calls)
  BY <1>1 DEF More, IsOp
<1>5. view[a.row].n \in Nat /\ (c.show = "put" => view[a.row].n > 0)
  BY <1>0, <1>1, <1>3 DEF Own, Known, Informed, ViewType
<1>6. c.show \in {"add", "put", "upsert"} => \E n : n > 0 /\ view' = shown(n)
  <2>1. /\ c.show = "add" => view' = shown(view[a.row].n + 1)
        /\ c.show = "put" => view' = shown(view[a.row].n)
        /\ c.show = "upsert" => view' = shown(1)
    BY <1>0, <1>5 DEF Render
  <2>2. view[a.row].n + 1 > 0 /\ 1 > 0
    BY <1>5
  <2> HIDE DEF shown, a, c
  <2> QED
    BY <1>5, <2>1, <2>2
<1>7. ASSUME NEW n, n > 0, view' = shown(n)
      PROVE  /\ ShowsAt(view', a.row, a.rev)
             /\ \A r \in Rows : (r # a.row => view'[r] = view[r]) /\ (view[r].n > 0 => view'[r].n > 0)
  <2>1. view'[a.row] = Showing(n, a.status, a.rev) /\ \A r \in Rows : r # a.row => view'[r] = view[r]
    BY <1>0, <1>7 DEF ViewType
  <2>2. view'[a.row].n = n /\ view'[a.row].rev = a.rev
    BY <2>1 DEF Showing
  <2> HIDE DEF shown, a
  <2> QED
    BY <1>0, <1>7, <2>1, <2>2 DEF ShowsAt
<1>8. ASSUME c.show = "drop"
      PROVE  ShowsAt(view', a.row, a.rev) /\ \A r \in Rows : r # a.row => view'[r] = view[r]
  <2>1. view'[a.row] = Hidden /\ \A r \in Rows : r # a.row => view'[r] = view[r]
    BY <1>0, <1>8 DEF Render, ViewType
  <2>2. Does(i).to = {"deleted"} /\ Does(i).to # Same
    BY <1>1, <1>3, <1>8 DEF Same
  <2>3. a.status = "deleted" /\ server[a.row].status = "deleted"
    BY <1>0, <2>2 DEF Known, Informed
  <2> QED
    BY <2>1, <2>3 DEF ShowsAt, Hidden, Showing
<1>9. c.show \in {"reload", "leave"} => view' = view
  BY <1>0 DEF Render
<1> HIDE DEF a, shown
<1> QED
  BY <1>3, <1>4, <1>6, <1>7, <1>8, <1>9 DEF a

LEMMA OwnRest ==
  ASSUME Inv, Known, Own, OwnList, page' = page, \A r \in Rows : Follows(server[r], server'[r]),
         UNCHANGED <<view, load, acked>>,
         \A j \in Presses : press'[j].phase = "reloading" =>
           press[j].phase = "reloading" /\ press'[j].answer = press[j].answer,
         \A j \in Presses : press'[j].phase \in {"asked", "cleared", "checked", "done"} /\ press'[j].op.kind # "create" =>
           view[press'[j].row].n > 0
  PROVE  Own'
<1>1. \A v : \A r \in Rows : \A rev : ShowsAt(v, r, rev) => IF v[r].n > 0 THEN v[r].rev >= rev ELSE server'[r].status = "deleted"
  BY DEF ShowsAt, Follows
<1>2. \A v : Covered(v) => \A r \in Rows : acked[r] > 0 =>
        IF v[r].n > 0 THEN v[r].rev >= acked[r] ELSE server'[r].status = "deleted"
  BY <1>1 DEF Covered
<1>3. \A k \in Loads : Awaited(k)' => Awaited(k) /\ press'[k].answer = press[k].answer /\ press[k].answer.row \in Rows
  BY DEF Awaited, Known, Informed
<1>4. Covered(view)'
  BY <1>2 DEF Own, Covered, ShowsAt
<1>5. ASSUME NEW k \in Loads, load'[k].phase = "served"
      PROVE  /\ Covered(load[k].rows)'
             /\ Awaited(k)' => ShowsAt(load[k].rows, press[k].answer.row, press[k].answer.rev)'
  <2>1. /\ load[k].phase = "served" /\ Covered(load[k].rows)
        /\ Awaited(k) => ShowsAt(load[k].rows, press[k].answer.row, press[k].answer.rev)
    BY <1>5 DEF Own
  <2>2. Covered(load[k].rows)'
    BY <1>2, <2>1 DEF Covered, ShowsAt
  <2>3. Awaited(k)' => ShowsAt(load[k].rows, press[k].answer.row, press[k].answer.rev)'
    BY <1>1, <1>3, <2>1 DEF ShowsAt
  <2> QED
    BY <2>2, <2>3
<1> QED
  BY <1>4, <1>5 DEF Own

LEMMA OwnCame ==
  ASSUME Inv, OneInFlightPerFlag, Known, Orderly, Own, OwnList, NEW i \in Presses, Came(i)
  PROVE  Own'
<1> DEFINE a == press[i].answer
<1>0. /\ press \in [Presses -> PressType] /\ acked \in [Rows -> Nat] /\ Presses \subseteq Loads
      /\ press[i].phase = "done" /\ Pending(i) /\ a.row \in Rows /\ OneList /\ server' = server
      /\ page' = page /\ Others(i)
  BY TypedParts DEF Came, Known, Informed, OwnList, OneList, Calm, Pending
<1>1. \A k \in Loads : load'[k].phase # "served"
  <2>1. \A k \in Loads : ~UnderWay(k)
    BY <1>0, LoadsAlone
  <2> QED
    BY <1>0, <2>1 DEF Came, Went, Asks, Ends, OtherLoads, UnderWay, Empty, Loaded
<1>2. \A j \in Presses : j # i => ~Pending(j)'
  BY <1>0, Alone DEF Others, Pending, OwnList
<1>3. Covered(view)'
  <2>1. CASE This(i).show \in {"reload", "leave"}
    <3>1. acked' = acked
      BY <2>1, AnswerShows DEF Came, Went, Asks, Ends
    <3>2. view' = view
      BY <2>1, AnswerShows
    <3> QED
      BY <1>0, <3>1, <3>2 DEF Own, Covered, ShowsAt
  <2>2. CASE This(i).show \notin {"reload", "leave"}
    <3>1. acked' = [acked EXCEPT ![a.row] = a.rev]
      BY <2>2, AnswerShows DEF Came, Went, Asks, Ends, Told
    <3>2. ShowsAt(view', a.row, a.rev) /\ \A r \in Rows : r # a.row => view'[r] = view[r]
      BY <2>2, AnswerShows
    <3>3. \A r \in Rows : r # a.row => acked'[r] = acked[r]
      BY <1>0, <3>1
    <3>4. acked'[a.row] = a.rev
      BY <1>0, <3>1
    <3> HIDE DEF a
    <3> QED
      BY <1>0, <3>2, <3>3, <3>4 DEF Own, Covered, ShowsAt
  <2> QED
    BY <2>1, <2>2
<1>4. ASSUME NEW j \in Presses, press'[j].phase \in {"asked", "cleared", "checked", "done"}, press'[j].op.kind # "create"
      PROVE  view'[press'[j].row].n > 0
  <2>1. j = i
    BY <1>2, <1>4 DEF Pending
  <2>2. Went(i)
    BY <1>0, <1>4, <2>1 DEF Came, Asks, Ends, Over, Unused, PressType
  <2>3. press'[i].row = press[i].row /\ press'[i].op = press[i].op
    BY <1>0, <2>2 DEF Went, PressType
  <2>4. This(i).show \in {"add", "put", "upsert"}
    <3>1. This(i).show \in ShownBy(page) /\ More(i)
      BY <1>0, <2>2, AtWork DEF Went
    <3>2. ShowsItsWork(page)
      BY HabitsAssumption DEF Inv, TypeOK, KeepsUp, OwnList, Calm, OneAtATime
    <3>3. This(i).show \in {"add", "put", "upsert", "drop", "reload", "leave"}
      BY <1>0, <3>2, AtWork DEF ShowsItsWork, This
    <3> QED
      BY <3>1, <3>3, AnswerShows
  <2>5. view[press[i].row].n > 0
    BY <1>0, <1>4, <2>1, <2>3 DEF Own
  <2>6. press[i].row \in Rows
    BY <1>0, AtWork DEF Inv, Working, Sound, PressType
  <2> QED
    BY <2>1, <2>3, <2>4, <2>5, <2>6, AnswerShows
<1> QED
  BY <1>1, <1>3, <1>4 DEF Own

LEMMA OwnLoads ==
  ASSUME Inv, OneInFlightPerFlag, Known, Orderly, Own, OwnList, NEW k \in Loads, Brought(k) \/ Closed(k)
  PROVE  Own'
<1>0. /\ server \in [Rows -> [status : Statuses, rev : Nat]] /\ acked \in [Rows -> Nat]
      /\ OneList /\ server' = server /\ page' = page /\ OtherLoads(k)
      /\ press \in [Presses -> PressType]
  BY TypedParts DEF OwnList, OneList, Calm, Brought, Closed
<1>1. CASE Brought(k)
  <2>1. press' = press /\ view' = view /\ acked' = acked /\ load'[k].rows = Snapshot
    BY <1>1 DEF Brought, Loaded
  <2>2. ASSUME NEW r \in Rows, NEW rev \in Nat, rev > 0, rev <= server[r].rev
        PROVE  ShowsAt(Snapshot, r, rev)
    <3>1. server[r].status # "absent"
      BY <1>0, <2>2 DEF Known, RowsCounted
    <3>2. Snapshot[r] = IF Exists(r) THEN Showing(1, server[r].status, server[r].rev) ELSE Hidden
      BY DEF Snapshot
    <3> QED
      BY <1>0, <2>2, <3>1, <3>2 DEF ShowsAt, Exists, Showing, Hidden
  <2>3. Covered(Snapshot)
    BY <1>0, <2>2 DEF Covered, Known, ListsTrue
  <2>4. ASSUME Awaited(k) PROVE ShowsAt(Snapshot, press[k].answer.row, press[k].answer.rev)
    <3>1. k \in Presses /\ press[k].answer.row \in Rows /\ Met(server[press[k].answer.row], press[k].answer)
      BY <2>4 DEF Awaited, Known, Informed
    <3>2. press[k].answer.rev \in Nat /\ press[k].answer.rev > 0 /\ press[k].answer.rev <= server[press[k].answer.row].rev
      BY <1>0, <3>1 DEF Met
    <3> QED
      BY <2>2, <3>1, <3>2
  <2> QED
    BY <1>0, <2>1, <2>3, <2>4 DEF Own, Covered, ShowsAt, Awaited, OtherLoads
<1>2. CASE Closed(k)
  <2>1. UnderWay(k)
    BY <1>2 DEF Closed, UnderWay
  <2>2. \A l \in Loads : load'[l].phase # "served"
    BY <1>0, <1>2, <2>1, LoadsAlone DEF Closed, OtherLoads, UnderWay, Empty, Loaded, OwnList, Calm
  <2>3. \A j \in Presses : press'[j].phase \in {"asked", "cleared", "checked", "done"} =>
          press[j].phase \in {"asked", "cleared", "checked", "done"}
    BY <1>2 DEF Closed, Others, Over, Unused
  <2>4. \A j \in Presses : press'[j].phase \notin {"asked", "cleared", "checked", "done"}
    BY <1>0, <2>1, <2>3, LoadsAlone DEF Pending
  <2>5. Covered(view)'
    <3>1. CASE view' = view /\ acked' = acked
      BY <1>0, <3>1 DEF Own, Covered, ShowsAt
    <3>2. CASE load[k].phase = "served" /\ view' = load[k].rows /\ acked' = acked
      BY <1>0, <3>2 DEF Own, Covered, ShowsAt
    <3>3. CASE load[k].phase = "served" /\ view' = load[k].rows /\ Awaited(k) /\ acked' = Told(k)
      <4> DEFINE a == press[k].answer
      <4>1. a.row \in Rows /\ Covered(load[k].rows) /\ ShowsAt(load[k].rows, a.row, a.rev)
        BY <3>3 DEF Own, Awaited, Known, Informed
      <4>2. acked' = [acked EXCEPT ![a.row] = a.rev]
        BY <3>3 DEF Told
      <4>3. acked'[a.row] = a.rev /\ \A r \in Rows : r # a.row => acked'[r] = acked[r]
        BY <1>0, <4>1, <4>2
      <4> HIDE DEF a
      <4> QED
        BY <1>0, <3>3, <4>1, <4>3 DEF Covered, ShowsAt
    <3>4. ~page.empties
      BY HabitsAssumption DEF Inv, TypeOK, KeepsUp, OwnList, Calm, OneAtATime
    <3> QED
      BY <1>2, <3>1, <3>2, <3>3, <3>4 DEF Closed
  <2> QED
    BY <2>2, <2>4, <2>5 DEF Own
<1> QED
  BY <1>1, <1>2

LEMMA OwnStep == Inv /\ OneInFlightPerFlag /\ Known /\ Orderly /\ Own /\ [Next]_vars => Own'
<1> SUFFICES ASSUME Inv, OneInFlightPerFlag, Known, Orderly, Own, [Next]_vars, OwnList PROVE Own'
  BY ListsStay DEF Own, OwnList
<1>0. /\ press \in [Presses -> PressType] /\ page' = page /\ \A r \in Rows : Follows(server[r], server'[r])
      /\ \A i \in Presses :
           press[i].phase \in {"asked", "cleared", "checked", "done"} /\ press[i].op.kind # "create" =>
             view[press[i].row].n > 0
  BY TypedParts, RowsFollow DEF Known, Own
<1>1. ASSUME NEW i \in Presses, Others(i), UNCHANGED <<view, load, acked>>, press'[i].phase # "reloading",
             press'[i].phase \in {"asked", "cleared", "checked", "done"} /\ press'[i].op.kind # "create" =>
               view[press'[i].row].n > 0
      PROVE  Own'
  BY <1>0, <1>1, OwnRest DEF Others
<1>2. ASSUME NEW i \in Presses, NEW op \in page.ops, NEW r \in Rows \cup {0}, Pressed(i, op, r) PROVE Own'
  <2>1. /\ press'[i].op = op /\ press'[i].row = r /\ press'[i].phase = "asked" /\ Others(i)
        /\ op.kind # "create" => view[r].n > 0 /\ UNCHANGED <<view, load, acked>>
    BY <1>2 DEF Pressed, Offered
  <2>2. UNCHANGED <<view, load, acked>>
    BY <1>2 DEF Pressed
  <2> QED
    BY <1>1, <2>1, <2>2
<1>3. ASSUME NEW i \in Presses, NEW r \in Rows, NEW to, NEW rev, Wrote(i, r, to, rev) PROVE Own'
  <2>1. /\ press[i].phase \in {"asked", "cleared", "checked"} /\ press'[i].phase = "done" /\ Others(i)
        /\ press'[i].op = press[i].op /\ UNCHANGED <<view, load, acked>>
        /\ press[i].op.kind # "create" => press'[i].row = press[i].row
    BY <1>3 DEF Wrote, Looks
  <2> QED
    BY <1>0, <1>1, <2>1
<1>4. ASSUME NEW i \in Presses, NEW phase \in {"cleared", "checked", "failed"}, Moved(i, phase) PROVE Own'
  <2>1. /\ press[i].phase \in {"asked", "cleared", "checked", "done"} /\ press'[i].phase = phase
        /\ press'[i].op = press[i].op /\ press'[i].row = press[i].row /\ Others(i)
        /\ UNCHANGED <<view, load, acked>>
    BY <1>0, <1>4 DEF Moved, Looks, PressType
  <2> QED
    BY <1>0, <1>1, <2>1
<1>5. ASSUME NEW i \in Presses, Failing(i) PROVE Own'
  <2>1. press'[i].phase = "over" /\ Others(i) /\ UNCHANGED <<view, load, acked>>
    BY <1>5 DEF Failing, Looks, Over, Unused
  <2> QED
    BY <1>1, <2>1
<1>6. CASE Again
  BY <1>6 DEF Again, OwnList, Calm
<1>7. CASE Elsewhere
  <2>1. press' = press /\ UNCHANGED <<view, load, acked>>
    BY <1>7 DEF Elsewhere, Looks
  <2> QED
    BY <1>0, <2>1, OwnRest
<1> QED
  BY <1>2, <1>3, <1>4, <1>5, <1>6, <1>7, OwnCame, OwnLoads, ScreenSteps

\* When nothing is under way, a page whose controls share one flag and which
\* shows what its calls have done shows, of every row, its own last change or
\* a later one, and if it shows no such row, there is none any more.
THEOREM RestsOnOwn == Spec => []RestsOnOwnWrites
<1>1. Init => Own
  <2>1. Init => \A r \in Rows : acked[r] = 0 /\ ~(0 > 0)
    BY DEF Init
  <2>2. Init => \A k \in Loads : load[k].phase # "served"
    BY DEF Init, Empty, Loaded
  <2>3. Init => \A i \in Presses : press[i].phase = "unused"
    BY DEF Init, Unused
  <2> QED
    BY <2>1, <2>2, <2>3 DEF Own, Covered
<1>2. Own => RestsOnOwnWrites
  BY DEF Own, OwnList, RestsOnOwnWrites, Covered, ShowsAt, Exists
<1> QED
  BY <1>1, <1>2, OwnStep, Typed, OneInFlight, KnownHolds, OrderlyHolds, PTL DEF Spec
=============================================================================
