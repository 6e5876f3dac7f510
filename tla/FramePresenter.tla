--------------------------- MODULE FramePresenter ---------------------------
(***************************************************************************)
(* Vsync-paced presentation (frame-presenter.ts), as operators on the      *)
(* presenter's record: at most one decoded frame is drawn per display      *)
(* tick, a few may wait, the oldest is given up.  Every operator is one    *)
(* call on the browser's event loop.                                       *)
(***************************************************************************)
EXTENDS Naturals, Sequences

CONSTANT MaxWaiting     \* MAX_WAITING

ASSUME PresenterAssumption == MaxWaiting \in Nat \ {0}

\* waiting; drawn: drawnThisTick; scheduled: an animation frame is requested;
\* stopped.
NewPresenter == [waiting |-> <<>>, drawn |-> FALSE, scheduled |-> FALSE,
                 stopped |-> FALSE]

PresenterOf(Frame) == [waiting : Seq(Frame), drawn : BOOLEAN, scheduled : BOOLEAN,
                       stopped : BOOLEAN]

\* Mutant: a new frame overtakes those that wait.
DrawsUnlessDrawn(p) == ~p.stopped /\ ~p.drawn

\* enqueue draws a frame at once when this tick has shown none.
DrawsNow(p) == ~p.stopped /\ ~p.drawn /\ p.waiting = <<>>

\* Otherwise the frame waits; the oldest makes room.
Wait(p, frame) ==
    LET room == IF Len(p.waiting) = MaxWaiting THEN Tail(p.waiting) ELSE p.waiting
    IN  [p EXCEPT !.waiting = Append(room, frame), !.scheduled = TRUE]

Enqueued(p, frame) ==
    IF p.stopped THEN p
    ELSE IF DrawsNow(p) THEN [p EXCEPT !.drawn = TRUE, !.scheduled = TRUE]
    ELSE Wait(p, frame)

\* The tick shows what was drawn since the last one, or draws a waiting frame.
DrawsAtTick(p) == ~p.stopped /\ ~p.drawn /\ p.waiting # <<>>

Ticked(p) ==
    LET rest == IF p.drawn \/ p.waiting = <<>> THEN p.waiting ELSE Tail(p.waiting)
    IN  [p EXCEPT !.waiting = rest, !.drawn = FALSE, !.scheduled = rest # <<>>]

Cleared(p) == [p EXCEPT !.waiting = <<>>]

Closed(p) == [p EXCEPT !.waiting = <<>>, !.scheduled = FALSE, !.stopped = TRUE]
=============================================================================
