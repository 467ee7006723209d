----------------------------- MODULE TimeWindow -----------------------------
(***************************************************************************)
(* domain::TimeWindow: a half-open span [start, end) of instants, and the  *)
(* buffers a reservation policy puts around a requested span.              *)
(* Instants and durations are integers (std::chrono counts).               *)
(***************************************************************************)
EXTENDS Integers

Window(first, last) == [start |-> first, end |-> last]

(* TimeWindow::contains. *)
Contains(w, t) == w.start <= t /\ t < w.end

(* TimeWindow::overlaps: a window that ends where another starts does not  *)
(* overlap it.                                                             *)
Overlaps(v, w) == v.start < w.end /\ w.start < v.end

(* make_time_window refuses an empty or an inverted span.                  *)
IsWindow(w) == w.start < w.end

(* effective_window: the span everyone else is kept out of.                *)
EffectiveWindow(start, duration, entryBuffer, exitBuffer) ==
  Window(start - entryBuffer, start + duration + exitBuffer)

(* Slip: a span of no length gets through.                                 *)
HasEffectiveWindowOrNone(start, duration, entryBuffer, exitBuffer) ==
  duration >= 0

HasEffectiveWindow(start, duration, entryBuffer, exitBuffer) ==
  /\ duration >= 0
  /\ IsWindow(EffectiveWindow(start, duration, entryBuffer, exitBuffer))

(* is_past_window.                                                         *)
IsPast(w, now) == now >= w.end
=============================================================================
