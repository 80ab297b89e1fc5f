---- MODULE MCTaskQueue ----
(* Small instances of TaskQueue: model values and process layouts. *)
EXTENDS TaskQueue

CONSTANTS k1, k2, e1, e2, r1, r2, c1, m1, p0, p1, p2

\* Thread mode: one API process with two executor threads.
ThreadProcOf == [x \in Enqueuers \cup Runners |-> p0]

\* Worker mode: the API process and two worker processes.
WorkerProcOf == [x \in Enqueuers \cup Runners |-> IF x = r1 THEN p1 ELSE IF x = r2 THEN p2 ELSE p0]

====
