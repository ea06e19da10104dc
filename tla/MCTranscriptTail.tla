-------------------------- MODULE MCTranscriptTail --------------------------
(* Short transcripts of each dialect, with the shapes that its parse carries state for. *)
EXTENDS TranscriptTail

CONSTANTS s1, s2, r1, r2, r3

Rec(k, s, r, n, u, p, fin, len) ==
  [k |-> k, s |-> s, r |-> r, n |-> n, u |-> u, p |-> p, fin |-> fin, x |-> FALSE, len |-> len]
WithRef(rec) == [rec EXCEPT !.x = TRUE]
Meta(s, fin) == Rec("meta", s, NoResp, 0, 0, 0, fin, 1)
Turn(s) == Rec("turn", s, NoResp, 0, 0, 0, FALSE, 1)
Record(s, r, n) == Rec("rec", s, r, n, 0, 0, FALSE, 2)
Count(s, r, n, total) == Rec("count", s, r, n, total, 0, FALSE, 1)
Claude(s, r, n, u, p, fin) == Rec("asst", s, r, n, u, p, fin, 1)
User(s, u, p) == Rec("user", s, NoResp, 0, u, p, FALSE, 1)
Anon(s, r, n, u, p) == Rec("anon", s, r, n, u, p, FALSE, 1)
Tool(s, u, p) == Rec("tool", s, NoResp, 0, u, p, FALSE, 1)
Overlong == Rec("junk", NoSes, NoResp, 0, 0, 0, FALSE, 4)

Transcripts == {
  \* a rollout that reports token totals, one of them repeated
  <<Meta(s1, FALSE), Turn(s1), Count(s1, r1, 1, 1), Count(s1, r1, 1, 1), Count(s1, r2, 2, 3)>>,
  \* a rollout that turns to usage records, each followed by its total
  <<Meta(s1, FALSE), Count(s1, r1, 1, 1), Record(s1, r2, 2), Count(s1, r2, 2, 3)>>,
  \* a rollout of a release that writes records from the start, and a fork's copy of its meta
  <<Meta(s1, TRUE), Meta(s2, FALSE), Record(s1, r1, 1), Count(s1, r1, 1, 1), Record(s1, r2, 2)>>,
  \* two interleaved Claude responses, the second ended by its own record, the first by a user turn
  <<Claude(s1, r1, 1, 1, 9, FALSE), Claude(s1, r2, 1, 2, 9, FALSE), Claude(s1, r1, 2, 3, 1, FALSE),
    Claude(s1, r2, 3, 4, 2, TRUE), User(s1, 5, 3)>>,
  \* a resumed history that copies a response, a tool result in its branch, and a move of session
  <<Claude(s1, r1, 2, 1, 9, TRUE), Tool(s1, 2, 1), Claude(s1, r2, 1, 3, 2, FALSE),
    Claude(s2, r1, 2, 1, 9, TRUE), Claude(s2, r3, 3, 4, 1, FALSE)>>,
  \* three responses side by side: one more than may stay open
  <<Claude(s1, r1, 1, 1, 9, FALSE), Claude(s1, r2, 2, 2, 9, FALSE), Claude(s1, r3, 3, 3, 9, FALSE)>>,
  \* a line longer than the partial-line bound between two responses
  <<Claude(s1, r1, 1, 1, 9, TRUE), Overlong, Claude(s1, r2, 2, 2, 1, TRUE)>>,
  \* responses without ids after an overlong line, the first with an extracted reference
  <<Overlong, WithRef(Anon(s1, r1, 1, 1, 9)), Anon(s1, r2, 2, 2, 1)>>,
  \* a move of session that closes more responses than the sink remembers, with a reference after them
  <<Claude(s1, r1, 1, 1, 9, FALSE), Claude(s1, r2, 2, 2, 9, FALSE), WithRef(Claude(s2, r3, 3, 3, 9, TRUE))>> }

\* Each line with the offset after it.
EndAt(t, i) == FoldLeft(LAMBDA n, rec : n + rec.len, 0, SubSeq(t, 1, i))
MCScripts ==
  {[i \in DOMAIN t |-> [f \in {"k", "s", "r", "n", "u", "p", "fin", "x", "end"} |->
                         IF f = "end" THEN EndAt(t, i) ELSE t[i][f]]] : t \in Transcripts}

====
