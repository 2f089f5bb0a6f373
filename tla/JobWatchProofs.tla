--------------------------- MODULE JobWatchProofs ---------------------------
(* Proofs about JobWatch, for any steps, attempts and limits: a watch that is *)
(* told the end of a job has every document that its cursors could not hide. *)
EXTENDS JobWatch, SequenceTheorems, FiniteSetTheorems, TLAPS

-----------------------------------------------------------------------------
(* What a sequence of frames tells.                                        *)

Frame == Step \cup {End, Overflow}
Spot == [at : Nat, id : Nat]

(* The documents in front of a place of a sequence, the one there included, *)
(* and in all of it.                                                        *)
Upto(seq, p) == {seq[q].id : q \in 1..p} \ {0}
Named(seq) == {seq[q].id : q \in 1..Len(seq)} \ {0}

(* Of the documents F a reader who has S lacks none, or only those behind  *)
(* pos.                                                                    *)
Whole(F, S) == \A s \in F : s.id \in S
Past(F, S, pos) == \A s \in F : s.id \in S \/ Before(pos, s)

(* Whoever takes the frames of seq in their order lacks no document that is *)
(* not behind the last one taken, and none at the end.                      *)
Told(F, S, frame) ==
    /\ frame = End => Whole(F, S)
    /\ frame.id # 0 => Past(F, S, frame)
InLine(F, seq, S) ==
    \A p \in 1..Len(seq) : Told(F, S \cup Upto(seq, p), seq[p])

(* The steps in a sequence are rows of the table R.                         *)
Drawn(R, seq) == \A p \in 1..Len(seq) : seq[p].id # 0 => seq[p] \in R

\* Who has more lacks less.
LEMMA ToldMore ==
    ASSUME NEW F, NEW S, NEW T, NEW frame, Told(F, S, frame),
           \A s \in F : s.id \in S => s.id \in T
    PROVE  Told(F, T, frame)
BY DEF Told, Whole, Past

\* The same of all the frames of a sequence.
LEMMA InLineMore ==
    ASSUME NEW F, NEW S, NEW T, NEW seq, InLine(F, seq, S),
           \A s \in F : s.id \in S => s.id \in T
    PROVE  InLine(F, seq, T)
<1>1. ASSUME NEW p \in 1..Len(seq)
      PROVE  Told(F, T \cup Upto(seq, p), seq[p])
  <2>1. Told(F, S \cup Upto(seq, p), seq[p])
    BY <1>1 DEF InLine
  <2> QED
    BY <2>1, ToldMore
<1> QED
  BY <1>1 DEF InLine

\* A frame is added behind the others.
LEMMA InLineAppend ==
    ASSUME NEW F, NEW S, NEW seq \in Seq(Frame), NEW frame \in Frame,
           InLine(F, seq, S),
           Told(F, S \cup Named(seq) \cup ({frame.id} \ {0}), frame)
    PROVE  InLine(F, Append(seq, frame), S)
<1> DEFINE more == Append(seq, frame)
<1>1. /\ Len(seq) \in Nat /\ Len(more) = Len(seq) + 1
      /\ \A q \in 1..Len(seq) : more[q] = seq[q]
      /\ more[Len(more)] = frame
  BY AppendProperties
<1>2. ASSUME NEW p \in 1..Len(more)
      PROVE  Told(F, S \cup Upto(more, p), more[p])
  <2>1. CASE p \in 1..Len(seq)
    <3>1. Upto(more, p) = Upto(seq, p) /\ more[p] = seq[p]
      BY <1>1, <2>1 DEF Upto
    <3>2. Told(F, S \cup Upto(seq, p), seq[p])
      BY <2>1 DEF InLine
    <3> QED
      BY <3>1, <3>2
  <2>2. CASE p = Len(more)
    <3>1. Upto(more, p) = Named(seq) \cup ({frame.id} \ {0})
      BY <1>1, <2>2 DEF Upto, Named
    <3> QED
      BY <1>1, <2>2, <3>1, ToldMore
  <2> QED
    BY <1>1, <2>1, <2>2
<1> HIDE DEF more
<1>3. InLine(F, more, S)
  BY <1>2 DEF InLine
<1> QED
  BY <1>3 DEF more

\* The first frame is taken.
LEMMA InLineTail ==
    ASSUME NEW F, NEW S, NEW seq \in Seq(Frame), seq # << >>,
           InLine(F, seq, S)
    PROVE  /\ Told(F, S \cup ({Head(seq).id} \ {0}), Head(seq))
           /\ InLine(F, Tail(seq), S \cup ({Head(seq).id} \ {0}))
<1> DEFINE rest == Tail(seq)
           T == S \cup ({Head(seq).id} \ {0})
<1>1. /\ Len(seq) \in Nat /\ Len(seq) >= 1 /\ Head(seq) = seq[1]
      /\ Len(rest) = Len(seq) - 1
      /\ \A q \in 1..Len(rest) : rest[q] = seq[q + 1]
  BY HeadTailProperties, LenProperties
<1>2. Told(F, T, Head(seq))
  <2>1. Upto(seq, 1) = {Head(seq).id} \ {0}
    BY <1>1 DEF Upto
  <2>2. 1 \in 1..Len(seq)
    BY <1>1
  <2> QED
    BY <1>1, <2>1, <2>2 DEF InLine
<1>3. ASSUME NEW p \in 1..Len(rest)
      PROVE  Told(F, T \cup Upto(rest, p), rest[p])
  <2>1. p + 1 \in 1..Len(seq) /\ rest[p] = seq[p + 1]
    BY <1>1
  <2>2. Upto(seq, p + 1) \subseteq Upto(rest, p) \cup ({Head(seq).id} \ {0})
    <3>1. ASSUME NEW q \in 1..(p + 1), q # 1
          PROVE  seq[q].id \in {rest[r].id : r \in 1..p}
      <4>1. q - 1 \in 1..p /\ q - 1 \in 1..Len(rest) /\ (q - 1) + 1 = q
        BY <1>1, <3>1
      <4>2. rest[q - 1] = seq[q]
        BY <1>1, <4>1
      <4> QED
        BY <4>1, <4>2
    <3> QED
      BY <1>1, <3>1 DEF Upto
  <2>3. Told(F, S \cup Upto(seq, p + 1), seq[p + 1])
    BY <2>1 DEF InLine
  <2> HIDE DEF T, rest
  <2>4. \A s \in F : s.id \in S \cup Upto(seq, p + 1) => s.id \in T \cup Upto(rest, p)
    BY <2>2 DEF T
  <2> QED
    BY <2>1, <2>3, <2>4, ToldMore
<1> HIDE DEF rest
<1>4. InLine(F, rest, T)
  BY <1>3 DEF InLine
<1> QED
  BY <1>2, <1>4 DEF rest

\* The last frames are lost.
LEMMA InLineCut ==
    ASSUME NEW F, NEW S, NEW seq \in Seq(Frame), NEW n \in 0..Len(seq),
           InLine(F, seq, S)
    PROVE  InLine(F, SubSeq(seq, 1, n), S)
<1> DEFINE part == SubSeq(seq, 1, n)
<1>1. /\ Len(seq) \in Nat /\ n \in Nat /\ Len(part) = n
      /\ \A q \in 1..n : part[q] = seq[q]
  BY LenProperties
<1>2. ASSUME NEW p \in 1..Len(part)
      PROVE  Told(F, S \cup Upto(part, p), part[p])
  <2>1. p \in 1..Len(seq) /\ part[p] = seq[p]
    BY <1>1
  <2>2. Upto(part, p) = Upto(seq, p)
    BY <1>1 DEF Upto
  <2> QED
    BY <2>1, <2>2 DEF InLine
<1> HIDE DEF part
<1>3. InLine(F, part, S)
  BY <1>2 DEF InLine
<1> QED
  BY <1>3 DEF part

\* A document is recorded: it is behind every row there was.
LEMMA InLineGrow ==
    ASSUME NEW F, NEW R, NEW G, NEW new, NEW S, NEW seq, InLine(F, seq, S),
           G \subseteq F \cup {new}, new \in G => \A r \in R : Before(r, new),
           Drawn(R, seq), \A p \in 1..Len(seq) : seq[p] # End
    PROVE  InLine(G, seq, S)
<1>1. ASSUME NEW p \in 1..Len(seq)
      PROVE  Told(G, S \cup Upto(seq, p), seq[p])
  <2>1. Told(F, S \cup Upto(seq, p), seq[p])
    BY DEF InLine
  <2>2. seq[p] # End /\ (seq[p].id # 0 => seq[p] \in R)
    BY DEF Drawn
  <2> QED
    BY <2>1, <2>2 DEF Told, Past
<1> QED
  BY <1>1 DEF InLine

\* Who has a sequence has its first frame and the rest of it.
LEMMA NamedTail ==
    ASSUME NEW seq \in Seq(Frame), seq # << >>
    PROVE  Named(seq) = Named(Tail(seq)) \cup ({Head(seq).id} \ {0})
<1> DEFINE rest == Tail(seq)
<1>1. /\ Len(seq) \in Nat /\ Len(seq) >= 1 /\ Head(seq) = seq[1]
      /\ Len(rest) = Len(seq) - 1
      /\ \A q \in 1..Len(rest) : rest[q] = seq[q + 1]
  BY HeadTailProperties, LenProperties
<1>2. ASSUME NEW q \in 1..Len(seq), q # 1 PROVE seq[q].id \in {rest[r].id : r \in 1..Len(rest)}
  <2>1. q - 1 \in 1..Len(rest) /\ (q - 1) + 1 = q
    BY <1>1, <1>2
  <2>2. rest[q - 1] = seq[q]
    BY <1>1, <2>1
  <2> QED
    BY <2>1, <2>2
<1>3. ASSUME NEW r \in 1..Len(rest) PROVE rest[r].id \in {seq[q].id : q \in 1..Len(seq)}
  <2>1. r + 1 \in 1..Len(seq) /\ rest[r] = seq[r + 1]
    BY <1>1
  <2> QED
    BY <2>1
<1>4. 1 \in 1..Len(seq)
  BY <1>1
<1> HIDE DEF rest
<1>5. {seq[q].id : q \in 1..Len(seq)} = {rest[r].id : r \in 1..Len(rest)} \cup {Head(seq).id}
  <2>1. \A x \in {seq[q].id : q \in 1..Len(seq)} :
          x \in {rest[r].id : r \in 1..Len(rest)} \cup {Head(seq).id}
    BY <1>1, <1>2
  <2>2. \A x \in {rest[r].id : r \in 1..Len(rest)} \cup {Head(seq).id} :
          x \in {seq[q].id : q \in 1..Len(seq)}
    BY <1>1, <1>3, <1>4
  <2> QED
    BY <2>1, <2>2
<1>6. Named(seq) = Named(rest) \cup ({Head(seq).id} \ {0})
  BY <1>5 DEF Named
<1> QED
  BY <1>6 DEF rest

\* Who has a longer sequence has its last frame too.
LEMMA NamedAppend ==
    ASSUME NEW seq \in Seq(Frame), NEW frame \in Frame
    PROVE  Named(Append(seq, frame)) = Named(seq) \cup ({frame.id} \ {0})
<1> DEFINE more == Append(seq, frame)
<1>1. /\ Len(seq) \in Nat /\ Len(more) = Len(seq) + 1
      /\ \A q \in 1..Len(seq) : more[q] = seq[q]
      /\ more[Len(more)] = frame
  BY AppendProperties
<1>2. 1..Len(more) = 1..Len(seq) \cup {Len(more)}
  BY <1>1
<1>3. {more[q].id : q \in 1..Len(more)} = {seq[q].id : q \in 1..Len(seq)} \cup {frame.id}
  BY <1>1, <1>2
<1> QED
  BY <1>3 DEF Named

\* No sequence, no document.
LEMMA NamedEmpty == Named(<< >>) = {}
BY DEF Named

\* Rows stay rows, in what is left, cut or added to.
LEMMA DrawnTail ==
    ASSUME NEW R, NEW seq \in Seq(Frame), seq # << >>, Drawn(R, seq)
    PROVE  Drawn(R, Tail(seq)) /\ (Head(seq).id # 0 => Head(seq) \in R)
<1>1. /\ Len(seq) \in Nat /\ Len(seq) >= 1 /\ Head(seq) = seq[1]
      /\ Len(Tail(seq)) = Len(seq) - 1
      /\ \A q \in 1..Len(Tail(seq)) : Tail(seq)[q] = seq[q + 1]
  BY HeadTailProperties, LenProperties
<1>2. \A q \in 1..Len(Tail(seq)) : q + 1 \in 1..Len(seq)
  BY <1>1
<1>3. 1 \in 1..Len(seq)
  BY <1>1
<1> QED
  BY <1>1, <1>2, <1>3 DEF Drawn

\* The frames in front are rows.
LEMMA DrawnCut ==
    ASSUME NEW R, NEW seq \in Seq(Frame), NEW n \in 0..Len(seq), Drawn(R, seq)
    PROVE  Drawn(R, SubSeq(seq, 1, n))
<1>1. /\ Len(seq) \in Nat /\ n \in Nat /\ Len(SubSeq(seq, 1, n)) = n
      /\ \A q \in 1..n : SubSeq(seq, 1, n)[q] = seq[q]
  BY LenProperties
<1> QED
  BY <1>1 DEF Drawn

\* A row added to rows.
LEMMA DrawnAppend ==
    ASSUME NEW R, NEW seq \in Seq(Frame), NEW frame \in Frame, Drawn(R, seq),
           frame.id # 0 => frame \in R
    PROVE  Drawn(R, Append(seq, frame))
<1>1. /\ Len(seq) \in Nat /\ Len(Append(seq, frame)) = Len(seq) + 1
      /\ \A q \in 1..Len(seq) : Append(seq, frame)[q] = seq[q]
      /\ Append(seq, frame)[Len(seq) + 1] = frame
  BY AppendProperties
<1> QED
  BY <1>1 DEF Drawn

-----------------------------------------------------------------------------
(* The invariant.                                                          *)

(* The steps that no cursor can be past before they are written.           *)
Firm == {steps[k] : k \in {i \in DOMAIN steps : ~Overtaken(i)}}

(* What the watcher has, or has under way to it.                           *)
Going == watch.got \cup Named(wire)

(* A cursor is that of a row, or in front of all.                          *)
Known(R, pos) == pos = Start \/ \E r \in R : pos = Pos(r)

(* What the watcher has was recorded.                                      *)
Are(R, S) == \A i \in S : \E r \in R : r.id = i

Streams == [phase : {"none", "report", "list", "page", "live", "closed"},
            queue : Seq(Step \cup {End}), over : BOOLEAN, seen : SUBSET Ids,
            cursor : Spot, page : Seq(Step), more : BOOLEAN, ended : BOOLEAN]
Watches == [on : {"websocket", "sse", "poll"}, got : SUBSET Ids, cursor : Spot,
            outcome : {"none", "done", "error"}, list : 0..2, at : [1..2 -> Spot],
            ended : BOOLEAN, failures : 0..FailureLimit]

JobTyped ==
    /\ clock \in 1..MaxClock
    /\ job \in [kind : Kinds, status : {"running", "ended"}, attempt : 1..MaxStarts,
                starts : 1..MaxStarts, up : BOOLEAN]
    /\ job.attempt <= job.starts /\ (~job.up => job.starts < MaxStarts)
    /\ steps \in Seq(Step) /\ pending \in Seq(Step \cup {End})
StreamTyped ==
    /\ stream \in Streams
    /\ Len(stream.queue) <= QueueLimit /\ Len(stream.page) <= ReplayLimit
WireTyped == wire \in Seq(Frame) /\ Len(wire) <= WireLimit
WatchTyped ==
    /\ watch \in Watches
    /\ watch.list # 0 => watch.on = "poll" /\ watch.list <= Len(Lists(job.kind))
    /\ Watching => watch.failures < FailureLimit

(* A step has an id of its own, and is of the past.                        *)
StepsDistinct ==
    /\ \A j, k \in DOMAIN steps : steps[j].id = steps[k].id => j = k
    /\ \A k \in DOMAIN steps : steps[k].at <= clock /\ steps[k].attempt <= job.attempt

(* Every copy of a step is the row.                                        *)
Copies ==
    /\ Drawn(Rows, pending) /\ Drawn(Rows, wire)
    /\ Drawn(Rows, stream.queue) /\ Drawn(Rows, stream.page)

(* Nobody tells the end of a job that has not ended.                       *)
Tells(seq) == \E p \in 1..Len(seq) : seq[p] = End
EndTold ==
    \/ Tells(pending) \/ Tells(wire) \/ Tells(stream.queue)
    \/ stream.ended \/ watch.ended \/ watch.outcome = "done"
EndTrue == EndTold => job.status = "ended"

(* What is under way, and where the watcher would go on.                   *)
WireWhole == InLine(Firm, wire, watch.got) /\ (stream.phase = "none" => wire = << >>)
CursorWhole ==
    /\ Known(Rows, watch.cursor) /\ Past(Firm, watch.got, watch.cursor)
    /\ Are(Rows, watch.got)

(* A stream that runs: its replay, and, once the replay has come to its last *)
(* page, the queue behind it and the job's process behind that.              *)
Running == stream.phase \in {"report", "list", "page", "live"}
Replayed == Going \cup Named(stream.page)
Queued == Replayed \cup Named(stream.queue)
CaughtUp == stream.phase = "live" \/ (stream.phase = "page" /\ ~stream.more)
ReplayWhole ==
    Running =>
      /\ stream.seen \subseteq Going
      /\ Known(Rows, stream.cursor) /\ Past(Firm, Replayed, stream.cursor)
      /\ InLine(Firm, stream.page, Going)
      /\ stream.phase # "page" => stream.page = << >>
      /\ stream.phase = "page" /\ ~stream.more /\ stream.ended => Whole(Firm, Replayed)
QueueWhole ==
    CaughtUp /\ ~stream.over =>
      /\ InLine(Firm, stream.queue, Replayed)
      /\ InLine(Firm, pending, Queued)
      /\ Whole(Firm, Queued \cup Named(pending))

(* Polls lack only what is behind the cursors of their listings; the last    *)
(* poll has the first listing when it reads the second.                      *)
PollWhole ==
    watch.on = "poll" =>
      \A l \in 1..Len(Lists(job.kind)) :
        /\ Known(Rows, watch.at[l])
        /\ \A s \in Firm :
             Listed(Lists(job.kind)[l], s) => s.id \in watch.got \/ Before(watch.at[l], s)
FirstWhole ==
    watch.ended /\ watch.list = 2 /\ job.kind = "crawl" =>
      \A s \in Firm : Listed("pages", s) => s.id \in watch.got

IInv ==
    /\ JobTyped /\ StreamTyped /\ WireTyped /\ WatchTyped
    /\ StepsDistinct /\ Copies /\ EndTrue
    /\ WireWhole /\ CursorWhole /\ ReplayWhole /\ QueueWhole /\ PollWhole /\ FirstWhole
    /\ DocumentsComplete

-----------------------------------------------------------------------------
(* A page of the listing.                                                  *)

(* The place of a step among steps R, from zero, and the first size of them.*)
Ahead(R, s) == {t \in R : Before(t, s)}
Rank(R, s) == Cardinality(Ahead(R, s))
First(R, size) == [i \in 1..size |-> CHOOSE s \in R : Cardinality({t \in R : Before(t, s)}) = i - 1]

(* Steps R that are found by their ids.                                    *)
Distinct(R) == \A s, t \in R : s.id = t.id => s = t

\* What the constants are.
LEMMA Constants ==
    /\ Ids \subseteq Nat /\ 0 \notin Ids /\ IsFiniteSet(Ids)
    /\ MaxClock \in Nat /\ MaxStarts \in Nat /\ ReplayLimit \in Nat /\ ListLimit \in Nat
    /\ QueueLimit \in Nat /\ WireLimit \in Nat /\ FailureLimit \in Nat
    /\ MaxClock >= 1 /\ MaxStarts >= 1 /\ ReplayLimit >= 1 /\ ListLimit >= 1
    /\ QueueLimit >= 1 /\ WireLimit >= 1 /\ FailureLimit >= 1
BY WatchAssumption

\* A step's fields are numbers, and its id is not zero.
LEMMA StepFields ==
    \A s \in Step : s.at \in Nat /\ s.id \in Nat /\ s.id # 0 /\ s.id \in Ids /\ s.attempt \in Nat
<1> SUFFICES ASSUME NEW s \in Step
             PROVE  s.at \in Nat /\ s.id \in Nat /\ s.id # 0 /\ s.id \in Ids /\ s.attempt \in Nat
  OBVIOUS
<1>1. s.at \in 1..MaxClock /\ s.id \in Ids /\ s.attempt \in 1..MaxStarts
  BY DEF Step
<1>2. MaxClock \in Nat /\ MaxStarts \in Nat
  BY Constants
<1>3. s.at \in Nat /\ s.attempt \in Nat
  BY <1>1, <1>2
<1>4. s.id \in Nat /\ s.id # 0 /\ s.id \in Ids
  BY <1>1, Constants
<1> QED
  BY <1>3, <1>4

\* Positions are in a strict order.
LEMMA BeforeOrder ==
    /\ \A s \in Step : ~Before(s, s)
    /\ \A s, t, u \in Step : Before(s, t) /\ Before(t, u) => Before(s, u)
    /\ \A s, t \in Step : s.id # t.id => Before(s, t) \/ Before(t, s)
BY StepFields DEF Before

\* Who is in front has a lower rank.
LEMMA RankOrder ==
    ASSUME NEW R \in SUBSET Step, IsFiniteSet(R), NEW s \in R, NEW t \in R, Before(s, t)
    PROVE  Rank(R, s) < Rank(R, t)
<1>1. Ahead(R, s) \in SUBSET Ahead(R, t) /\ s \in Ahead(R, t) /\ s \notin Ahead(R, s)
  BY BeforeOrder DEF Ahead
<1>2. IsFiniteSet(Ahead(R, t)) /\ IsFiniteSet(Ahead(R, s))
  <2>1. Ahead(R, t) \in SUBSET R /\ Ahead(R, s) \in SUBSET R
    BY DEF Ahead
  <2> QED
    BY <2>1, FS_Subset
<1>3. /\ Rank(R, s) <= Rank(R, t)
      /\ Rank(R, s) = Rank(R, t) => Ahead(R, s) = Ahead(R, t)
  BY <1>1, <1>2, FS_Subset DEF Rank
<1>4. Rank(R, s) \in Nat /\ Rank(R, t) \in Nat
  BY <1>2, FS_CardinalityType DEF Rank
<1> QED
  BY <1>1, <1>3, <1>4

\* A rank is one of 0..n-1.
LEMMA RankBound ==
    ASSUME NEW R \in SUBSET Step, IsFiniteSet(R), NEW s \in R
    PROVE  Rank(R, s) \in 0..(Cardinality(R) - 1)
<1>1. Ahead(R, s) \in SUBSET R /\ s \notin Ahead(R, s)
  BY BeforeOrder DEF Ahead
<1>2. /\ IsFiniteSet(Ahead(R, s)) /\ Rank(R, s) <= Cardinality(R)
      /\ Rank(R, s) = Cardinality(R) => Ahead(R, s) = R
  BY <1>1, FS_Subset DEF Rank
<1>3. Rank(R, s) \in Nat /\ Cardinality(R) \in Nat
  BY <1>2, FS_CardinalityType DEF Rank
<1> QED
  BY <1>1, <1>2, <1>3

\* Every rank below n is that of one step.
LEMMA RankFound ==
    ASSUME NEW R \in SUBSET Step, IsFiniteSet(R), Distinct(R),
           NEW k \in 0..(Cardinality(R) - 1)
    PROVE  \E s \in R : Rank(R, s) = k
<1> DEFINE T == 0..(Cardinality(R) - 1)
           f == [s \in R |-> Rank(R, s)]
<1>1. Cardinality(R) \in Nat
  BY FS_CardinalityType
<1>2. IsFiniteSet(T) /\ Cardinality(T) = Cardinality(R)
  <2>1. PICK n \in Nat : n = Cardinality(R)
    BY <1>1
  <2>2. 0 \in Int /\ n - 1 \in Int
    BY <2>1
  <2>3. IsFiniteSet(0..(n - 1)) /\ Cardinality(0..(n - 1)) = IF 0 > n - 1 THEN 0 ELSE n - 1 - 0 + 1
    BY <2>2, FS_Interval
  <2>4. IsFiniteSet(0..(n - 1)) /\ Cardinality(0..(n - 1)) = n
    BY <2>1, <2>3
  <2> QED
    BY <2>1, <2>4
<1>3. f \in [R -> T]
  BY RankBound
<1>4. ASSUME NEW s \in R, NEW t \in R, f[s] = f[t] PROVE s = t
  <2>1. f[s] = Rank(R, s) /\ f[t] = Rank(R, t)
    OBVIOUS
  <2>2. f[s] \in Nat /\ f[t] \in Nat
    BY <1>1, <1>3
  <2>3. ~Before(s, t) /\ ~Before(t, s)
    BY <1>4, <2>1, <2>2, RankOrder
  <2> QED
    BY <2>3, BeforeOrder DEF Distinct
<1>5. f \in Injection(R, T)
  BY <1>3, <1>4 DEF Injection, IsInjective
<1>6. f \in Surjection(R, T)
  BY <1>2, <1>5, FS_Injection
<1> QED
  BY <1>6 DEF Surjection


\* The first size of the steps R, each at the place of its rank.
LEMMA FirstPlaces ==
    ASSUME NEW R \in SUBSET Step, IsFiniteSet(R), Distinct(R),
           NEW size \in 0..Cardinality(R)
    PROVE  /\ First(R, size) \in Seq(Step) /\ Len(First(R, size)) = size
           /\ \A p \in 1..size : First(R, size)[p] \in R /\ Rank(R, First(R, size)[p]) = p - 1
<1> DEFINE page == First(R, size)
<1>1. Cardinality(R) \in Nat
  BY FS_CardinalityType
<1>2. size \in Nat
  BY <1>1
<1>3. ASSUME NEW p \in 1..size PROVE page[p] \in R /\ Rank(R, page[p]) = p - 1
  <2>1. p - 1 \in 0..(Cardinality(R) - 1)
    BY <1>1, <1>2
  <2>2. \E s \in R : Rank(R, s) = p - 1
    BY <2>1, RankFound
  <2>3. page[p] = CHOOSE s \in R : Rank(R, s) = p - 1
    BY DEF First, Rank, Ahead
  <2> QED
    BY <2>2, <2>3
<1>4. page = [i \in 1..size |-> page[i]]
  BY DEF First
<1>5. \A p \in 1..size : page[p] \in Step
  BY <1>3
<1> HIDE DEF page
<1>6. page \in [1..size -> Step]
  BY <1>4, <1>5
<1>7. page \in Seq(Step) /\ Len(page) = size
  BY <1>2, <1>6
<1> QED
  BY <1>3, <1>7 DEF page

\* A page is in the order of positions, and leaves nothing out in front of its
\* last step; a page of all of them leaves nothing out.
LEMMA FirstLine ==
    ASSUME NEW R \in SUBSET Step, IsFiniteSet(R), Distinct(R),
           NEW size \in 0..Cardinality(R)
    PROVE  /\ \A p \in 1..size : \A s \in R :
                s.id \in Upto(First(R, size), p) \/ Before(First(R, size)[p], s)
           /\ size = Cardinality(R) => \A s \in R : s.id \in Named(First(R, size))
<1> DEFINE page == First(R, size)
<1>1. Cardinality(R) \in Nat /\ size \in Nat
  BY FS_CardinalityType
<1>2. \A p \in 1..size : page[p] \in R /\ Rank(R, page[p]) = p - 1
  BY FirstPlaces
<1>3. Len(page) = size
  BY FirstPlaces
<1> HIDE DEF page
<1>4. ASSUME NEW s \in R, NEW q \in 1..size, Rank(R, s) = q - 1
      PROVE  page[q] = s
  <2>1. page[q] \in R /\ Rank(R, page[q]) = q - 1
    BY <1>2
  <2>2. Rank(R, s) \in Nat /\ ~(Rank(R, s) < Rank(R, page[q])) /\ ~(Rank(R, page[q]) < Rank(R, s))
    BY <1>4, <2>1
  <2>3. ~Before(s, page[q]) /\ ~Before(page[q], s)
    BY <2>1, <2>2, RankOrder
  <2> QED
    BY <2>1, <2>3, BeforeOrder DEF Distinct
<1>5. ASSUME NEW p \in 1..size, NEW s \in R
      PROVE  s.id \in Upto(page, p) \/ Before(page[p], s)
  <2>1. PICK k \in Nat : k = Rank(R, s)
    BY <1>1, RankBound
  <2>2. CASE k < p
    <3>1. k + 1 \in 1..size /\ k + 1 \in 1..p /\ k = (k + 1) - 1
      BY <1>1, <2>1, <2>2
    <3>2. page[k + 1] = s
      BY <1>4, <2>1, <3>1
    <3>3. s.id # 0
      BY StepFields
    <3> QED
      BY <3>1, <3>2, <3>3 DEF Upto
  <2>3. CASE ~(k < p)
    <3>1. page[p] \in R /\ Rank(R, page[p]) = p - 1
      BY <1>2
    <3>2. ~(Rank(R, s) < Rank(R, page[p])) /\ Rank(R, s) # Rank(R, page[p])
      BY <1>1, <2>1, <2>3, <3>1
    <3>3. ~Before(s, page[p]) /\ s # page[p]
      BY <3>1, <3>2, RankOrder
    <3> QED
      BY <3>1, <3>3, BeforeOrder DEF Distinct
  <2> QED
    BY <2>2, <2>3
<1>6. ASSUME size = Cardinality(R), NEW s \in R PROVE s.id \in Named(page)
  <2>1. PICK k \in Nat : k = Rank(R, s)
    BY <1>1, RankBound
  <2>2. k \in 0..(size - 1)
    BY <1>6, <2>1, RankBound
  <2>3. k + 1 \in 1..size /\ k = (k + 1) - 1
    BY <1>1, <2>2
  <2>4. page[k + 1] = s
    BY <1>4, <2>1, <2>3
  <2>5. s.id # 0
    BY StepFields
  <2> QED
    BY <1>3, <2>3, <2>4, <2>5 DEF Named
<1> QED
  BY <1>5, <1>6 DEF page


-----------------------------------------------------------------------------
(* The state of the job.                                                   *)

\* The steps are finitely many rows, found by their ids.
LEMMA RowsFacts ==
    ASSUME JobTyped, StepsDistinct
    PROVE  /\ Rows \in SUBSET Step /\ IsFiniteSet(Rows) /\ Distinct(Rows)
           /\ Firm \subseteq Rows
           /\ Len(steps) \in Nat /\ Len(steps) <= Cardinality(Ids)
<1>1. /\ Len(steps) \in Nat /\ DOMAIN steps = 1..Len(steps)
      /\ \A k \in 1..Len(steps) : steps[k] \in Step
  BY DEF JobTyped
<1>2. Rows \in SUBSET Step
  BY <1>1 DEF Rows
<1>3. Distinct(Rows)
  BY DEF Rows, Distinct, StepsDistinct
<1>4. IsFiniteSet(Rows)
  <2> DEFINE f == [r \in Rows |-> r.id]
  <2>1. f \in [Rows -> Ids]
    BY <1>2, StepFields
  <2>2. \A r, t \in Rows : f[r] = f[t] => r = t
    BY <1>3 DEF Distinct
  <2>3. f \in Injection(Rows, Ids)
    BY <2>1, <2>2 DEF Injection, IsInjective
  <2>4. IsFiniteSet(Ids)
    BY Constants
  <2> QED
    BY <2>3, <2>4, FS_Injection
<1>5. Len(steps) <= Cardinality(Ids)
  <2> DEFINE f == [k \in 1..Len(steps) |-> steps[k].id]
  <2>1. f \in [1..Len(steps) -> Ids]
    BY <1>1, StepFields
  <2>2. \A j, k \in 1..Len(steps) : f[j] = f[k] => j = k
    BY <1>1 DEF StepsDistinct
  <2>3. f \in Injection(1..Len(steps), Ids)
    BY <2>1, <2>2 DEF Injection, IsInjective
  <2>4. IsFiniteSet(Ids)
    BY Constants
  <2>5. Cardinality(1..Len(steps)) <= Cardinality(Ids)
    BY <2>3, <2>4, FS_Injection
  <2>6. Cardinality(1..Len(steps)) = Len(steps)
    <3>1. PICK n \in Nat : n = Len(steps)
      BY <1>1
    <3>2. Cardinality(1..n) = IF 1 > n THEN 0 ELSE n - 1 + 1
      BY FS_Interval
    <3>3. Cardinality(1..n) = n
      BY <3>1, <3>2
    <3> QED
      BY <3>1, <3>3
  <2> QED
    BY <2>5, <2>6
<1>6. Firm \subseteq Rows
  BY DEF Firm, Rows
<1> QED
  BY <1>1, <1>2, <1>3, <1>4, <1>5, <1>6

\* What a listing from a cursor returns.
LEMMA PageFacts ==
    ASSUME JobTyped, StepsDistinct, NEW list, NEW cursor, NEW limit \in Nat, limit >= 1,
           NEW page, page = Page(list, cursor, limit)
    PROVE  /\ page \in Seq(Step) /\ Len(page) <= limit
           /\ \A p \in 1..Len(page) : page[p] \in Rows
           /\ \A s \in Rows : Listed(list, s) /\ Before(cursor, s) =>
                \A p \in 1..Len(page) : s.id \in Upto(page, p) \/ Before(page[p], s)
           /\ page = << >> \/ ~HasMore(list, cursor, limit) =>
                \A s \in Rows : Listed(list, s) /\ Before(cursor, s) => s.id \in Named(page)
<1> DEFINE R == Found(list, cursor)
           n == Cardinality(R)
           size == IF n > limit THEN limit ELSE n
<1>1. R \in SUBSET Rows
  BY DEF Found
<1>2. R \in SUBSET Step /\ IsFiniteSet(R) /\ Distinct(R)
  <2>1. Rows \in SUBSET Step /\ IsFiniteSet(Rows) /\ Distinct(Rows)
    BY RowsFacts
  <2>2. IsFiniteSet(R)
    BY <1>1, <2>1, FS_Subset
  <2>3. Distinct(R)
    BY <1>1, <2>1 DEF Distinct
  <2> QED
    BY <1>1, <2>1, <2>2, <2>3
<1>3. n \in Nat
  BY <1>2, FS_CardinalityType
<1>4. page = First(R, size)
  BY DEF Page, First
<1>5. \A s \in Rows : s \in R <=> Listed(list, s) /\ Before(cursor, s)
  BY DEF Found
<1>6. HasMore(list, cursor, limit) <=> n > limit
  BY DEF HasMore
<1>7. n = 0 => R = {}
  BY <1>2, FS_EmptySet
<1> HIDE DEF R
<1>8. size \in 0..n /\ size <= limit /\ (~(n > limit) => size = n) /\ (size = 0 => n = 0)
  BY <1>3
<1> HIDE DEF n, size
<1>9. size \in 0..Cardinality(R)
  BY <1>8 DEF n
<1>10. /\ page \in Seq(Step) /\ Len(page) = size
       /\ \A p \in 1..size : page[p] \in R
  BY <1>2, <1>4, <1>9, FirstPlaces
<1>11. /\ \A p \in 1..size : \A s \in R : s.id \in Upto(page, p) \/ Before(page[p], s)
       /\ size = n => \A s \in R : s.id \in Named(page)
  BY <1>2, <1>4, <1>9, FirstLine DEF n
<1>12. page = << >> => R = {}
  BY <1>7, <1>8, <1>10
<1> QED
  BY <1>1, <1>5, <1>6, <1>8, <1>10, <1>11, <1>12

\* The ids of a page, and the place behind it.
LEMMA PageEnd ==
    ASSUME NEW page \in Seq(Step)
    PROVE  /\ {page[k].id : k \in DOMAIN page} = Named(page) /\ Named(page) \subseteq Ids
           /\ page # << >> => /\ Len(page) \in 1..Len(page) /\ Last(page) = page[Len(page)]
                              /\ Upto(page, Len(page)) = Named(page)
<1>1. DOMAIN page = 1..Len(page) /\ Len(page) \in Nat /\ \A p \in 1..Len(page) : page[p] \in Step
  OBVIOUS
<1>2. \A p \in 1..Len(page) : page[p].id \in Ids /\ page[p].id # 0
  BY <1>1, StepFields
<1>3. page # << >> => Len(page) >= 1
  BY <1>1
<1> QED
  BY <1>1, <1>2, <1>3 DEF Named, Upto, Last


\* What a frame is.
LEMMA Frames ==
    /\ End \in Frame /\ Overflow \in Frame /\ Step \subseteq Frame
    /\ End.id = 0 /\ Overflow.id = 0 /\ End # Overflow
    /\ \A frame \in Frame : frame.id # 0 => frame \in Step
    /\ \A s \in Step : s # End /\ s # Overflow
    /\ \A seq : seq \in Seq(Step) \/ seq \in Seq(Step \cup {End}) => seq \in Seq(Frame)
<1>1. End.id = 0 /\ Overflow.id = 0 /\ End.attempt = 0 /\ Overflow.attempt = 1
  BY DEF End, Overflow
<1>2. \A s \in Step : s.id # 0
  BY StepFields
<1>3. Step \subseteq Frame /\ Step \cup {End} \subseteq Frame /\ End \in Frame /\ Overflow \in Frame
  BY DEF Frame
<1>4. \A seq : seq \in Seq(Step) \/ seq \in Seq(Step \cup {End}) => seq \in Seq(Frame)
  <2>1. Step \cup {End} \subseteq Frame
    BY <1>3
  <2>2. \A seq \in Seq(Step) : \A p \in 1..Len(seq) : seq[p] \in Frame
    BY <1>3
  <2>3. \A seq \in Seq(Step \cup {End}) : \A p \in 1..Len(seq) : seq[p] \in Frame
    BY <1>3
  <2> QED
    BY <2>2, <2>3
<1>5. \A frame \in Frame : frame.id # 0 => frame \in Step
  BY <1>1 DEF Frame
<1> QED
  BY <1>1, <1>2, <1>3, <1>4, <1>5

\* A part of the invariant stands while nothing it is about has changed.
LEMMA Unmoved ==
    ASSUME IInv
    PROVE  /\ UNCHANGED << clock, job, steps, pending >> => JobTyped'
           /\ UNCHANGED stream => StreamTyped'
           /\ UNCHANGED wire => WireTyped'
           /\ UNCHANGED watch /\ job'.kind = job.kind => WatchTyped'
           /\ UNCHANGED << clock, steps >> /\ job'.attempt = job.attempt => StepsDistinct'
           /\ UNCHANGED << steps, pending, wire, stream >> => Copies'
           /\ UNCHANGED << pending, wire, stream, watch >> /\ job'.status = job.status => EndTrue'
           /\ UNCHANGED << steps, wire >> /\ watch'.got = watch.got /\ stream'.phase = stream.phase
                => WireWhole'
           /\ UNCHANGED << steps, watch >> => CursorWhole'
           /\ UNCHANGED << steps, wire, stream >> /\ watch'.got = watch.got => ReplayWhole'
           /\ UNCHANGED << steps, pending, wire, stream >> /\ watch'.got = watch.got => QueueWhole'
           /\ UNCHANGED << steps, watch >> /\ job'.kind = job.kind /\ job'.attempt = job.attempt
                => PollWhole' /\ FirstWhole'
           /\ UNCHANGED << steps, watch >> /\ job'.kind = job.kind /\ job'.attempt = job.attempt
                /\ job'.status = job.status => DocumentsComplete'
<1>1. UNCHANGED steps => Rows' = Rows /\ Firm' = Firm
  BY DEF Rows, Firm, Overtaken
<1>2. UNCHANGED << clock, job, steps, pending >> => JobTyped'
  BY DEF IInv, JobTyped
<1>3. UNCHANGED stream => StreamTyped'
  BY DEF IInv, StreamTyped
<1>4. UNCHANGED wire => WireTyped'
  BY DEF IInv, WireTyped
<1>5. UNCHANGED watch /\ job'.kind = job.kind => WatchTyped'
  BY DEF IInv, WatchTyped, Watching
<1>6. UNCHANGED << clock, steps >> /\ job'.attempt = job.attempt => StepsDistinct'
  BY DEF IInv, StepsDistinct
<1>7. UNCHANGED << steps, pending, wire, stream >> => Copies'
  BY <1>1 DEF IInv, Copies
<1>8. UNCHANGED << pending, wire, stream, watch >> /\ job'.status = job.status => EndTrue'
  BY DEF IInv, EndTrue, EndTold
<1>9. UNCHANGED << steps, wire >> /\ watch'.got = watch.got /\ stream'.phase = stream.phase
        => WireWhole'
  BY <1>1 DEF IInv, WireWhole
<1>10. UNCHANGED << steps, watch >> => CursorWhole'
  BY <1>1 DEF IInv, CursorWhole
<1>11. UNCHANGED << steps, wire, stream >> /\ watch'.got = watch.got => ReplayWhole'
  BY <1>1 DEF IInv, ReplayWhole, Running, Replayed, Going
<1>12. UNCHANGED << steps, pending, wire, stream >> /\ watch'.got = watch.got => QueueWhole'
  BY <1>1 DEF IInv, QueueWhole, CaughtUp, Queued, Replayed, Going
<1>13. ASSUME UNCHANGED << steps, watch >>, job'.kind = job.kind, job'.attempt = job.attempt
       PROVE  PollWhole' /\ FirstWhole'
  <2>1. \A list, s : Listed(list, s)' <=> Listed(list, s)
    BY <1>13 DEF Listed
  <2>2. PollWhole'
    BY <1>1, <1>13, <2>1 DEF IInv, PollWhole
  <2>3. FirstWhole'
    BY <1>1, <1>13, <2>1 DEF IInv, FirstWhole
  <2> QED
    BY <2>2, <2>3
<1>14. UNCHANGED << steps, watch >> /\ job'.kind = job.kind /\ job'.attempt = job.attempt
         /\ job'.status = job.status => DocumentsComplete'
  BY DEF IInv, DocumentsComplete, Overtaken
<1> QED
  BY <1>2, <1>3, <1>4, <1>5, <1>6, <1>7, <1>8, <1>9, <1>10, <1>11, <1>12, <1>13, <1>14


-----------------------------------------------------------------------------
(* The steps of the job keep the invariant.                                *)

\* Nothing is written at first, and nobody is told anything.
LEMMA InitInv == Init => IInv
<1> SUFFICES ASSUME Init PROVE IInv
  OBVIOUS
<1>1. steps = << >> /\ pending = << >> /\ wire = << >> /\ clock = 1 /\ stream = NoStream
  BY DEF Init
<1>2. Rows = {} /\ Firm = {}
  BY <1>1 DEF Rows, Firm
<1>3. \A seq : InLine({}, seq, {})
  BY DEF InLine, Told, Whole, Past
<1>4. JobTyped
  <2>1. 1 \in 1..MaxClock /\ 1 \in 1..MaxStarts
    BY Constants
  <2>2. job \in [kind : Kinds, status : {"running"}, attempt : {1}, starts : {1}, up : {TRUE}]
    BY DEF Init
  <2>3. /\ job \in [kind : Kinds, status : {"running", "ended"}, attempt : 1..MaxStarts,
                     starts : 1..MaxStarts, up : BOOLEAN]
        /\ job.attempt = 1 /\ job.starts = 1 /\ job.up
    BY <2>1, <2>2
  <2>4. << >> \in Seq(Step) /\ << >> \in Seq(Step \cup {End})
    OBVIOUS
  <2> QED
    BY <1>1, <2>1, <2>3, <2>4 DEF JobTyped
<1>5. StreamTyped
  <2>1. NoStream \in Streams
    BY DEF NoStream, Streams, Spot, Start
  <2>2. NoStream.queue = << >> /\ NoStream.page = << >> /\ Len(<< >>) = 0
    BY DEF NoStream
  <2> QED
    BY <1>1, <2>1, <2>2, Constants DEF StreamTyped
<1>6. WireTyped
  BY <1>1, Constants DEF WireTyped
<1>7. WatchTyped
  <2>1. Start \in Spot
    BY DEF Start, Spot
  <2>2. << Start, Start >> \in [1..2 -> Spot]
    BY <2>1
  <2>3. 0 \in 0..FailureLimit /\ 0 < FailureLimit
    BY Constants
  <2> QED
    BY <2>1, <2>2, <2>3 DEF Init, WatchTyped, Watches, Watching
<1>8. StepsDistinct
  BY <1>1 DEF StepsDistinct
<1>9. Copies
  BY <1>1 DEF Copies, Drawn, NoStream
<1>10. EndTrue
  BY <1>1 DEF Init, EndTrue, EndTold, Tells, NoStream
<1>11. WireWhole /\ CursorWhole
  <2>1. InLine(Firm, wire, watch.got)
    BY <1>1, <1>2 DEF InLine
  <2> QED
    BY <1>1, <1>2, <2>1 DEF Init, WireWhole, CursorWhole, Known, Past, Are
<1>12. ReplayWhole /\ QueueWhole
  BY <1>1 DEF ReplayWhole, QueueWhole, Running, CaughtUp, NoStream
<1>13. PollWhole /\ FirstWhole /\ DocumentsComplete
  BY DEF Init, PollWhole, FirstWhole, DocumentsComplete
<1> QED
  BY <1>4, <1>5, <1>6, <1>7, <1>8, <1>9, <1>10, <1>11, <1>12, <1>13 DEF IInv

\* A millisecond goes by.
LEMMA TickKeeps == IInv /\ Tick => IInv'
<1> SUFFICES ASSUME IInv, Tick PROVE IInv'
  OBVIOUS
<1>1. UNCHANGED << job, steps, pending, stream, wire, watch >> /\ clock' = clock + 1
      /\ clock < MaxClock
  BY DEF Tick
<1>2. clock \in 1..MaxClock /\ MaxClock \in Nat
  BY Constants DEF IInv, JobTyped
<1>3. JobTyped'
  BY <1>1, <1>2 DEF IInv, JobTyped
<1>4. StepsDistinct'
  <2>1. \A k \in DOMAIN steps : steps[k] \in Step
    BY DEF IInv, JobTyped
  <2>2. \A k \in DOMAIN steps : steps[k].at \in Nat /\ steps[k].at <= clock
    BY <2>1, StepFields DEF IInv, StepsDistinct
  <2>3. \A k \in DOMAIN steps : steps[k].at <= clock + 1
    BY <1>2, <2>2
  <2> QED
    BY <1>1, <2>3 DEF IInv, StepsDistinct
<1> QED
  BY <1>1, <1>3, <1>4, Unmoved DEF IInv

\* The job ends: it is told behind all its documents.
LEMMA EndJobKeeps == IInv /\ EndJob => IInv'
<1> SUFFICES ASSUME IInv, EndJob PROVE IInv'
  OBVIOUS
<1>1. UNCHANGED << clock, steps, stream, wire, watch >> /\ pending' = Append(pending, End)
      /\ job' = [job EXCEPT !.status = "ended"]
  BY DEF EndJob
<1>2. /\ job'.status = "ended" /\ job'.kind = job.kind /\ job'.attempt = job.attempt
      /\ job'.up = job.up /\ job'.starts = job.starts
  BY <1>1 DEF IInv, JobTyped
<1>3. pending \in Seq(Step \cup {End}) /\ pending \in Seq(Frame)
  BY Frames DEF IInv, JobTyped
<1>4. JobTyped'
  <2>1. pending' \in Seq(Step \cup {End})
    BY <1>1, <1>3
  <2> HIDE DEF Append
  <2> QED
    BY <1>1, <2>1 DEF IInv, JobTyped
<1>5. Rows' = Rows /\ Firm' = Firm
  BY <1>1 DEF Rows, Firm, Overtaken
<1>6. Copies'
  <2>1. Drawn(Rows, Append(pending, End))
    BY <1>3, Frames, DrawnAppend DEF IInv, Copies
  <2> QED
    BY <1>1, <1>5, <2>1 DEF IInv, Copies
<1>7. EndTrue'
  BY <1>2 DEF EndTrue
<1>8. QueueWhole'
  <2> SUFFICES ASSUME CaughtUp, ~stream.over PROVE QueueWhole'
    BY <1>1 DEF QueueWhole, CaughtUp
  <2>1. /\ InLine(Firm, stream.queue, Replayed) /\ InLine(Firm, pending, Queued)
        /\ Whole(Firm, Queued \cup Named(pending))
    BY DEF IInv, QueueWhole
  <2>2. Told(Firm, Queued \cup Named(pending) \cup ({End.id} \ {0}), End)
    BY <2>1, Frames DEF Told, Whole
  <2>3. InLine(Firm, Append(pending, End), Queued)
    BY <1>3, <2>1, <2>2, Frames, InLineAppend
  <2>4. Named(Append(pending, End)) = Named(pending) \cup ({End.id} \ {0})
    BY <1>3, Frames, NamedAppend
  <2>5. Whole(Firm, Queued \cup Named(Append(pending, End)))
    BY <2>1, <2>4 DEF Whole
  <2>6. Queued' = Queued /\ Replayed' = Replayed
    BY <1>1 DEF Queued, Replayed, Going
  <2> QED
    BY <1>1, <1>5, <2>1, <2>3, <2>5, <2>6 DEF QueueWhole
<1>9. DocumentsComplete'
  BY <1>1, <1>2 DEF IInv, DocumentsComplete, Overtaken
<1> QED
  BY <1>1, <1>2, <1>4, <1>6, <1>7, <1>8, <1>9, Unmoved DEF IInv


\* A new document is behind every cursor, or is not firm.
LEMMA PastGrow ==
    ASSUME NEW F, NEW R, NEW G, NEW new \in Step, NEW S, NEW pos, Known(R, pos), Past(F, S, pos),
           G \subseteq F \cup {new}, new \in G => \A r \in R : Before(r, new)
    PROVE  Past(G, S, pos)
<1>1. new \in G => Before(pos, new)
  <2>1. Before(Start, new)
    <3>1. new.at \in 1..MaxClock /\ MaxClock \in Nat
      BY Constants DEF Step
    <3> QED
      BY <3>1 DEF Start, Before
  <2>2. \A r : Before(r, new) => Before(Pos(r), new)
    BY DEF Before, Pos
  <2> QED
    BY <2>1, <2>2 DEF Known
<1> QED
  BY <1>1 DEF Past

\* More rows, more of what is drawn from them.
LEMMA MoreRows ==
    ASSUME NEW R, NEW Q, R \subseteq Q
    PROVE  /\ \A seq : Drawn(R, seq) => Drawn(Q, seq)
           /\ \A pos : Known(R, pos) => Known(Q, pos)
           /\ \A S : Are(R, S) => Are(Q, S)
BY DEF Drawn, Known, Are

\* The rows with one more; it is firm only behind all of them.
LEMMA RecordFacts ==
    ASSUME IInv, NEW i \in Ids, Record(i), NEW s,
           s = [id |-> i, at |-> clock, attempt |-> job.attempt]
    PROVE  /\ s \in Step /\ s.id = i /\ s # End
           /\ steps' = Append(steps, s) /\ pending' = Append(pending, s)
           /\ UNCHANGED << clock, job, stream, wire, watch >>
           /\ Rows' = Rows \cup {s}
           /\ Firm' \subseteq Firm \cup {s}
           /\ s \in Firm' => \A r \in Rows : Before(r, s)
<1>1. /\ steps' = Append(steps, s) /\ pending' = Append(pending, s)
      /\ UNCHANGED << clock, job, stream, wire, watch >>
      /\ \A k \in DOMAIN steps : steps[k].id # i
  BY DEF Record
<1>2. s \in Step /\ s.id = i /\ s.at = clock
  BY DEF IInv, JobTyped, Step
<1>3. s # End
  BY <1>2, Frames
<1>4. /\ Len(steps) \in Nat /\ DOMAIN steps = 1..Len(steps)
      /\ \A k \in 1..Len(steps) : steps[k] \in Step
  BY DEF IInv, JobTyped
<1>5. /\ Len(steps') = Len(steps) + 1 /\ DOMAIN steps' = 1..(Len(steps) + 1)
      /\ \A k \in 1..Len(steps) : steps'[k] = steps[k]
      /\ steps'[Len(steps) + 1] = s
  <2>1. steps \in Seq(Step)
    BY DEF IInv, JobTyped
  <2>2. Append(steps, s) \in Seq(Step) /\ Len(Append(steps, s)) = Len(steps) + 1
    BY <1>2, <2>1, AppendProperties
  <2> QED
    BY <1>1, <1>2, <1>4, <2>1, <2>2, AppendProperties
<1> DEFINE n == Len(steps)
<1>6. DOMAIN steps' = DOMAIN steps \cup {n + 1}
  BY <1>4, <1>5
<1>7. Rows' = Rows \cup {s}
  BY <1>4, <1>5, <1>6 DEF Rows
<1>8. \A k \in 1..n : Overtaken(k)' <=> Overtaken(k)
  BY <1>4, <1>5 DEF Overtaken
<1>9. Firm' \subseteq Firm \cup {s}
  BY <1>4, <1>5, <1>6, <1>8 DEF Firm
<1>10. s \in Firm' => \A r \in Rows : Before(r, s)
  <2> SUFFICES ASSUME s \in Firm', NEW r \in Rows PROVE Before(r, s)
    OBVIOUS
  <2>1. PICK k \in DOMAIN steps' : s = steps'[k] /\ ~Overtaken(k)'
    BY DEF Firm
  <2>2. k = n + 1
    BY <1>1, <1>2, <1>4, <1>5, <2>1
  <2>3. PICK j \in 1..n : r = steps[j]
    BY <1>4 DEF Rows
  <2>4. r \in Step /\ r.at <= clock /\ r.id # i
    BY <1>1, <1>4, <2>3 DEF IInv, StepsDistinct
  <2>5. j \in 1..(k - 1) /\ steps'[j] = r /\ steps'[k] = s
    BY <1>4, <1>5, <2>2, <2>3
  <2>6. ~(r.at = s.at /\ s.id < r.id)
    BY <2>1, <2>5 DEF Overtaken
  <2>7. s.at \in Nat /\ r.at \in Nat /\ s.id \in Nat /\ r.id \in Nat
    BY <1>2, <2>4, StepFields
  <2> QED
    BY <1>2, <2>4, <2>6, <2>7 DEF Before
<1> QED
  BY <1>1, <1>2, <1>3, <1>7, <1>9, <1>10

\* A step is written and on its way to the hub.
LEMMA RecordKeeps == ASSUME IInv, NEW i \in Ids, Record(i) PROVE IInv'
<1>1. PICK s : s = [id |-> i, at |-> clock, attempt |-> job.attempt]
  OBVIOUS
<1>2. /\ s \in Step /\ s.id = i /\ s # End
      /\ steps' = Append(steps, s) /\ pending' = Append(pending, s)
      /\ UNCHANGED << clock, job, stream, wire, watch >>
      /\ Rows' = Rows \cup {s}
      /\ Firm' \subseteq Firm \cup {s}
      /\ s \in Firm' => \A r \in Rows : Before(r, s)
  BY <1>1, RecordFacts
<1>3. job.status = "running" /\ ~EndTold
  BY DEF Record, IInv, EndTrue
<1>4. /\ pending \in Seq(Step \cup {End}) /\ pending \in Seq(Frame) /\ steps \in Seq(Step)
      /\ s \in Frame /\ s.id # 0
  BY <1>2, Frames, StepFields DEF IInv, JobTyped
<1>5. JobTyped'
  <2>1. Append(pending, s) \in Seq(Step \cup {End}) /\ Append(steps, s) \in Seq(Step)
    BY <1>2, <1>4
  <2> QED
    BY <1>2, <2>1 DEF IInv, JobTyped
<1>6. StepsDistinct'
  <2>1. /\ Len(steps) \in Nat /\ DOMAIN steps = 1..Len(steps)
        /\ DOMAIN steps' = 1..(Len(steps) + 1)
        /\ \A k \in 1..Len(steps) : steps'[k] = steps[k]
        /\ steps'[Len(steps) + 1] = s
    BY <1>2, <1>4, AppendProperties
  <2>2. \A k \in DOMAIN steps : steps[k].id # i
    BY DEF Record
  <2>3. s.at <= clock /\ s.attempt <= job.attempt
    BY <1>1, Constants DEF IInv, JobTyped
  <2> QED
    BY <1>2, <2>1, <2>2, <2>3 DEF IInv, StepsDistinct
<1>7. Copies'
  <2>1. Rows \subseteq Rows \cup {s}
    OBVIOUS
  <2>2. /\ Drawn(Rows \cup {s}, pending) /\ Drawn(Rows \cup {s}, wire)
        /\ Drawn(Rows \cup {s}, stream.queue) /\ Drawn(Rows \cup {s}, stream.page)
    BY <2>1, MoreRows DEF IInv, Copies
  <2>3. Drawn(Rows \cup {s}, Append(pending, s))
    BY <1>4, <2>2, DrawnAppend
  <2> QED
    BY <1>2, <2>2, <2>3 DEF Copies
<1>8. EndTrue'
  <2>1. ~Tells(Append(pending, s))
    <3>1. /\ Len(pending) \in Nat /\ Len(Append(pending, s)) = Len(pending) + 1
          /\ \A q \in 1..Len(pending) : Append(pending, s)[q] = pending[q]
          /\ Append(pending, s)[Len(pending) + 1] = s
      BY <1>4, AppendProperties
    <3>2. ~Tells(pending)
      BY <1>3 DEF EndTold
    <3> QED
      BY <1>2, <3>1, <3>2 DEF Tells
  <2> QED
    BY <1>2, <1>3, <2>1 DEF EndTrue, EndTold
<1>9. /\ \A p \in 1..Len(wire) : wire[p] # End
      /\ \A p \in 1..Len(stream.queue) : stream.queue[p] # End
      /\ \A p \in 1..Len(pending) : pending[p] # End
      /\ \A p \in 1..Len(stream.page) : stream.page[p] # End
  <2>1. stream.page \in Seq(Step)
    BY DEF IInv, StreamTyped, Streams
  <2>2. \A p \in 1..Len(stream.page) : stream.page[p] # End
    BY <2>1, Frames
  <2> QED
    BY <1>3, <2>2 DEF EndTold, Tells
<1>10. \A seq, S : /\ InLine(Firm, seq, S) /\ Drawn(Rows, seq)
                   /\ \A p \in 1..Len(seq) : seq[p] # End
                   => InLine(Firm', seq, S)
  <2> SUFFICES ASSUME NEW seq, NEW S, InLine(Firm, seq, S), Drawn(Rows, seq),
                      \A p \in 1..Len(seq) : seq[p] # End
               PROVE  InLine(Firm', seq, S)
    OBVIOUS
  <2>1. PICK F : F = Firm
    OBVIOUS
  <2>2. PICK R : R = Rows
    OBVIOUS
  <2>3. PICK G : G = Firm'
    OBVIOUS
  <2>4. InLine(G, seq, S)
    BY <1>2, <2>1, <2>2, <2>3, InLineGrow
  <2> QED
    BY <2>3, <2>4
<1>11. \A S, pos : Known(Rows, pos) /\ Past(Firm, S, pos)
                     => Past(Firm', S, pos) /\ Known(Rows', pos)
  <2> SUFFICES ASSUME NEW S, NEW pos, Known(Rows, pos), Past(Firm, S, pos)
               PROVE  Past(Firm', S, pos) /\ Known(Rows', pos)
    OBVIOUS
  <2>1. PICK F : F = Firm
    OBVIOUS
  <2>2. PICK R : R = Rows
    OBVIOUS
  <2>3. PICK G : G = Firm'
    OBVIOUS
  <2>4. Past(G, S, pos)
    BY <1>2, <2>1, <2>2, <2>3, PastGrow
  <2>5. Known(Rows', pos)
    BY <1>2, MoreRows
  <2> QED
    BY <2>3, <2>4, <2>5
<1>12. WireWhole'
  BY <1>2, <1>9, <1>10 DEF IInv, WireWhole, Copies
<1>13. CursorWhole'
  BY <1>2, <1>11, MoreRows DEF IInv, CursorWhole
<1>14. Going' = Going /\ Replayed' = Replayed /\ Queued' = Queued /\ Running' = Running
       /\ CaughtUp' = CaughtUp
  BY <1>2 DEF Going, Replayed, Queued, Running, CaughtUp
<1>15. ReplayWhole'
  <2> SUFFICES ASSUME Running PROVE ReplayWhole'
    BY <1>14 DEF ReplayWhole
  <2>1. InLine(Firm', stream.page, Going)
    BY <1>9, <1>10 DEF IInv, ReplayWhole, Copies
  <2>2. Known(Rows', stream.cursor) /\ Past(Firm', Replayed, stream.cursor)
    BY <1>11 DEF IInv, ReplayWhole
  <2>3. ~stream.ended
    BY <1>3 DEF EndTold
  <2> QED
    BY <1>2, <1>14, <2>1, <2>2, <2>3 DEF IInv, ReplayWhole
<1>16. QueueWhole'
  <2> SUFFICES ASSUME CaughtUp, ~stream.over PROVE QueueWhole'
    BY <1>2, <1>14 DEF QueueWhole
  <2>1. /\ InLine(Firm', stream.queue, Replayed) /\ InLine(Firm', pending, Queued)
        /\ Whole(Firm, Queued \cup Named(pending))
    BY <1>9, <1>10 DEF IInv, QueueWhole, Copies
  <2>2. Named(Append(pending, s)) = Named(pending) \cup ({s.id} \ {0})
    BY <1>4, NamedAppend
  <2>3. Whole(Firm', Queued \cup Named(Append(pending, s)))
    BY <1>2, <1>4, <2>1, <2>2 DEF Whole
  <2>4. Told(Firm', Queued \cup Named(pending) \cup ({s.id} \ {0}), s)
    BY <1>2, <2>2, <2>3 DEF Told, Past, Whole
  <2>5. InLine(Firm', Append(pending, s), Queued)
    <3>1. PICK G : G = Firm'
      OBVIOUS
    <3>2. InLine(G, Append(pending, s), Queued)
      BY <1>4, <2>1, <2>4, <3>1, InLineAppend
    <3> QED
      BY <3>1, <3>2
  <2> QED
    BY <1>2, <1>14, <2>1, <2>3, <2>5 DEF QueueWhole
<1>17. PollWhole'
  <2> SUFFICES ASSUME watch.on = "poll", NEW l \in 1..Len(Lists(job.kind))
               PROVE  /\ Known(Rows', watch.at[l])
                      /\ \A r \in Firm' : Listed(Lists(job.kind)[l], r)
                           => r.id \in watch.got \/ Before(watch.at[l], r)
    BY <1>2 DEF PollWhole, Listed
  <2>1. /\ Known(Rows, watch.at[l])
        /\ \A r \in Firm : Listed(Lists(job.kind)[l], r)
             => r.id \in watch.got \/ Before(watch.at[l], r)
    BY DEF IInv, PollWhole
  <2>2. Past({}, {}, watch.at[l]) /\ Firm' \cap {s} \subseteq {} \cup {s}
    BY DEF Past
  <2>3. Past(Firm' \cap {s}, {}, watch.at[l])
    <3>1. PICK G : G = Firm' \cap {s}
      OBVIOUS
    <3>2. PICK R : R = Rows
      OBVIOUS
    <3>3. G \subseteq {} \cup {s} /\ (s \in G => \A r \in R : Before(r, s))
      BY <1>2, <3>1, <3>2
    <3>4. PICK pos : pos = watch.at[l]
      OBVIOUS
    <3>5. Past(G, {}, pos)
      BY <1>2, <2>1, <2>2, <3>2, <3>3, <3>4, PastGrow
    <3> QED
      BY <3>1, <3>4, <3>5
  <2>4. Known(Rows', watch.at[l])
    BY <1>2, <2>1, MoreRows
  <2> QED
    BY <1>2, <2>1, <2>3, <2>4 DEF Past
<1>18. FirstWhole' /\ DocumentsComplete'
  BY <1>2, <1>3 DEF FirstWhole, DocumentsComplete, EndTold
<1> QED
  BY <1>2, <1>5, <1>6, <1>7, <1>8, <1>12, <1>13, <1>15, <1>16, <1>17, <1>18, Unmoved DEF IInv


\* What the parts and the additions of a sequence tell.
LEMMA TellsMore ==
    ASSUME NEW seq \in Seq(Frame)
    PROVE  /\ \A frame \in Frame : Tells(Append(seq, frame)) => Tells(seq) \/ frame = End
           /\ seq # << >> => /\ Tells(Tail(seq)) => Tells(seq)
                             /\ Head(seq) = End => Tells(seq)
                             /\ Head(seq) \in Frame /\ Tail(seq) \in Seq(Frame)
           /\ \A n \in 0..Len(seq) : /\ Tells(SubSeq(seq, 1, n)) => Tells(seq)
                                     /\ SubSeq(seq, 1, n) \in Seq(Frame)
                                     /\ Len(SubSeq(seq, 1, n)) = n
           /\ ~Tells(<< >>)
<1>1. Len(seq) \in Nat
  OBVIOUS
<1>2. ASSUME NEW frame \in Frame, Tells(Append(seq, frame)) PROVE Tells(seq) \/ frame = End
  <2>1. /\ Len(Append(seq, frame)) = Len(seq) + 1
        /\ \A q \in 1..Len(seq) : Append(seq, frame)[q] = seq[q]
        /\ Append(seq, frame)[Len(seq) + 1] = frame
    BY AppendProperties
  <2>2. PICK p \in 1..(Len(seq) + 1) : Append(seq, frame)[p] = End
    BY <1>2, <2>1 DEF Tells
  <2> QED
    BY <1>1, <2>1, <2>2 DEF Tells
<1>3. ASSUME seq # << >>
      PROVE  /\ Tells(Tail(seq)) => Tells(seq)
             /\ Head(seq) = End => Tells(seq)
             /\ Head(seq) \in Frame /\ Tail(seq) \in Seq(Frame)
  <2>1. /\ Len(seq) >= 1 /\ Head(seq) = seq[1] /\ Len(Tail(seq)) = Len(seq) - 1
        /\ \A q \in 1..Len(Tail(seq)) : Tail(seq)[q] = seq[q + 1]
        /\ Head(seq) \in Frame /\ Tail(seq) \in Seq(Frame)
    BY <1>3, HeadTailProperties, LenProperties
  <2>2. 1 \in 1..Len(seq) /\ \A q \in 1..Len(Tail(seq)) : q + 1 \in 1..Len(seq)
    BY <1>1, <2>1
  <2> QED
    BY <2>1, <2>2 DEF Tells
<1>4. ASSUME NEW n \in 0..Len(seq)
      PROVE  /\ Tells(SubSeq(seq, 1, n)) => Tells(seq)
             /\ SubSeq(seq, 1, n) \in Seq(Frame) /\ Len(SubSeq(seq, 1, n)) = n
  <2>1. /\ n \in Nat /\ Len(SubSeq(seq, 1, n)) = n
        /\ \A q \in 1..n : SubSeq(seq, 1, n)[q] = seq[q]
    BY <1>1
  <2>2. SubSeq(seq, 1, n) \in Seq(Frame)
    BY <1>1
  <2>3. Tells(SubSeq(seq, 1, n)) => Tells(seq)
    BY <1>1, <2>1 DEF Tells
  <2> QED
    BY <2>1, <2>2, <2>3
<1>5. ~Tells(<< >>)
  BY DEF Tells
<1> QED
  BY <1>2, <1>3, <1>4, <1>5

\* The hub hands over what was written first: it joins the queue behind the
\* rest, or the queue is over from then on.
LEMMA EmitKeeps == IInv /\ Emit => IInv'
<1> SUFFICES ASSUME IInv, Emit PROVE IInv'
  OBVIOUS
<1> DEFINE h == Head(pending)
           rest == Tail(pending)
<1>1. /\ pending # << >> /\ pending' = rest /\ stream' = Heard(h)
      /\ UNCHANGED << clock, job, steps, wire, watch >>
  BY DEF Emit
<1>2. pending \in Seq(Step \cup {End}) /\ pending \in Seq(Frame)
  BY Frames DEF IInv, JobTyped
<1>3. h \in Step \cup {End} /\ rest \in Seq(Step \cup {End}) /\ h \in Frame
  BY <1>1, <1>2, Frames
<1>4. /\ Drawn(Rows, rest) /\ (h.id # 0 => h \in Rows)
      /\ Named(pending) = Named(rest) \cup ({h.id} \ {0})
      /\ Tells(rest) => Tells(pending)
      /\ h = End => Tells(pending)
  BY <1>1, <1>2, DrawnTail, NamedTail, TellsMore DEF IInv, Copies
<1>5. stream.queue \in Seq(Step \cup {End}) /\ stream.queue \in Seq(Frame)
  BY Frames DEF IInv, StreamTyped, Streams
<1>6. Rows' = Rows /\ Firm' = Firm
  BY <1>1 DEF Rows, Firm, Overtaken
<1>7. \A S : InLine(Firm, pending, S) => /\ Told(Firm, S \cup ({h.id} \ {0}), h)
                                         /\ InLine(Firm, rest, S \cup ({h.id} \ {0}))
  <2>1. PICK F : F = Firm
    OBVIOUS
  <2>2. \A S : InLine(F, pending, S) => /\ Told(F, S \cup ({h.id} \ {0}), h)
                                        /\ InLine(F, rest, S \cup ({h.id} \ {0}))
    BY <1>1, <1>2, InLineTail
  <2> QED
    BY <2>1, <2>2
<1>8. /\ Append(stream.queue, h) \in Seq(Step \cup {End})
      /\ Len(Append(stream.queue, h)) = Len(stream.queue) + 1
      /\ Len(stream.queue) \in Nat
      /\ Drawn(Rows, Append(stream.queue, h))
      /\ Named(Append(stream.queue, h)) = Named(stream.queue) \cup ({h.id} \ {0})
      /\ Tells(Append(stream.queue, h)) => Tells(stream.queue) \/ h = End
  <2>1. /\ Append(stream.queue, h) \in Seq(Step \cup {End})
        /\ Len(Append(stream.queue, h)) = Len(stream.queue) + 1
        /\ Len(stream.queue) \in Nat
    BY <1>3, <1>5, AppendProperties
  <2>2. Drawn(Rows, Append(stream.queue, h))
    BY <1>3, <1>4, <1>5, DrawnAppend DEF IInv, Copies
  <2>3. /\ Named(Append(stream.queue, h)) = Named(stream.queue) \cup ({h.id} \ {0})
        /\ Tells(Append(stream.queue, h)) => Tells(stream.queue) \/ h = End
    BY <1>3, <1>5, NamedAppend, TellsMore
  <2> QED
    BY <2>1, <2>2, <2>3
<1>9. \A S : InLine(Firm, stream.queue, S) /\ Told(Firm, S \cup Named(stream.queue) \cup ({h.id} \ {0}), h)
               => InLine(Firm, Append(stream.queue, h), S)
  <2>1. PICK F : F = Firm
    OBVIOUS
  <2>2. \A S : InLine(F, stream.queue, S) /\ Told(F, S \cup Named(stream.queue) \cup ({h.id} \ {0}), h)
               => InLine(F, Append(stream.queue, h), S)
    BY <1>3, <1>5, InLineAppend
  <2> QED
    BY <2>1, <2>2
<1> DEFINE more == Append(stream.queue, h)
<1>10. \/ stream.phase \in {"none", "closed"} /\ stream' = stream
       \/ stream.phase \notin {"none", "closed"} /\ stream' = [stream EXCEPT !.over = TRUE]
       \/ /\ stream.phase \notin {"none", "closed"} /\ Len(stream.queue) < QueueLimit
          /\ stream' = [stream EXCEPT !.queue = more]
  BY <1>1, <1>8, Constants DEF Heard
<1> HIDE DEF h, rest, more
<1>11. JobTyped'
  BY <1>1, <1>3 DEF IInv, JobTyped
<1>12. /\ stream'.phase = stream.phase /\ stream'.seen = stream.seen /\ stream'.page = stream.page
       /\ stream'.cursor = stream.cursor /\ stream'.more = stream.more
       /\ stream'.ended = stream.ended /\ (stream.over => stream'.over)
       /\ \/ stream'.queue = stream.queue
          \/ stream'.queue = more
       /\ stream'.over \/ stream'.queue = more \/ stream.phase \in {"none", "closed"}
  BY <1>10 DEF IInv, StreamTyped, Streams
<1>13. StreamTyped'
  <2>1. CASE stream' = stream
    BY <2>1 DEF IInv, StreamTyped
  <2>2. CASE stream' = [stream EXCEPT !.over = TRUE]
    BY <2>2 DEF IInv, StreamTyped, Streams
  <2>3. CASE Len(stream.queue) < QueueLimit /\ stream' = [stream EXCEPT !.queue = more]
    <3>1. more \in Seq(Step \cup {End}) /\ Len(more) <= QueueLimit
      BY <1>8, <2>3, Constants DEF more
    <3> QED
      BY <2>3, <3>1 DEF IInv, StreamTyped, Streams
  <2> QED
    BY <1>10, <2>1, <2>2, <2>3
<1>14. Copies'
  BY <1>1, <1>4, <1>6, <1>8, <1>12 DEF IInv, Copies, more
<1>15. EndTrue'
  BY <1>1, <1>4, <1>8, <1>12 DEF IInv, EndTrue, EndTold, more
<1>16. WireWhole'
  BY <1>1, <1>6, <1>12 DEF IInv, WireWhole
<1>17. ReplayWhole'
  BY <1>1, <1>6, <1>12 DEF IInv, ReplayWhole, Running, Replayed, Going
<1>18. QueueWhole'
  <2> SUFFICES ASSUME CaughtUp', ~stream'.over PROVE QueueWhole'
    BY DEF QueueWhole
  <2>1. CaughtUp /\ ~stream.over /\ stream.phase \notin {"none", "closed"}
    BY <1>12 DEF CaughtUp, IInv, StreamTyped, Streams
  <2>2. stream'.queue = more /\ Replayed' = Replayed
    BY <1>1, <1>12, <2>1 DEF Replayed, Going
  <2>3. /\ InLine(Firm, stream.queue, Replayed) /\ InLine(Firm, pending, Queued)
        /\ Whole(Firm, Queued \cup Named(pending))
    BY <2>1 DEF IInv, QueueWhole
  <2>4. Queued' = Queued \cup ({h.id} \ {0})
    BY <1>8, <2>2 DEF Queued, more
  <2>5. InLine(Firm, more, Replayed)
    BY <1>7, <1>9, <2>3 DEF Queued, more
  <2>6. InLine(Firm, rest, Queued')
    BY <1>7, <2>3, <2>4
  <2>7. Whole(Firm, Queued' \cup Named(rest))
    BY <1>4, <2>3, <2>4 DEF Whole
  <2> QED
    BY <1>1, <1>6, <2>2, <2>5, <2>6, <2>7 DEF QueueWhole
<1> QED
  BY <1>1, <1>11, <1>13, <1>14, <1>15, <1>16, <1>17, <1>18, Unmoved DEF IInv


\* No stream runs once the connection is gone.
LEMMA NoStreamFacts ==
    /\ NoStream \in Streams /\ [NoStream EXCEPT !.phase = "closed"] \in Streams
    /\ \A t \in {NoStream, [NoStream EXCEPT !.phase = "closed"]} :
         /\ t.phase \in {"none", "closed"} /\ t.queue = << >> /\ t.page = << >> /\ ~t.ended
    /\ NoStream.phase = "none" /\ [NoStream EXCEPT !.phase = "closed"].phase = "closed"
<1>1. NoStream \in Streams
  BY DEF NoStream, Streams, Spot, Start
<1>2. [NoStream EXCEPT !.phase = "closed"] \in Streams
  BY <1>1 DEF Streams
<1> QED
  BY <1>1, <1>2 DEF NoStream

\* What holds when the stream is gone and of the wire some frames are left.
LEMMA LostKeeps ==
    ASSUME IInv, NEW n \in 0..Len(wire), Lost(n), UNCHANGED << steps, watch >>,
           pending' = pending \/ pending' = << >>, job'.status = job.status
    PROVE  /\ StreamTyped' /\ WireTyped' /\ Copies' /\ EndTrue' /\ WireWhole'
           /\ ReplayWhole' /\ QueueWhole'
<1>1. /\ wire' = SubSeq(wire, 1, n)
      /\ stream' \in {NoStream, [NoStream EXCEPT !.phase = "closed"]}
      /\ stream'.phase = "none" => stream.phase = "none"
  BY NoStreamFacts DEF Lost
<1>2. /\ stream'.phase \in {"none", "closed"} /\ stream'.queue = << >> /\ stream'.page = << >>
      /\ ~stream'.ended /\ stream' \in Streams
  BY <1>1, NoStreamFacts
<1>3. wire \in Seq(Frame)
  BY DEF IInv, WireTyped
<1>4. Rows' = Rows /\ Firm' = Firm
  BY DEF Rows, Firm, Overtaken
<1>5. /\ wire' \in Seq(Frame) /\ Len(wire') = n /\ n <= Len(wire) /\ Len(wire) \in Nat
      /\ Tells(wire') => Tells(wire)
  BY <1>1, <1>3, TellsMore
<1>6. StreamTyped'
  BY <1>2, Constants DEF StreamTyped
<1>7. WireTyped'
  BY <1>5, Constants DEF IInv, WireTyped
<1>8. Copies'
  <2>1. Drawn(Rows, SubSeq(wire, 1, n))
    BY <1>3, DrawnCut DEF IInv, Copies
  <2>2. Drawn(Rows, << >>)
    BY DEF Drawn
  <2> QED
    BY <1>1, <1>2, <1>4, <2>1, <2>2 DEF IInv, Copies
<1>9. EndTrue'
  <2>1. ~Tells(<< >>)
    BY DEF Tells
  <2> QED
    BY <1>2, <1>5, <2>1 DEF IInv, EndTrue, EndTold
<1>10. WireWhole'
  <2>1. InLine(Firm, SubSeq(wire, 1, n), watch.got)
    <3>1. PICK F : F = Firm
      OBVIOUS
    <3>2. PICK S : S = watch.got
      OBVIOUS
    <3>3. InLine(F, SubSeq(wire, 1, n), S)
      BY <1>3, <3>1, <3>2, InLineCut DEF IInv, WireWhole
    <3> QED
      BY <3>1, <3>2, <3>3
  <2>2. stream'.phase = "none" => wire' = << >>
    <3> SUFFICES ASSUME stream'.phase = "none" PROVE wire' = << >>
      OBVIOUS
    <3>1. wire = << >>
      BY <1>1 DEF IInv, WireWhole
    <3>2. Len(wire') = 0
      BY <1>5, <3>1
    <3> QED
      BY <1>5, <3>2
  <2> QED
    BY <1>1, <1>4, <2>1, <2>2 DEF WireWhole
<1>11. ReplayWhole' /\ QueueWhole'
  BY <1>2 DEF ReplayWhole, QueueWhole, Running, CaughtUp
<1> QED
  BY <1>6, <1>7, <1>8, <1>9, <1>10, <1>11

\* The connection is cut.
LEMMA CutKeeps == ASSUME IInv, NEW n \in 0..Len(wire), Cut(n) PROVE IInv'
<1>1. Lost(n) /\ UNCHANGED << clock, job, steps, pending, watch >>
  BY DEF Cut
<1> QED
  BY <1>1, LostKeeps, Unmoved DEF IInv

\* The process dies: what it had not handed to the hub is only in the table.
LEMMA CrashKeeps == ASSUME IInv, NEW n \in 0..Len(wire), Crash(n) PROVE IInv'
<1>1. /\ Lost(n) /\ UNCHANGED << clock, steps, watch >> /\ pending' = << >>
      /\ job.up /\ job.starts < MaxStarts /\ job' = [job EXCEPT !.up = FALSE]
  BY DEF Crash
<1>2. /\ job'.status = job.status /\ job'.kind = job.kind /\ job'.attempt = job.attempt
      /\ job'.starts = job.starts
  BY <1>1 DEF IInv, JobTyped
<1>3. JobTyped'
  <2>1. job' \in [kind : Kinds, status : {"running", "ended"}, attempt : 1..MaxStarts,
                  starts : 1..MaxStarts, up : BOOLEAN]
    BY <1>1 DEF IInv, JobTyped
  <2>2. << >> \in Seq(Step \cup {End})
    OBVIOUS
  <2> QED
    BY <1>1, <1>2, <2>1, <2>2 DEF IInv, JobTyped
<1> QED
  BY <1>1, <1>2, <1>3, LostKeeps, Unmoved DEF IInv

\* The process is back: a crawl's routes list a new attempt, that has no step yet.
LEMMA RestartKeeps == IInv /\ Restart => IInv'
<1> SUFFICES ASSUME IInv, Restart PROVE IInv'
  OBVIOUS
<1>1. /\ ~job.up /\ UNCHANGED << clock, steps, pending, stream, wire, watch >>
      /\ job' = [job EXCEPT !.up = TRUE, !.starts = job.starts + 1,
                            !.attempt = IF job.status = "running" THEN job.attempt + 1 ELSE job.attempt]
  BY DEF Restart
<1>2. /\ job \in [kind : Kinds, status : {"running", "ended"}, attempt : 1..MaxStarts,
                  starts : 1..MaxStarts, up : BOOLEAN]
      /\ job.attempt <= job.starts /\ job.starts < MaxStarts /\ MaxStarts \in Nat
  BY <1>1, Constants DEF IInv, JobTyped
<1>3. /\ job'.status = job.status /\ job'.kind = job.kind /\ job'.up
      /\ job'.starts = job.starts + 1
      /\ job'.attempt = IF job.status = "running" THEN job.attempt + 1 ELSE job.attempt
  BY <1>1, <1>2
<1>4. job'.attempt \in 1..MaxStarts /\ job'.starts \in 1..MaxStarts /\ job'.attempt <= job'.starts
  BY <1>2, <1>3
<1>5. JobTyped'
  <2>1. PICK a \in 1..MaxStarts, t \in 1..MaxStarts :
          job' = [job EXCEPT !.up = TRUE, !.starts = t, !.attempt = a]
    BY <1>1, <1>3, <1>4
  <2>2. job' \in [kind : Kinds, status : {"running", "ended"}, attempt : 1..MaxStarts,
                  starts : 1..MaxStarts, up : BOOLEAN]
    BY <1>2, <2>1
  <2>3. /\ clock' \in 1..MaxClock /\ steps' \in Seq(Step) /\ pending' \in Seq(Step \cup {End})
    BY <1>1 DEF IInv, JobTyped
  <2>4. job'.attempt <= job'.starts /\ (~job'.up => job'.starts < MaxStarts)
    BY <1>3, <1>4
  <2> QED
    BY <2>2, <2>3, <2>4 DEF JobTyped
<1>6. \A k \in DOMAIN steps : steps[k].attempt \in Nat /\ steps[k].attempt <= job.attempt
  BY StepFields DEF IInv, JobTyped, StepsDistinct
<1>7. job.attempt \in Nat /\ job'.attempt >= job.attempt
  BY <1>2, <1>3
<1>8. StepsDistinct'
  <2>1. \A k \in DOMAIN steps : steps[k].attempt <= job'.attempt
    <3> SUFFICES ASSUME NEW k \in DOMAIN steps PROVE steps[k].attempt <= job'.attempt
      OBVIOUS
    <3>1. PICK a \in Nat : a = job'.attempt
      BY <1>4, Constants
    <3> QED
      BY <1>6, <1>7, <3>1
  <2> QED
    BY <1>1, <2>1 DEF IInv, StepsDistinct
<1>9. Rows' = Rows /\ Firm' = Firm
  BY <1>1 DEF Rows, Firm, Overtaken
<1>10. \A s \in Rows : \A list \in {"pages", "errors", "items"} :
         Listed(list, s)' => Listed(list, s)
  <2> SUFFICES ASSUME NEW s \in Rows, NEW list \in {"pages", "errors"}, Listed(list, s)'
               PROVE  Listed(list, s)
    BY DEF Listed
  <2>1. s.attempt = job'.attempt /\ s.attempt \in Nat /\ s.attempt <= job.attempt
    BY <1>6 DEF Listed, Rows
  <2>2. s.attempt = job.attempt
    BY <1>2, <1>3, <2>1
  <2> QED
    BY <2>2 DEF Listed
<1>11. Firm \subseteq Rows
  BY DEF Firm, Rows
<1>12. \A l \in 1..Len(Lists(job.kind)) : Lists(job.kind)[l] \in {"pages", "errors", "items"}
  BY DEF Lists
<1>13. PollWhole'
  <2> SUFFICES ASSUME watch.on = "poll", NEW l \in 1..Len(Lists(job.kind)), NEW list,
                      list = Lists(job.kind)[l]
               PROVE  /\ Known(Rows, watch.at[l])
                      /\ \A s \in Firm : Listed(list, s)'
                           => s.id \in watch.got \/ Before(watch.at[l], s)
    BY <1>1, <1>3, <1>9 DEF PollWhole, Listed
  <2>1. /\ Known(Rows, watch.at[l])
        /\ \A s \in Firm : Listed(list, s) => s.id \in watch.got \/ Before(watch.at[l], s)
    BY DEF IInv, PollWhole
  <2> QED
    BY <1>10, <1>11, <1>12, <2>1
<1>14. FirstWhole' /\ DocumentsComplete'
  <2>1. watch.ended \/ watch.outcome = "done" => job.status = "ended"
    BY DEF IInv, EndTrue, EndTold
  <2>2. job.status = "ended" => job'.attempt = job.attempt
    BY <1>3
  <2>3. watch.ended \/ watch.outcome = "done" => FirstWhole' /\ DocumentsComplete'
    BY <1>1, <1>3, <2>1, <2>2, Unmoved DEF IInv
  <2> QED
    BY <1>1, <2>3 DEF FirstWhole, DocumentsComplete
<1> QED
  BY <1>1, <1>3, <1>5, <1>8, <1>13, <1>14, Unmoved DEF IInv


\* A frame goes out behind the others.
LEMMA WireAppend ==
    ASSUME IInv, NEW frame \in Frame, Room, wire' = Append(wire, frame),
           Told(Firm, Going \cup ({frame.id} \ {0}), frame), frame.id # 0 => frame \in Rows
    PROVE  /\ WireTyped' /\ InLine(Firm, wire', watch.got) /\ Drawn(Rows, wire')
           /\ Tells(wire') => Tells(wire) \/ frame = End
           /\ Named(wire') = Named(wire) \cup ({frame.id} \ {0})
<1>1. wire \in Seq(Frame) /\ Len(wire) \in Nat /\ Len(wire) < WireLimit /\ WireLimit \in Nat
  BY Constants DEF IInv, WireTyped, Room
<1>2. Append(wire, frame) \in Seq(Frame) /\ Len(Append(wire, frame)) = Len(wire) + 1
  BY <1>1, AppendProperties
<1>3. WireTyped'
  BY <1>1, <1>2 DEF WireTyped
<1>4. InLine(Firm, Append(wire, frame), watch.got)
  <2>1. PICK F : F = Firm
    OBVIOUS
  <2>2. PICK S : S = watch.got
    OBVIOUS
  <2>3. InLine(F, wire, S) /\ Told(F, S \cup Named(wire) \cup ({frame.id} \ {0}), frame)
    BY <2>1, <2>2 DEF IInv, WireWhole, Going
  <2>4. InLine(F, Append(wire, frame), S)
    BY <1>1, <2>3, InLineAppend
  <2> QED
    BY <2>1, <2>2, <2>4
<1>5. Drawn(Rows, Append(wire, frame))
  BY <1>1, DrawnAppend DEF IInv, Copies
<1>6. /\ Tells(Append(wire, frame)) => Tells(wire) \/ frame = End
      /\ Named(Append(wire, frame)) = Named(wire) \cup ({frame.id} \ {0})
  BY <1>1, TellsMore, NamedAppend
<1> QED
  BY <1>3, <1>4, <1>5, <1>6

\* The stream returns behind its last frame.
LEMMA FinishKeeps ==
    ASSUME IInv, NEW frame \in {End, Overflow}, Finish(frame),
           UNCHANGED << clock, job, steps, pending, watch >>,
           frame = End => EndTold /\ Whole(Firm, Going)
    PROVE  IInv'
<1>1. /\ Room /\ wire' = Append(wire, frame) /\ stream' = [NoStream EXCEPT !.phase = "closed"]
      /\ frame \in Frame /\ frame.id = 0
  BY Frames DEF Finish
<1>2. /\ stream'.phase = "closed" /\ stream'.queue = << >> /\ stream'.page = << >>
      /\ ~stream'.ended /\ stream' \in Streams
  BY <1>1, NoStreamFacts
<1>3. Told(Firm, Going \cup ({frame.id} \ {0}), frame)
  BY <1>1 DEF Told, Whole
<1>4. /\ WireTyped' /\ InLine(Firm, wire', watch.got) /\ Drawn(Rows, wire')
      /\ Tells(wire') => Tells(wire) \/ frame = End
  BY <1>1, <1>3, WireAppend
<1>5. Rows' = Rows /\ Firm' = Firm
  BY DEF Rows, Firm, Overtaken
<1>6. StreamTyped'
  BY <1>2, Constants DEF StreamTyped
<1>7. Copies'
  <2>1. Drawn(Rows, << >>)
    BY DEF Drawn
  <2> QED
    BY <1>2, <1>4, <1>5, <2>1 DEF IInv, Copies
<1>8. EndTrue'
  <2>1. ~Tells(<< >>)
    BY DEF Tells
  <2> QED
    BY <1>2, <1>4, <2>1 DEF IInv, EndTrue, EndTold
<1>9. WireWhole'
  BY <1>2, <1>4, <1>5 DEF WireWhole
<1>10. ReplayWhole' /\ QueueWhole'
  BY <1>2 DEF ReplayWhole, QueueWhole, Running, CaughtUp
<1> QED
  BY <1>4, <1>6, <1>7, <1>8, <1>9, <1>10, Unmoved DEF IInv

\* A stream reads the report before its first listing.
LEMMA ReadReportKeeps == IInv /\ ReadReport => IInv'
<1> SUFFICES ASSUME IInv, ReadReport PROVE IInv'
  OBVIOUS
<1>1. /\ stream.phase = "report"
      /\ stream' = [stream EXCEPT !.phase = "list", !.ended = job.status = "ended"]
      /\ UNCHANGED << clock, job, steps, pending, wire, watch >>
  BY DEF ReadReport
<1>2. stream \in Streams /\ (job.status = "ended") \in BOOLEAN
  BY DEF IInv, StreamTyped
<1>3. /\ stream'.phase = "list" /\ (stream'.ended <=> job.status = "ended")
      /\ stream'.queue = stream.queue /\ stream'.seen = stream.seen /\ stream'.page = stream.page
      /\ stream'.cursor = stream.cursor
  BY <1>1, <1>2 DEF Streams
<1>4. StreamTyped'
  <2>1. PICK b \in BOOLEAN : b = (job.status = "ended")
    BY <1>2
  <2>2. stream' \in Streams
    BY <1>1, <1>2, <2>1 DEF Streams
  <2> QED
    BY <1>3, <2>2 DEF IInv, StreamTyped
<1>5. Rows' = Rows /\ Firm' = Firm
  BY <1>1 DEF Rows, Firm, Overtaken
<1>6. Copies'
  BY <1>1, <1>3, <1>5 DEF IInv, Copies
<1>7. EndTrue'
  BY <1>1, <1>3 DEF IInv, EndTrue, EndTold
<1>8. WireWhole'
  BY <1>1, <1>3, <1>5 DEF IInv, WireWhole
<1>9. ReplayWhole'
  BY <1>1, <1>3, <1>5 DEF IInv, ReplayWhole, Running, Replayed, Going
<1>10. QueueWhole'
  BY <1>3 DEF QueueWhole, CaughtUp
<1> QED
  BY <1>1, <1>4, <1>6, <1>7, <1>8, <1>9, <1>10, Unmoved DEF IInv

\* A replay reads the documents behind its cursor; with the last page it has
\* all that are recorded, and nothing is lacking in the queue.
LEMMA ReadPageKeeps == IInv /\ ReadPage => IInv'
<1> SUFFICES ASSUME IInv, ReadPage PROVE IInv'
  OBVIOUS
<1>1. PICK page : page = Page("all", stream.cursor, ReplayLimit)
  OBVIOUS
<1>2. PICK more \in BOOLEAN : more = HasMore("all", stream.cursor, ReplayLimit)
  <2>1. HasMore("all", stream.cursor, ReplayLimit) \in BOOLEAN
    BY DEF HasMore
  <2> QED
    BY <2>1
<1>3. PICK cursor : cursor = IF page = << >> THEN stream.cursor ELSE Pos(Last(page))
  OBVIOUS
<1>4. /\ stream.phase = "list" /\ UNCHANGED << clock, job, steps, pending, wire, watch >>
      /\ stream' = [stream EXCEPT !.phase = "page", !.page = page, !.more = more, !.cursor = cursor]
  BY <1>1, <1>2, <1>3 DEF ReadPage
<1>5. /\ stream \in Streams /\ Running
      /\ stream.seen \subseteq Going /\ Known(Rows, stream.cursor)
      /\ Past(Firm, Replayed, stream.cursor) /\ stream.page = << >>
  BY <1>4 DEF IInv, StreamTyped, ReplayWhole, Running
<1>6. Replayed = Going
  BY <1>5, NamedEmpty DEF Replayed
<1>7. \A s : Listed("all", s)
  BY DEF Listed
<1>8. /\ page \in Seq(Step) /\ Len(page) <= ReplayLimit
      /\ \A p \in 1..Len(page) : page[p] \in Rows
      /\ \A s \in Rows : Before(stream.cursor, s) =>
           \A p \in 1..Len(page) : s.id \in Upto(page, p) \/ Before(page[p], s)
      /\ page = << >> \/ ~more =>
           \A s \in Rows : Before(stream.cursor, s) => s.id \in Named(page)
  <2>1. PICK c : c = stream.cursor
    OBVIOUS
  <2>2. page = Page("all", c, ReplayLimit) /\ more = HasMore("all", c, ReplayLimit)
    BY <1>1, <1>2, <2>1
  <2>3. ReplayLimit \in Nat /\ ReplayLimit >= 1 /\ JobTyped /\ StepsDistinct
    BY Constants DEF IInv
  <2>4. /\ page \in Seq(Step) /\ Len(page) <= ReplayLimit
        /\ \A p \in 1..Len(page) : page[p] \in Rows
        /\ \A s \in Rows : Listed("all", s) /\ Before(c, s) =>
             \A p \in 1..Len(page) : s.id \in Upto(page, p) \/ Before(page[p], s)
        /\ page = << >> \/ ~HasMore("all", c, ReplayLimit) =>
             \A s \in Rows : Listed("all", s) /\ Before(c, s) => s.id \in Named(page)
    BY <2>2, <2>3, PageFacts
  <2> QED
    BY <1>7, <2>1, <2>2, <2>4
<1>9. /\ page # << >> => /\ Len(page) \in 1..Len(page) /\ Last(page) = page[Len(page)]
                         /\ Upto(page, Len(page)) = Named(page)
  BY <1>8, PageEnd
<1>10. Firm \subseteq Rows /\ Rows \subseteq Step
  BY RowsFacts DEF IInv
<1>11. cursor \in Spot /\ Known(Rows, cursor)
  <2>1. CASE page = << >>
    BY <1>3, <1>5, <2>1 DEF Streams
  <2>2. CASE page # << >>
    <3>1. Last(page) \in Rows /\ cursor = Pos(Last(page))
      BY <1>3, <1>8, <1>9, <2>2
    <3>2. Last(page) \in Step
      BY <1>10, <3>1
    <3> QED
      BY <3>1, <3>2, StepFields DEF Known, Pos, Spot
  <2> QED
    BY <2>1, <2>2
<1>12. Past(Firm, Going \cup Named(page), cursor)
  <2> SUFFICES ASSUME NEW s \in Firm, s.id \notin Going, s.id \notin Named(page)
               PROVE  Before(cursor, s)
    BY DEF Past
  <2>1. Before(stream.cursor, s) /\ s \in Rows
    BY <1>5, <1>6, <1>10 DEF Past
  <2>2. page # << >>
    BY <1>8, <2>1
  <2>3. Before(Last(page), s)
    BY <1>8, <1>9, <2>1, <2>2
  <2> QED
    BY <1>3, <2>2, <2>3 DEF Pos, Before
<1>13. InLine(Firm, page, Going)
  <2> SUFFICES ASSUME NEW p \in 1..Len(page) PROVE Told(Firm, Going \cup Upto(page, p), page[p])
    BY DEF InLine
  <2>1. page[p] # End
    BY <1>8, Frames
  <2>2. Past(Firm, Going \cup Upto(page, p), page[p])
    BY <1>5, <1>6, <1>8, <1>10 DEF Past
  <2> QED
    BY <2>1, <2>2 DEF Told
<1>14. ~more => Whole(Firm, Going \cup Named(page))
  BY <1>5, <1>6, <1>8, <1>10 DEF Past, Whole
<1>15. /\ stream'.phase = "page" /\ stream'.ended = stream.ended /\ stream'.over = stream.over
       /\ stream'.queue = stream.queue /\ stream'.seen = stream.seen /\ stream'.page = page
       /\ stream'.cursor = cursor /\ stream'.more = more
  BY <1>4, <1>5 DEF Streams
<1>16. StreamTyped'
  <2>1. stream' \in Streams
    BY <1>4, <1>5, <1>8, <1>11 DEF Streams
  <2> QED
    BY <1>8, <1>15, <2>1 DEF IInv, StreamTyped
<1>17. Rows' = Rows /\ Firm' = Firm
  BY <1>4 DEF Rows, Firm, Overtaken
<1>18. Copies'
  <2>1. Drawn(Rows, page)
    BY <1>8 DEF Drawn
  <2> QED
    BY <1>4, <1>15, <1>17, <2>1 DEF IInv, Copies
<1>19. EndTrue'
  BY <1>4, <1>15 DEF IInv, EndTrue, EndTold
<1>20. WireWhole'
  BY <1>4, <1>15, <1>17 DEF IInv, WireWhole
<1>21. Going' = Going /\ Replayed' = Going \cup Named(page)
  BY <1>4, <1>15 DEF Going, Replayed
<1>22. ReplayWhole'
  BY <1>5, <1>11, <1>12, <1>13, <1>14, <1>15, <1>17, <1>21 DEF ReplayWhole
<1>23. QueueWhole'
  <2> SUFFICES ASSUME ~more PROVE QueueWhole'
    BY <1>15 DEF QueueWhole, CaughtUp
  <2>1. Whole(Firm, Replayed')
    BY <1>14, <1>21
  <2>2. \A S, seq : Whole(Firm, S) => InLine(Firm, seq, S)
    BY DEF Whole, InLine, Told, Past
  <2>3. Replayed' \subseteq Queued'
    BY DEF Queued
  <2>4. Whole(Firm, Queued') /\ Whole(Firm, Queued' \cup Named(pending))
    BY <2>1, <2>3 DEF Whole
  <2> QED
    BY <1>4, <1>15, <1>17, <2>1, <2>2, <2>4 DEF QueueWhole
<1> QED
  BY <1>4, <1>16, <1>18, <1>19, <1>20, <1>22, <1>23, Unmoved DEF IInv


\* A document is sent, or was before on this stream: it is under way or there.
LEMMA SentFacts ==
    ASSUME IInv, Running, NEW s \in Step, s \in Rows, Sent(s), UNCHANGED << steps, watch >>,
           Told(Firm, Going \cup {s.id}, s)
    PROVE  /\ WireTyped' /\ InLine(Firm, wire', watch.got) /\ Drawn(Rows, wire')
           /\ Tells(wire') => Tells(wire)
           /\ Going' = Going \cup {s.id} /\ s.id \in Ids /\ s.id # 0
<1>1. s.id \in Ids /\ s.id # 0 /\ s \in Frame /\ s # End
  BY StepFields, Frames
<1>2. CASE s.id \in stream.seen
  <2>1. wire' = wire /\ s.id \in Going
    BY <1>2 DEF Sent, IInv, ReplayWhole
  <2>2. Going' = Going
    BY <2>1 DEF Going
  <2> QED
    BY <1>1, <2>1, <2>2, Unmoved DEF IInv, WireWhole, Copies
<1>3. CASE s.id \notin stream.seen
  <2>1. Room /\ wire' = Append(wire, s)
    BY <1>3 DEF Sent
  <2>2. {s.id} \ {0} = {s.id}
    BY <1>1
  <2>3. /\ WireTyped' /\ InLine(Firm, wire', watch.got) /\ Drawn(Rows, wire')
        /\ Tells(wire') => Tells(wire) \/ s = End
        /\ Named(wire') = Named(wire) \cup {s.id}
    BY <1>1, <2>1, <2>2, WireAppend
  <2> QED
    BY <1>1, <2>3 DEF Going
<1> QED
  BY <1>2, <1>3

\* A replayed document goes out.
LEMMA ReplayKeeps == IInv /\ Replay => IInv'
<1> SUFFICES ASSUME IInv, Replay PROVE IInv'
  OBVIOUS
<1>1. PICK h : h = Head(stream.page)
  OBVIOUS
<1>2. PICK rest : rest = Tail(stream.page)
  OBVIOUS
<1>3. PICK seen : seen = stream.seen \cup {h.id}
  OBVIOUS
<1>4. /\ stream.phase = "page" /\ stream.page # << >> /\ Sent(h)
      /\ stream' = [stream EXCEPT !.page = rest, !.seen = seen]
      /\ UNCHANGED << clock, job, steps, pending, watch >>
  BY <1>1, <1>2, <1>3 DEF Replay
<1>5. stream \in Streams /\ stream.page \in Seq(Step) /\ stream.page \in Seq(Frame) /\ Running
  BY <1>4, Frames DEF IInv, StreamTyped, Streams, Running
<1>6. h \in Step /\ rest \in Seq(Step) /\ Len(rest) = Len(stream.page) - 1 /\ Len(stream.page) \in Nat
  BY <1>1, <1>2, <1>4, <1>5, HeadTailProperties, LenProperties
<1>7. h.id # 0 /\ h.id \in Ids /\ {h.id} \ {0} = {h.id}
  BY <1>6, StepFields
<1>8. /\ Drawn(Rows, rest) /\ h \in Rows
      /\ Named(stream.page) = Named(rest) \cup {h.id}
  BY <1>1, <1>2, <1>4, <1>5, <1>7, DrawnTail, NamedTail DEF IInv, Copies
<1>9. Told(Firm, Going \cup {h.id}, h) /\ InLine(Firm, rest, Going \cup {h.id})
  <2>1. PICK F : F = Firm
    OBVIOUS
  <2>2. PICK S : S = Going
    OBVIOUS
  <2>3. InLine(F, stream.page, S)
    BY <1>5, <2>1, <2>2 DEF IInv, ReplayWhole
  <2>4. Told(F, S \cup {h.id}, h) /\ InLine(F, rest, S \cup {h.id})
    BY <1>1, <1>2, <1>4, <1>5, <1>7, <2>3, InLineTail
  <2> QED
    BY <2>1, <2>2, <2>4
<1>10. /\ WireTyped' /\ InLine(Firm, wire', watch.got) /\ Drawn(Rows, wire')
       /\ Tells(wire') => Tells(wire)
       /\ Going' = Going \cup {h.id}
  BY <1>4, <1>5, <1>6, <1>8, <1>9, SentFacts
<1>11. /\ stream'.phase = "page" /\ stream'.ended = stream.ended /\ stream'.over = stream.over
       /\ stream'.queue = stream.queue /\ stream'.seen = seen /\ stream'.page = rest
       /\ stream'.cursor = stream.cursor /\ stream'.more = stream.more
  BY <1>4, <1>5 DEF Streams
<1>12. StreamTyped'
  <2>1. seen \in SUBSET Ids
    BY <1>3, <1>5, <1>7 DEF Streams
  <2>2. stream' \in Streams
    BY <1>4, <1>5, <1>6, <2>1 DEF Streams
  <2>3. Len(rest) <= ReplayLimit
    BY <1>6, Constants DEF IInv, StreamTyped
  <2> QED
    BY <1>11, <2>2, <2>3 DEF IInv, StreamTyped
<1>13. Rows' = Rows /\ Firm' = Firm
  BY <1>4 DEF Rows, Firm, Overtaken
<1>14. Copies'
  BY <1>4, <1>8, <1>10, <1>11, <1>13 DEF IInv, Copies
<1>15. EndTrue'
  BY <1>4, <1>10, <1>11 DEF IInv, EndTrue, EndTold
<1>16. WireWhole'
  BY <1>4, <1>10, <1>11, <1>13 DEF WireWhole
<1>17. Replayed' = Replayed /\ Queued' = Queued
  BY <1>8, <1>10, <1>11 DEF Replayed, Queued
<1>18. ReplayWhole'
  BY <1>3, <1>4, <1>5, <1>9, <1>10, <1>11, <1>13, <1>17 DEF IInv, ReplayWhole
<1>19. QueueWhole'
  BY <1>4, <1>11, <1>13, <1>17 DEF IInv, QueueWhole, CaughtUp
<1> QED
  BY <1>4, <1>10, <1>12, <1>14, <1>15, <1>16, <1>18, <1>19, Unmoved DEF IInv

\* A stream that only goes on to its next phase.
LEMMA PhaseKeeps ==
    ASSUME IInv, UNCHANGED << clock, job, steps, pending, wire, watch >>,
           stream.phase = "page", stream.page = << >>,
           NEW phase \in {"list", "live"}, stream' = [stream EXCEPT !.phase = phase],
           phase = "list" <=> stream.more
    PROVE  IInv'
<1>1. stream \in Streams
  BY DEF IInv, StreamTyped
<1>2. /\ stream'.phase = phase /\ stream'.ended = stream.ended /\ stream'.over = stream.over
      /\ stream'.queue = stream.queue /\ stream'.seen = stream.seen /\ stream'.page = stream.page
      /\ stream'.cursor = stream.cursor /\ stream'.more = stream.more
  BY <1>1 DEF Streams
<1>3. StreamTyped'
  <2>1. stream' \in Streams
    BY <1>1 DEF Streams
  <2> QED
    BY <1>2, <2>1 DEF IInv, StreamTyped
<1>4. Rows' = Rows /\ Firm' = Firm
  BY DEF Rows, Firm, Overtaken
<1>5. Copies'
  BY <1>2, <1>4 DEF IInv, Copies
<1>6. EndTrue'
  BY <1>2 DEF IInv, EndTrue, EndTold
<1>7. WireWhole'
  BY <1>2, <1>4 DEF IInv, WireWhole
<1>8. Going' = Going /\ Replayed' = Replayed /\ Queued' = Queued
  BY <1>2 DEF Going, Replayed, Queued
<1>9. ReplayWhole'
  BY <1>2, <1>4, <1>8 DEF IInv, ReplayWhole, Running
<1>10. QueueWhole'
  BY <1>2, <1>4, <1>8 DEF IInv, QueueWhole, CaughtUp
<1> QED
  BY <1>3, <1>5, <1>6, <1>7, <1>9, <1>10, Unmoved DEF IInv

\* The end of a page: the next one, the end of the job, or the live steps.
LEMMA PageReadKeeps == IInv /\ PageRead => IInv'
<1> SUFFICES ASSUME IInv, PageRead PROVE IInv'
  OBVIOUS
<1>1. /\ stream.phase = "page" /\ stream.page = << >>
      /\ UNCHANGED << clock, job, steps, pending, watch >>
  BY DEF PageRead
<1>2. CASE stream.more /\ stream' = [stream EXCEPT !.phase = "list"] /\ UNCHANGED wire
  BY <1>1, <1>2, PhaseKeeps
<1>3. CASE ~stream.more /\ stream.ended /\ Finish(End)
  <2>1. EndTold
    BY <1>3 DEF EndTold
  <2>2. Whole(Firm, Replayed) /\ Replayed = Going
    BY <1>1, <1>3, NamedEmpty DEF IInv, ReplayWhole, Running, Replayed
  <2> QED
    BY <1>1, <1>3, <2>1, <2>2, FinishKeeps
<1>4. CASE ~stream.more /\ ~stream.ended /\ stream' = [stream EXCEPT !.phase = "live"] /\ UNCHANGED wire
  BY <1>1, <1>4, PhaseKeeps
<1> QED
  BY <1>2, <1>3, <1>4 DEF PageRead

\* The queue is taken in its order, until the end of the job or of the queue.
LEMMA LiveKeeps == IInv /\ Live => IInv'
<1> SUFFICES ASSUME IInv, Live PROVE IInv'
  OBVIOUS
<1>1. /\ stream.phase = "live" /\ UNCHANGED << clock, job, steps, pending, watch >>
  BY DEF Live
<1>2. /\ stream \in Streams /\ Running /\ CaughtUp /\ stream.page = << >>
      /\ stream.queue \in Seq(Step \cup {End}) /\ stream.queue \in Seq(Frame)
  BY <1>1, Frames DEF IInv, StreamTyped, Streams, Running, CaughtUp, ReplayWhole
<1>3. Replayed = Going
  BY <1>2, NamedEmpty DEF Replayed
<1>4. CASE stream.over /\ Finish(Overflow)
  <2>1. Overflow # End
    BY Frames
  <2> QED
    BY <1>1, <1>4, <2>1, FinishKeeps
<1>5. PICK h : h = Head(stream.queue)
  OBVIOUS
<1>6. PICK rest : rest = Tail(stream.queue)
  OBVIOUS
<1>7. ASSUME ~stream.over, stream.queue # << >>
      PROVE  /\ Told(Firm, Going \cup ({h.id} \ {0}), h)
             /\ InLine(Firm, rest, Going \cup ({h.id} \ {0}))
  <2>1. PICK F : F = Firm
    OBVIOUS
  <2>2. PICK S : S = Going
    OBVIOUS
  <2>3. InLine(F, stream.queue, S)
    BY <1>2, <1>3, <1>7, <2>1, <2>2 DEF IInv, QueueWhole
  <2>4. Told(F, S \cup ({h.id} \ {0}), h) /\ InLine(F, rest, S \cup ({h.id} \ {0}))
    BY <1>2, <1>5, <1>6, <1>7, <2>3, InLineTail
  <2> QED
    BY <2>1, <2>2, <2>4
<1>8. CASE ~stream.over /\ stream.queue # << >> /\ h = End /\ Finish(End)
  <2>1. EndTold
    BY <1>2, <1>5, <1>8, TellsMore DEF EndTold
  <2>2. Whole(Firm, Going)
    BY <1>7, <1>8, Frames DEF Told, Whole
  <2> QED
    BY <1>1, <1>8, <2>1, <2>2, FinishKeeps
<1>9. CASE /\ ~stream.over /\ stream.queue # << >> /\ h # End /\ Sent(h)
           /\ stream' = [stream EXCEPT !.queue = rest, !.seen = stream.seen \cup {h.id}]
  <2>1. /\ h \in Step /\ rest \in Seq(Step \cup {End}) /\ Len(rest) = Len(stream.queue) - 1
        /\ Len(stream.queue) \in Nat
    BY <1>2, <1>5, <1>6, <1>9, HeadTailProperties, LenProperties
  <2>2. h.id # 0 /\ h.id \in Ids /\ {h.id} \ {0} = {h.id}
    BY <2>1, StepFields
  <2>3. /\ Drawn(Rows, rest) /\ h \in Rows
        /\ Named(stream.queue) = Named(rest) \cup {h.id}
        /\ Tells(rest) => Tells(stream.queue)
    BY <1>2, <1>5, <1>6, <1>9, <2>2, DrawnTail, NamedTail, TellsMore DEF IInv, Copies
  <2>4. Told(Firm, Going \cup {h.id}, h) /\ InLine(Firm, rest, Going \cup {h.id})
    BY <1>7, <1>9, <2>2
  <2>5. /\ WireTyped' /\ InLine(Firm, wire', watch.got) /\ Drawn(Rows, wire')
        /\ Tells(wire') => Tells(wire)
        /\ Going' = Going \cup {h.id}
    BY <1>1, <1>2, <1>9, <2>1, <2>3, <2>4, SentFacts
  <2>6. PICK seen : seen = stream.seen \cup {h.id}
    OBVIOUS
  <2>7. stream' = [stream EXCEPT !.queue = rest, !.seen = seen]
    BY <1>9, <2>6
  <2>8. /\ stream'.phase = "live" /\ stream'.ended = stream.ended /\ stream'.over = stream.over
        /\ stream'.queue = rest /\ stream'.seen = seen /\ stream'.page = stream.page
        /\ stream'.cursor = stream.cursor /\ stream'.more = stream.more
    BY <1>1, <1>2, <2>7 DEF Streams
  <2>9. StreamTyped'
    <3>1. seen \in SUBSET Ids
      BY <1>2, <2>2, <2>6 DEF Streams
    <3>2. stream' \in Streams
      BY <1>2, <2>1, <2>7, <3>1 DEF Streams
    <3>3. Len(rest) <= QueueLimit
      BY <2>1, Constants DEF IInv, StreamTyped
    <3> QED
      BY <2>8, <3>2, <3>3 DEF IInv, StreamTyped
  <2>10. Rows' = Rows /\ Firm' = Firm
    BY <1>1 DEF Rows, Firm, Overtaken
  <2>11. Copies'
    BY <1>1, <2>3, <2>5, <2>8, <2>10 DEF IInv, Copies
  <2>12. EndTrue'
    BY <1>1, <2>3, <2>5, <2>8 DEF IInv, EndTrue, EndTold
  <2>13. WireWhole'
    BY <1>1, <2>5, <2>8, <2>10 DEF WireWhole
  <2>14. Replayed' = Going \cup {h.id} /\ Queued' = Queued
    BY <1>2, <1>3, <2>3, <2>5, <2>8, NamedEmpty DEF Replayed, Queued
  <2>15. ReplayWhole'
    <3>1. Past(Firm, Replayed', stream.cursor)
      BY <1>2, <1>3, <2>14 DEF IInv, ReplayWhole, Past
    <3>2. InLine(Firm, << >>, Going')
      BY DEF InLine
    <3> QED
      BY <1>1, <1>2, <2>5, <2>6, <2>8, <2>10, <3>1, <3>2 DEF IInv, ReplayWhole
  <2>16. QueueWhole'
    BY <1>1, <1>2, <1>9, <2>4, <2>8, <2>10, <2>14 DEF IInv, QueueWhole
  <2> QED
    BY <1>1, <2>5, <2>9, <2>11, <2>12, <2>13, <2>15, <2>16, Unmoved DEF IInv
<1> QED
  BY <1>4, <1>5, <1>6, <1>8, <1>9 DEF Live


-----------------------------------------------------------------------------
(* The steps of the watcher keep the invariant.                            *)

\* A stream begins behind the last document the watcher has.
LEMMA OpenKeeps == IInv /\ Open => IInv'
<1> SUFFICES ASSUME IInv, Open PROVE IInv'
  OBVIOUS
<1>1. /\ stream.phase = "none" /\ UNCHANGED << clock, job, steps, pending, wire, watch >>
      /\ stream' = [NoStream EXCEPT !.phase = "report", !.cursor = watch.cursor]
  BY DEF Open
<1>2. watch.cursor \in Spot
  BY DEF IInv, WatchTyped, Watches
<1>3. /\ stream'.phase = "report" /\ stream'.queue = << >> /\ stream'.page = << >>
      /\ ~stream'.ended /\ stream'.seen = {} /\ stream'.cursor = watch.cursor /\ ~stream'.over
      /\ stream' \in Streams
  <2>1. /\ NoStream.queue = << >> /\ NoStream.page = << >> /\ NoStream.ended = FALSE
        /\ NoStream.seen = {} /\ NoStream.over = FALSE
    BY DEF NoStream
  <2>2. NoStream \in Streams
    BY NoStreamFacts
  <2>3. stream' \in Streams
    BY <1>1, <1>2, <2>2 DEF Streams
  <2> QED
    BY <1>1, <2>1, <2>2, <2>3 DEF Streams
<1>4. StreamTyped'
  BY <1>3, Constants DEF StreamTyped
<1>5. Rows' = Rows /\ Firm' = Firm
  BY <1>1 DEF Rows, Firm, Overtaken
<1>6. Copies'
  <2>1. Drawn(Rows, << >>)
    BY DEF Drawn
  <2> QED
    BY <1>1, <1>3, <1>5, <2>1 DEF IInv, Copies
<1>7. EndTrue'
  <2>1. ~Tells(<< >>)
    BY DEF Tells
  <2> QED
    BY <1>1, <1>3, <2>1 DEF IInv, EndTrue, EndTold
<1>8. wire = << >>
  BY <1>1 DEF IInv, WireWhole
<1>9. WireWhole'
  BY <1>1, <1>3, <1>5 DEF IInv, WireWhole
<1>10. ReplayWhole'
  <2>1. Replayed' = watch.got
    BY <1>1, <1>3, <1>8, NamedEmpty DEF Replayed, Going
  <2>2. InLine(Firm, << >>, Going')
    BY DEF InLine
  <2> QED
    BY <1>1, <1>3, <1>5, <2>1, <2>2 DEF IInv, ReplayWhole, CursorWhole
<1>11. QueueWhole'
  BY <1>3 DEF QueueWhole, CaughtUp
<1> QED
  BY <1>1, <1>4, <1>6, <1>7, <1>9, <1>10, <1>11, Unmoved DEF IInv

\* One level further: polls begin behind the last document the watcher has.
LEMMA FallbackKeeps ==
    ASSUME IInv, Watching, Fallback, UNCHANGED << clock, job, steps >>
    PROVE  /\ WatchTyped' /\ CursorWhole' /\ PollWhole' /\ FirstWhole' /\ DocumentsComplete'
           /\ watch'.got = watch.got /\ watch'.ended = watch.ended
           /\ watch'.outcome = watch.outcome
<1>1. CASE watch.on = "poll"
  <2>1. watch' = watch
    BY <1>1 DEF Fallback, IInv, WatchTyped, Watches
  <2> QED
    BY <2>1, Unmoved DEF IInv
<1>2. CASE watch.on # "poll"
  <2>1. watch \in Watches /\ watch.list = 0 /\ watch.outcome = "none"
    BY <1>2 DEF IInv, WatchTyped, Watching
  <2>2. PICK on \in {"sse", "poll"} : on = IF watch.on = "websocket" THEN "sse" ELSE "poll"
    OBVIOUS
  <2>3. PICK at : at = IF watch.on = "sse" THEN << watch.cursor, watch.cursor >> ELSE watch.at
    OBVIOUS
  <2>4. watch' = [watch EXCEPT !.on = on, !.at = at]
    BY <2>2, <2>3 DEF Fallback
  <2>5. at \in [1..2 -> Spot]
    <3>1. watch.cursor \in Spot /\ watch.at \in [1..2 -> Spot]
      BY <2>1 DEF Watches
    <3>2. << watch.cursor, watch.cursor >> \in [1..2 -> Spot]
      BY <3>1
    <3> QED
      BY <2>3, <3>1, <3>2
  <2>6. /\ watch'.on = on /\ watch'.at = at /\ watch'.got = watch.got /\ watch'.ended = watch.ended
        /\ watch'.outcome = watch.outcome /\ watch'.list = watch.list
        /\ watch'.cursor = watch.cursor /\ watch'.failures = watch.failures
    BY <2>1, <2>4 DEF Watches
  <2>7. WatchTyped'
    <3>1. watch' \in Watches
      BY <2>1, <2>4, <2>5 DEF Watches
    <3> QED
      BY <2>1, <2>6, <3>1 DEF IInv, WatchTyped, Watching
  <2>8. Rows' = Rows /\ Firm' = Firm
    BY DEF Rows, Firm, Overtaken
  <2>9. CursorWhole'
    BY <2>6, <2>8 DEF IInv, CursorWhole
  <2>10. PollWhole'
    <3> SUFFICES ASSUME on = "poll", NEW l \in 1..Len(Lists(job.kind))
                 PROVE  /\ Known(Rows, at[l])
                        /\ \A s \in Firm : s.id \in watch.got \/ Before(at[l], s)
      BY <2>6, <2>8 DEF PollWhole
    <3>1. watch.on = "sse"
      BY <1>2, <2>1, <2>2 DEF Watches
    <3>2. l \in 1..2
      BY DEF Lists
    <3>3. at[l] = watch.cursor
      BY <2>3, <3>1, <3>2
    <3> QED
      BY <3>3 DEF IInv, CursorWhole, Past
  <2>11. FirstWhole' /\ DocumentsComplete'
    BY <2>1, <2>6 DEF FirstWhole, DocumentsComplete
  <2> QED
    BY <2>6, <2>7, <2>9, <2>10, <2>11
<1> QED
  BY <1>1, <1>2

\* A connection that could not be opened.
LEMMA OpenFailsKeeps == IInv /\ OpenFails => IInv'
<1> SUFFICES ASSUME IInv, OpenFails PROVE IInv'
  OBVIOUS
<1>1. /\ Watching /\ watch.on # "poll" /\ Fallback
      /\ UNCHANGED << clock, job, steps, pending, stream, wire >>
  BY DEF OpenFails
<1>2. /\ WatchTyped' /\ CursorWhole' /\ PollWhole' /\ FirstWhole' /\ DocumentsComplete'
      /\ watch'.got = watch.got /\ watch'.ended = watch.ended /\ watch'.outcome = watch.outcome
  BY <1>1, FallbackKeeps
<1>3. EndTrue'
  BY <1>1, <1>2 DEF IInv, EndTrue, EndTold
<1> QED
  BY <1>1, <1>2, <1>3, Unmoved DEF IInv

\* A connection that has ended, all it delivered received.
LEMMA ClosedKeeps == IInv /\ Closed => IInv'
<1> SUFFICES ASSUME IInv, Closed PROVE IInv'
  OBVIOUS
<1>1. /\ Watching /\ stream.phase = "closed" /\ wire = << >> /\ Fallback /\ stream' = NoStream
      /\ UNCHANGED << clock, job, steps, pending, wire >>
  BY DEF Closed
<1>2. /\ WatchTyped' /\ CursorWhole' /\ PollWhole' /\ FirstWhole' /\ DocumentsComplete'
      /\ watch'.got = watch.got /\ watch'.ended = watch.ended /\ watch'.outcome = watch.outcome
  BY <1>1, FallbackKeeps
<1>3. /\ stream'.phase = "none" /\ stream'.queue = << >> /\ stream'.page = << >>
      /\ ~stream'.ended /\ stream' \in Streams
  BY <1>1, NoStreamFacts
<1>4. StreamTyped'
  BY <1>3, Constants DEF StreamTyped
<1>5. Rows' = Rows /\ Firm' = Firm
  BY <1>1 DEF Rows, Firm, Overtaken
<1>6. Copies'
  <2>1. Drawn(Rows, << >>)
    BY DEF Drawn
  <2> QED
    BY <1>1, <1>3, <1>5, <2>1 DEF IInv, Copies
<1>7. EndTrue'
  <2>1. ~Tells(<< >>)
    BY DEF Tells
  <2> QED
    BY <1>1, <1>2, <1>3, <2>1 DEF IInv, EndTrue, EndTold
<1>8. WireWhole'
  BY <1>1, <1>2, <1>3, <1>5 DEF IInv, WireWhole
<1>9. ReplayWhole' /\ QueueWhole'
  BY <1>3 DEF ReplayWhole, QueueWhole, Running, CaughtUp
<1> QED
  BY <1>1, <1>2, <1>4, <1>6, <1>7, <1>8, <1>9, Unmoved DEF IInv


\* A watcher that has more lacks less.
LEMMA GotMore ==
    ASSUME IInv, UNCHANGED << steps, pending, stream, wire >>, watch.got \subseteq watch'.got
    PROVE  WireWhole' /\ ReplayWhole' /\ QueueWhole'
<1>1. Rows' = Rows /\ Firm' = Firm
  BY DEF Rows, Firm, Overtaken
<1>2. /\ Going \subseteq Going' /\ Replayed \subseteq Replayed' /\ Queued \subseteq Queued'
      /\ Running' = Running /\ CaughtUp' = CaughtUp
  BY DEF Going, Replayed, Queued, Running, CaughtUp
<1>3. \A seq, S, T : InLine(Firm, seq, S) /\ S \subseteq T => InLine(Firm, seq, T)
  <2>1. PICK F : F = Firm
    OBVIOUS
  <2>2. \A seq, S, T : InLine(F, seq, S) /\ S \subseteq T => InLine(F, seq, T)
    BY InLineMore
  <2> QED
    BY <2>1, <2>2
<1>4. \A S, T : Whole(Firm, S) /\ S \subseteq T => Whole(Firm, T)
  BY DEF Whole
<1>5. \A S, T, pos : Past(Firm, S, pos) /\ S \subseteq T => Past(Firm, T, pos)
  BY DEF Past
<1>6. WireWhole'
  BY <1>1, <1>3 DEF IInv, WireWhole
<1>7. ReplayWhole'
  <2> SUFFICES ASSUME Running PROVE ReplayWhole'
    BY <1>2 DEF ReplayWhole
  <2>1. /\ stream.seen \subseteq Going' /\ InLine(Firm, stream.page, Going')
        /\ Past(Firm, Replayed', stream.cursor)
        /\ stream.phase = "page" /\ ~stream.more /\ stream.ended => Whole(Firm, Replayed')
    BY <1>2, <1>3, <1>4, <1>5 DEF IInv, ReplayWhole
  <2> QED
    BY <1>1, <2>1 DEF IInv, ReplayWhole
<1>8. QueueWhole'
  <2> SUFFICES ASSUME CaughtUp, ~stream.over PROVE QueueWhole'
    BY <1>2 DEF QueueWhole
  <2>1. Queued \cup Named(pending) \subseteq Queued' \cup Named(pending)
    BY <1>2
  <2>2. /\ InLine(Firm, stream.queue, Replayed') /\ InLine(Firm, pending, Queued')
        /\ Whole(Firm, Queued' \cup Named(pending))
    BY <1>2, <1>3, <1>4, <2>1 DEF IInv, QueueWhole
  <2> QED
    BY <1>1, <2>2 DEF QueueWhole
<1> QED
  BY <1>6, <1>7, <1>8

\* A frame is taken: a document moves the cursor to it, the end ends the watch.
LEMMA ReceiveKeeps == IInv /\ Receive => IInv'
<1> SUFFICES ASSUME IInv, Receive PROVE IInv'
  OBVIOUS
<1>1. PICK h : h = Head(wire)
  OBVIOUS
<1>2. PICK rest : rest = Tail(wire)
  OBVIOUS
<1>3. /\ watch.outcome = "none" /\ wire # << >> /\ wire' = rest
      /\ UNCHANGED << clock, job, steps, pending, stream >>
      /\ \/ h = End /\ watch' = [watch EXCEPT !.outcome = "done"]
         \/ h = Overflow /\ watch' = [watch EXCEPT !.outcome = "error"]
         \/ h.id \in watch.got /\ UNCHANGED watch
         \/ h.id \in Ids \ watch.got
            /\ watch' = [watch EXCEPT !.got = watch.got \cup {h.id}, !.cursor = Pos(h)]
  BY <1>1, <1>2 DEF Receive, Watching
<1>4. wire \in Seq(Frame) /\ Len(wire) <= WireLimit /\ watch \in Watches
  BY DEF IInv, WireTyped, WatchTyped
<1>5. /\ h \in Frame /\ rest \in Seq(Frame) /\ Len(rest) = Len(wire) - 1 /\ Len(wire) \in Nat
  BY <1>1, <1>2, <1>3, <1>4, HeadTailProperties, LenProperties
<1>6. /\ Drawn(Rows, rest) /\ (h.id # 0 => h \in Rows)
      /\ Named(wire) = Named(rest) \cup ({h.id} \ {0})
      /\ Tells(rest) => Tells(wire)
      /\ h = End => Tells(wire)
  BY <1>1, <1>2, <1>3, <1>4, DrawnTail, NamedTail, TellsMore DEF IInv, Copies
<1>7. /\ Told(Firm, watch.got \cup ({h.id} \ {0}), h)
      /\ InLine(Firm, rest, watch.got \cup ({h.id} \ {0}))
  <2>1. PICK F : F = Firm
    OBVIOUS
  <2>2. PICK S : S = watch.got
    OBVIOUS
  <2>3. InLine(F, wire, S)
    BY <2>1, <2>2 DEF IInv, WireWhole
  <2>4. Told(F, S \cup ({h.id} \ {0}), h) /\ InLine(F, rest, S \cup ({h.id} \ {0}))
    BY <1>1, <1>2, <1>3, <1>4, <2>3, InLineTail
  <2> QED
    BY <2>1, <2>2, <2>4
<1>8. /\ watch'.on = watch.on /\ watch'.list = watch.list /\ watch'.at = watch.at
      /\ watch'.ended = watch.ended /\ watch'.failures = watch.failures
      /\ watch'.got = watch.got \cup ({h.id} \ {0})
      /\ watch'.outcome = "done" => h = End
  <2>1. End.id = 0 /\ Overflow.id = 0 /\ 0 \notin Ids /\ watch.got \subseteq Ids
    BY <1>4, Frames, Constants DEF Watches
  <2> QED
    BY <1>3, <1>4, <2>1, Frames DEF Watches
<1>9. Rows' = Rows /\ Firm' = Firm
  BY <1>3 DEF Rows, Firm, Overtaken
<1>10. WireTyped'
  BY <1>3, <1>4, <1>5, Constants DEF WireTyped
<1>11. WatchTyped'
  <2>1. h.id # 0 => Pos(h) \in Spot
    BY <1>5, Frames, StepFields DEF Pos, Spot
  <2>2. 0 \notin Ids
    BY Constants
  <2>3. watch' \in Watches
    <3>1. CASE watch' = [watch EXCEPT !.outcome = "done"] \/ watch' = [watch EXCEPT !.outcome = "error"]
      BY <1>4, <3>1 DEF Watches
    <3>2. CASE UNCHANGED watch
      BY <1>4, <3>2
    <3>3. CASE /\ h.id \in Ids \ watch.got
               /\ watch' = [watch EXCEPT !.got = watch.got \cup {h.id}, !.cursor = Pos(h)]
      <4>1. PICK pos \in Spot : pos = Pos(h)
        BY <2>1, <2>2, <3>3
      <4>2. PICK got \in SUBSET Ids : got = watch.got \cup {h.id}
        BY <1>4, <3>3 DEF Watches
      <4>3. watch' = [watch EXCEPT !.got = got, !.cursor = pos]
        BY <3>3, <4>1, <4>2
      <4> QED
        BY <1>4, <4>3 DEF Watches
    <3> QED
      BY <1>3, <3>1, <3>2, <3>3
  <2> QED
    BY <1>3, <1>8, <2>3 DEF IInv, WatchTyped, Watching
<1>12. Copies'
  BY <1>3, <1>6, <1>9 DEF IInv, Copies
<1>13. EndTrue'
  BY <1>3, <1>6, <1>8 DEF IInv, EndTrue, EndTold
<1>14. WireWhole'
  BY <1>3, <1>7, <1>8, <1>9 DEF IInv, WireWhole
<1>15. Going' = Going /\ Replayed' = Replayed /\ Queued' = Queued
  BY <1>3, <1>6, <1>8 DEF Going, Replayed, Queued
<1>16. ReplayWhole'
  BY <1>3, <1>9, <1>15 DEF IInv, ReplayWhole, Running
<1>17. QueueWhole'
  BY <1>3, <1>9, <1>15 DEF IInv, QueueWhole, CaughtUp
<1>18. CursorWhole'
  <2> USE DEF Are
  <2>1. CASE watch'.cursor = watch.cursor
    BY <1>6, <1>8, <1>9, <2>1 DEF IInv, CursorWhole, Past
  <2>2. CASE h.id \in Ids \ watch.got /\ watch'.cursor = Pos(h)
    <3>1. h.id # 0
      BY <2>2, Constants
    <3>2. Past(Firm, watch'.got, h)
      BY <1>7, <1>8, <3>1 DEF Told
    <3>3. Past(Firm, watch'.got, Pos(h))
      BY <3>2 DEF Past, Pos, Before
    <3>4. Known(Rows, Pos(h))
      BY <1>6, <3>1 DEF Known
    <3> QED
      BY <1>6, <1>8, <1>9, <2>2, <3>3, <3>4 DEF IInv, CursorWhole
  <2> QED
    BY <1>3, <1>4, <2>1, <2>2 DEF Watches
<1>19. PollWhole' /\ FirstWhole'
  <2>1. \A list, s : Listed(list, s)' <=> Listed(list, s)
    BY <1>3 DEF Listed
  <2>2. PollWhole'
    BY <1>3, <1>8, <1>9, <2>1 DEF IInv, PollWhole
  <2>3. FirstWhole'
    BY <1>3, <1>8, <1>9, <2>1 DEF IInv, FirstWhole
  <2> QED
    BY <2>2, <2>3
<1>20. DocumentsComplete'
  <2> SUFFICES ASSUME h = End PROVE DocumentsComplete'
    BY <1>8 DEF DocumentsComplete
  <2>1. job.status = "ended"
    BY <1>6 DEF IInv, EndTrue, EndTold
  <2>2. Whole(Firm, watch'.got)
    BY <1>7, <1>8 DEF Told
  <2>3. \A k \in DOMAIN steps : Overtaken(k) \/ steps[k].id \in watch'.got
    BY <2>2 DEF Whole, Firm
  <2> QED
    BY <1>3, <2>1, <2>3 DEF DocumentsComplete, Overtaken
<1> QED
  BY <1>3, <1>10, <1>11, <1>12, <1>13, <1>14, <1>16, <1>17, <1>18, <1>19, <1>20, Unmoved DEF IInv

\* A poll reads the report before its listings.
LEMMA PollReportKeeps == IInv /\ PollReport => IInv'
<1> SUFFICES ASSUME IInv, PollReport PROVE IInv'
  OBVIOUS
<1>1. /\ watch.outcome = "none" /\ watch.on = "poll"
      /\ watch' = [watch EXCEPT !.list = 1, !.ended = job.status = "ended"]
      /\ UNCHANGED << clock, job, steps, pending, stream, wire >>
  BY DEF PollReport, Watching
<1>2. watch \in Watches
  BY DEF IInv, WatchTyped
<1>3. PICK b \in BOOLEAN : b = (job.status = "ended")
  OBVIOUS
<1>4. /\ watch'.on = "poll" /\ watch'.list = 1 /\ watch'.at = watch.at /\ watch'.got = watch.got
      /\ watch'.ended = b /\ watch'.failures = watch.failures /\ watch'.outcome = "none"
      /\ watch'.cursor = watch.cursor /\ watch' \in Watches
  <2>1. watch' = [watch EXCEPT !.list = 1, !.ended = b]
    BY <1>1, <1>3
  <2>2. watch' \in Watches
    <3>1. PICK list \in 0..2 : list = 1
      OBVIOUS
    <3>2. watch' = [watch EXCEPT !.list = list, !.ended = b]
      BY <2>1, <3>1
    <3> QED
      BY <1>2, <3>2 DEF Watches
  <2> QED
    BY <1>1, <1>2, <2>1, <2>2 DEF Watches
<1>5. WatchTyped'
  <2>1. 1 <= Len(Lists(job.kind))
    BY DEF Lists
  <2> QED
    BY <1>1, <1>4, <2>1 DEF IInv, WatchTyped, Watching
<1>6. EndTrue'
  BY <1>1, <1>3, <1>4 DEF IInv, EndTrue, EndTold
<1>7. Rows' = Rows /\ Firm' = Firm
  BY <1>1 DEF Rows, Firm, Overtaken
<1>8. CursorWhole'
  BY <1>4, <1>7 DEF IInv, CursorWhole
<1>9. \A list, s : Listed(list, s)' <=> Listed(list, s)
  BY <1>1 DEF Listed
<1>10. PollWhole'
  BY <1>1, <1>4, <1>7, <1>9 DEF IInv, PollWhole
<1>11. FirstWhole' /\ DocumentsComplete'
  BY <1>4 DEF FirstWhole, DocumentsComplete
<1> QED
  BY <1>1, <1>4, <1>5, <1>6, <1>8, <1>10, <1>11, Unmoved DEF IInv

\* A poll that failed begins again at its report, up to a limit.
LEMMA PollFailsKeeps == IInv /\ PollFails => IInv'
<1> SUFFICES ASSUME IInv, PollFails PROVE IInv'
  OBVIOUS
<1>1. /\ watch.outcome = "none" /\ watch.on = "poll"
      /\ watch' = [watch EXCEPT !.list = 0, !.failures = watch.failures + 1,
                     !.outcome = IF watch.failures + 1 >= FailureLimit THEN "error"
                                 ELSE watch.outcome]
      /\ UNCHANGED << clock, job, steps, pending, stream, wire >>
  BY DEF PollFails, Watching
<1>2. watch \in Watches /\ watch.failures \in Nat /\ watch.failures < FailureLimit
      /\ FailureLimit \in Nat
  BY <1>1, Constants DEF IInv, WatchTyped, Watches, Watching
<1>3. PICK failures \in 0..FailureLimit : failures = watch.failures + 1
  BY <1>2
<1>4. PICK outcome \in {"none", "error"} :
        outcome = IF failures >= FailureLimit THEN "error" ELSE "none"
  OBVIOUS
<1>5. watch' = [watch EXCEPT !.list = 0, !.failures = failures, !.outcome = outcome]
  BY <1>1, <1>3, <1>4
<1>6. /\ watch'.on = "poll" /\ watch'.list = 0 /\ watch'.at = watch.at /\ watch'.got = watch.got
      /\ watch'.ended = watch.ended /\ watch'.failures = failures /\ watch'.outcome = outcome
      /\ watch'.cursor = watch.cursor /\ watch' \in Watches
  <2>1. watch' \in Watches
    <3>1. PICK list \in 0..2 : list = 0
      OBVIOUS
    <3>2. outcome \in {"none", "done", "error"}
      OBVIOUS
    <3>3. watch' = [watch EXCEPT !.list = list, !.failures = failures, !.outcome = outcome]
      BY <1>5, <3>1
    <3> QED
      BY <1>2, <3>2, <3>3 DEF Watches
  <2>2. watch.on = "poll"
    BY <1>1
  <2> QED
    BY <1>2, <1>5, <2>1, <2>2 DEF Watches
<1>7. WatchTyped'
  <2>1. outcome = "none" => failures < FailureLimit
    BY <1>2, <1>3, <1>4
  <2> QED
    BY <1>6, <2>1 DEF WatchTyped, Watching
<1>8. EndTrue'
  BY <1>1, <1>6 DEF IInv, EndTrue, EndTold
<1>9. Rows' = Rows /\ Firm' = Firm
  BY <1>1 DEF Rows, Firm, Overtaken
<1>10. CursorWhole'
  BY <1>6, <1>9 DEF IInv, CursorWhole
<1>11. \A list, s : Listed(list, s)' <=> Listed(list, s)
  BY <1>1 DEF Listed
<1>12. PollWhole'
  BY <1>1, <1>6, <1>9, <1>11 DEF IInv, PollWhole
<1>13. FirstWhole' /\ DocumentsComplete'
  BY <1>6 DEF FirstWhole, DocumentsComplete
<1> QED
  BY <1>1, <1>6, <1>7, <1>8, <1>10, <1>12, <1>13, Unmoved DEF IInv


\* A page of a poll's listing: its cursor moves behind the page, and a listing
\* read to its end leaves nothing out; the last poll has both listings.
LEMMA PollPageKeeps == IInv /\ PollPage => IInv'
<1> SUFFICES ASSUME IInv, PollPage PROVE IInv'
  OBVIOUS
<1>1. PICK list : list = Lists(job.kind)[watch.list]
  OBVIOUS
<1>2. PICK from : from = watch.at[watch.list]
  OBVIOUS
<1>3. PICK page : page = Page(list, from, ListLimit)
  OBVIOUS
<1>4. PICK more \in BOOLEAN : more = HasMore(list, from, ListLimit)
  <2>1. HasMore(list, from, ListLimit) \in BOOLEAN
    BY DEF HasMore
  <2> QED
    BY <2>1
<1>5. PICK last \in BOOLEAN : last = (~more /\ watch.list = Len(Lists(job.kind)))
  OBVIOUS
<1>6. PICK got : got = watch.got \cup {page[k].id : k \in DOMAIN page}
  OBVIOUS
<1>7. PICK to : to = IF page = << >> THEN from ELSE Pos(Last(page))
  OBVIOUS
<1>8. PICK next : next = IF more THEN watch.list ELSE IF last THEN 0 ELSE watch.list + 1
  OBVIOUS
<1>9. PICK failures : failures = IF last THEN 0 ELSE watch.failures
  OBVIOUS
<1>10. PICK outcome : outcome = IF last /\ watch.ended THEN "done" ELSE watch.outcome
  OBVIOUS
<1>11. /\ watch.outcome = "none" /\ watch.on = "poll" /\ watch.list # 0
       /\ watch' = [watch EXCEPT !.got = got, !.at[watch.list] = to, !.list = next,
                                 !.failures = failures, !.outcome = outcome]
       /\ UNCHANGED << clock, job, steps, pending, stream, wire >>
  <2>1. /\ watch.outcome = "none" /\ watch.on = "poll" /\ watch.list # 0
        /\ UNCHANGED << clock, job, steps, pending, stream, wire >>
    BY DEF PollPage, Watching
  <2>2. watch' = [watch EXCEPT
          !.got = watch.got \cup {page[k].id : k \in DOMAIN page},
          !.at[watch.list] = IF page = << >> THEN watch.at[watch.list] ELSE Pos(Last(page)),
          !.list = IF more THEN watch.list
                   ELSE IF ~more /\ watch.list = Len(Lists(job.kind)) THEN 0 ELSE watch.list + 1,
          !.failures = IF ~more /\ watch.list = Len(Lists(job.kind)) THEN 0 ELSE watch.failures,
          !.outcome = IF ~more /\ watch.list = Len(Lists(job.kind)) /\ watch.ended
                      THEN "done" ELSE watch.outcome]
    BY <1>1, <1>2, <1>3, <1>4 DEF PollPage, LastPoll
  <2>3. watch' = [watch EXCEPT !.got = got, !.at[watch.list] = to, !.list = next,
                               !.failures = failures, !.outcome = outcome]
    BY <1>2, <1>5, <1>6, <1>7, <1>8, <1>9, <1>10, <2>2
  <2> QED
    BY <2>1, <2>3
<1>12. /\ watch \in Watches /\ watch.list \in 1..Len(Lists(job.kind))
       /\ Len(Lists(job.kind)) \in {1, 2} /\ watch.list \in 1..2
       /\ watch.at \in [1..2 -> Spot] /\ watch.got \subseteq Ids
       /\ from \in Spot /\ list \in {"pages", "errors", "items"}
       /\ watch.failures \in 0..FailureLimit
  <2>1. watch \in Watches /\ watch.list \in 0..2 /\ watch.list <= Len(Lists(job.kind))
    BY <1>11 DEF IInv, WatchTyped, Watches
  <2>2. Len(Lists(job.kind)) \in {1, 2}
    BY DEF Lists
  <2>3. watch.list \in 1..Len(Lists(job.kind)) /\ watch.list \in 1..2
    BY <1>11, <2>1, <2>2
  <2>4. watch.at \in [1..2 -> Spot] /\ watch.got \subseteq Ids /\ watch.failures \in 0..FailureLimit
    BY <2>1 DEF Watches
  <2>5. from \in Spot
    BY <1>2, <2>3, <2>4
  <2>6. list \in {"pages", "errors", "items"}
    BY <1>1, <2>3 DEF Lists
  <2> QED
    BY <2>1, <2>2, <2>3, <2>4, <2>5, <2>6
<1>13. /\ page \in Seq(Step)
       /\ \A p \in 1..Len(page) : page[p] \in Rows
       /\ \A s \in Rows : Listed(list, s) /\ Before(from, s) =>
            \A p \in 1..Len(page) : s.id \in Upto(page, p) \/ Before(page[p], s)
       /\ page = << >> \/ ~more =>
            \A s \in Rows : Listed(list, s) /\ Before(from, s) => s.id \in Named(page)
  <2>1. ListLimit \in Nat /\ ListLimit >= 1 /\ JobTyped /\ StepsDistinct
    BY Constants DEF IInv
  <2> QED
    BY <1>3, <1>4, <2>1, PageFacts
<1>14. /\ page # << >> => /\ Len(page) \in 1..Len(page) /\ Last(page) = page[Len(page)]
                          /\ Upto(page, Len(page)) = Named(page)
       /\ {page[k].id : k \in DOMAIN page} = Named(page) /\ Named(page) \subseteq Ids
  BY <1>13, PageEnd
<1>15. got = watch.got \cup Named(page) /\ got \in SUBSET Ids
  BY <1>6, <1>12, <1>14
<1>16. Firm \subseteq Rows /\ Rows \subseteq Step
  BY RowsFacts DEF IInv
<1>17. Known(Rows, from) /\ \A s \in Firm : Listed(list, s) => s.id \in watch.got \/ Before(from, s)
  BY <1>1, <1>2, <1>11, <1>12 DEF IInv, PollWhole
<1>18. to \in Spot /\ Known(Rows, to)
  <2>1. CASE page = << >>
    BY <1>7, <1>12, <1>17, <2>1
  <2>2. CASE page # << >>
    <3>1. Last(page) \in Rows /\ to = Pos(Last(page))
      BY <1>7, <1>13, <1>14, <2>2
    <3>2. Last(page) \in Step
      BY <1>16, <3>1
    <3> QED
      BY <3>1, <3>2, StepFields DEF Known, Pos, Spot
  <2> QED
    BY <2>1, <2>2
<1>19. \A s \in Firm : Listed(list, s) => s.id \in got \/ Before(to, s)
  <2> SUFFICES ASSUME NEW s \in Firm, Listed(list, s), s.id \notin got
               PROVE  Before(to, s)
    OBVIOUS
  <2>1. Before(from, s) /\ s \in Rows
    BY <1>15, <1>16, <1>17
  <2>2. page # << >>
    BY <1>13, <1>15, <2>1
  <2>3. Before(Last(page), s)
    BY <1>13, <1>14, <1>15, <2>1, <2>2
  <2> QED
    BY <1>7, <2>2, <2>3 DEF Pos, Before
<1>20. ~more => \A s \in Firm : Listed(list, s) => s.id \in got
  BY <1>13, <1>15, <1>16, <1>17
<1>21. /\ next \in 0..2 /\ next <= Len(Lists(job.kind))
       /\ failures \in 0..FailureLimit /\ (outcome = "none" => failures < FailureLimit)
       /\ outcome \in {"none", "done"}
  <2>1. next \in 0..2 /\ next <= Len(Lists(job.kind))
    <3>1. PICK m \in 1..2 : m = Len(Lists(job.kind))
      BY <1>12
    <3>2. PICK l \in 1..m : l = watch.list
      BY <1>12, <3>1
    <3>3. next = IF more THEN l ELSE IF last THEN 0 ELSE l + 1
      BY <1>8, <3>2
    <3>4. ~more /\ ~last => l # m
      BY <1>5, <3>1, <3>2
    <3>5. m \in Int /\ m >= 1 /\ m <= 2
      OBVIOUS
    <3>6. l \in Int /\ l >= 1 /\ l <= m
      BY <3>5
    <3>7. next \in Int /\ next >= 0 /\ next <= m
      BY <3>3, <3>4, <3>5, <3>6
    <3> QED
      BY <3>1, <3>5, <3>7
  <2>2. FailureLimit \in Nat /\ FailureLimit >= 1 /\ watch.failures < FailureLimit
    BY <1>11, Constants DEF IInv, WatchTyped, Watching
  <2>3. failures \in 0..FailureLimit /\ failures < FailureLimit
    BY <1>9, <1>12, <2>2
  <2> QED
    BY <1>10, <1>11, <2>1, <2>3
<1>22. PICK at : at = [watch.at EXCEPT ![watch.list] = to]
  OBVIOUS
<1>23. at \in [1..2 -> Spot] /\ at[watch.list] = to
       /\ \A l \in 1..2 : l # watch.list => at[l] = watch.at[l]
  BY <1>12, <1>18, <1>22
<1>24. watch' = [watch EXCEPT !.got = got, !.at = at, !.list = next,
                              !.failures = failures, !.outcome = outcome]
  BY <1>11, <1>12, <1>22 DEF Watches
<1>25. watch' \in Watches
  BY <1>12, <1>15, <1>21, <1>23, <1>24 DEF Watches
<1>26. /\ watch'.on = "poll" /\ watch'.list = next /\ watch'.at = at /\ watch'.got = got
       /\ watch'.ended = watch.ended /\ watch'.failures = failures /\ watch'.outcome = outcome
       /\ watch'.cursor = watch.cursor
  BY <1>11, <1>12, <1>24 DEF Watches
<1>27. WatchTyped'
  BY <1>11, <1>21, <1>25, <1>26 DEF WatchTyped, Watching
<1>28. EndTrue'
  BY <1>10, <1>11, <1>26 DEF IInv, EndTrue, EndTold
<1>29. Rows' = Rows /\ Firm' = Firm
  BY <1>11 DEF Rows, Firm, Overtaken
<1>30. CursorWhole'
  <2>1. \A i \in Named(page) : \E r \in Rows : r.id = i
    BY <1>13 DEF Named
  <2> QED
    BY <1>15, <1>26, <1>29, <2>1 DEF IInv, CursorWhole, Past, Are
<1>31. WireWhole' /\ ReplayWhole' /\ QueueWhole'
  BY <1>11, <1>15, <1>26, GotMore
<1>32. PollWhole'
  <2> SUFFICES ASSUME NEW l \in 1..Len(Lists(job.kind)), NEW each, each = Lists(job.kind)[l]
               PROVE  /\ Known(Rows, at[l])
                      /\ \A s \in Firm : Listed(each, s) => s.id \in got \/ Before(at[l], s)
    BY <1>11, <1>26, <1>29 DEF PollWhole, Listed
  <2>1. CASE l = watch.list
    BY <1>1, <1>18, <1>19, <1>23, <2>1
  <2>2. CASE l # watch.list
    <3>1. at[l] = watch.at[l]
      BY <1>12, <1>23, <2>2
    <3>2. /\ Known(Rows, watch.at[l])
          /\ \A s \in Firm : Listed(each, s) => s.id \in watch.got \/ Before(watch.at[l], s)
      BY <1>11 DEF IInv, PollWhole
    <3> QED
      BY <1>15, <3>1, <3>2
  <2> QED
    BY <2>1, <2>2
<1>33. FirstWhole'
  <2> SUFFICES ASSUME watch.ended, next = 2, job.kind = "crawl", NEW s \in Firm, Listed("pages", s)
               PROVE  s.id \in got
    BY <1>11, <1>26, <1>29 DEF FirstWhole, Listed
  <2>1. CASE watch.list = 2
    BY <1>15, <2>1 DEF IInv, FirstWhole
  <2>2. CASE watch.list # 2
    <3>1. watch.list = 1
      BY <1>12, <2>2
    <3>2. ~more /\ list = "pages"
      BY <1>1, <1>8, <3>1 DEF Lists
    <3> QED
      BY <1>20, <3>2
  <2> QED
    BY <2>1, <2>2
<1>34. DocumentsComplete'
  <2> SUFFICES ASSUME last, watch.ended, NEW k \in DOMAIN steps,
                      ~Overtaken(k), job.kind = "crawl" => steps[k].attempt = job.attempt
               PROVE  job.status = "ended" /\ steps[k].id \in got
    <3>1. watch'.outcome = "done" => last /\ watch.ended
      BY <1>10, <1>11, <1>26
    <3>2. last /\ watch.ended => job.status = "ended"
      BY DEF IInv, EndTrue, EndTold
    <3> QED
      BY <1>11, <1>26, <3>1, <3>2 DEF DocumentsComplete, Overtaken
  <2>1. job.status = "ended"
    BY DEF IInv, EndTrue, EndTold
  <2>2. steps[k] \in Firm /\ ~more /\ watch.list = Len(Lists(job.kind))
    BY <1>5 DEF Firm
  <2>3. CASE job.kind = "batch"
    <3>1. list = "items"
      BY <1>1, <2>2, <2>3 DEF Lists
    <3> QED
      BY <1>20, <2>1, <2>2, <3>1 DEF Listed
  <2>4. CASE job.kind # "batch"
    <3>1. job.kind = "crawl"
      BY <2>4, WatchAssumption DEF IInv, JobTyped
    <3>2. watch.list = 2 /\ list = "errors"
      BY <1>1, <2>2, <2>4 DEF Lists
    <3>3. Listed("pages", steps[k]) \/ Listed("errors", steps[k])
      BY <3>1 DEF Listed
    <3>4. Listed("pages", steps[k]) => steps[k].id \in watch.got
      BY <2>2, <3>1, <3>2 DEF IInv, FirstWhole
    <3> QED
      BY <1>15, <1>20, <2>1, <2>2, <3>2, <3>3, <3>4
  <2> QED
    BY <2>3, <2>4
<1> QED
  BY <1>11, <1>27, <1>28, <1>30, <1>31, <1>32, <1>33, <1>34, Unmoved DEF IInv


-----------------------------------------------------------------------------
(* The theorems.                                                           *)

\* Every step of the system keeps the invariant.
LEMMA NextKeeps == IInv /\ [Next]_vars => IInv'
<1> SUFFICES ASSUME IInv, [Next]_vars PROVE IInv'
  OBVIOUS
<1>1. CASE Tick
  BY <1>1, TickKeeps
<1>2. CASE EndJob
  BY <1>2, EndJobKeeps
<1>3. CASE Emit
  BY <1>3, EmitKeeps
<1>4. CASE Restart
  BY <1>4, RestartKeeps
<1>5. CASE \E i \in Ids : Record(i)
  BY <1>5, RecordKeeps
<1>6. CASE \E n \in 0..Len(wire) : Crash(n) \/ Cut(n)
  BY <1>6, CrashKeeps, CutKeeps
<1>7. CASE StreamStep
  BY <1>7, ReadReportKeeps, ReadPageKeeps, ReplayKeeps, PageReadKeeps, LiveKeeps DEF StreamStep
<1>8. CASE WatchStep
  BY <1>8, OpenKeeps, ReceiveKeeps, ClosedKeeps, PollReportKeeps, PollPageKeeps DEF WatchStep
<1>9. CASE OpenFails
  BY <1>9, OpenFailsKeeps
<1>10. CASE PollFails
  BY <1>10, PollFailsKeeps
<1>11. CASE UNCHANGED vars
  BY <1>11, Unmoved DEF vars, IInv
<1> QED
  BY <1>1, <1>2, <1>3, <1>4, <1>5, <1>6, <1>7, <1>8, <1>9, <1>10, <1>11 DEF Next

\* The invariant holds for any steps, attempts, restarts and limits.
THEOREM WatchInvariant == Spec => []IInv
BY InitInv, NextKeeps, PTL DEF Spec

\* The state keeps its types, and the wire, the queue and a page their limits.
THEOREM WatchTypeCorrect == Spec => []TypeOK
<1>1. IInv => TypeOK
  <2> SUFFICES ASSUME IInv PROVE TypeOK
    OBVIOUS
  <2>1. steps \in Seq(Step) /\ Len(steps) <= Cardinality(Ids)
    BY RowsFacts DEF IInv, JobTyped
  <2>2. Frame = Step \cup {End, Overflow}
    BY DEF Frame
  <2>3. wire \in Seq(Step \cup {End, Overflow}) /\ Len(wire) <= WireLimit
    BY <2>2 DEF IInv, WireTyped
  <2>4. /\ stream.phase \in {"none", "report", "list", "page", "live", "closed"}
        /\ stream.queue \in Seq(Step \cup {End}) /\ Len(stream.queue) <= QueueLimit
        /\ stream.seen \subseteq Ids /\ stream.page \in Seq(Step)
        /\ Len(stream.page) <= ReplayLimit
    BY DEF IInv, StreamTyped, Streams
  <2>5. /\ watch.on \in {"websocket", "sse", "poll"} /\ watch.got \subseteq Ids
        /\ watch.list \in 0..2 /\ watch.failures \in 0..FailureLimit
        /\ watch.outcome \in {"none", "done", "error"}
    BY DEF IInv, WatchTyped, Watches
  <2> QED
    BY <2>1, <2>3, <2>4, <2>5 DEF IInv, JobTyped, TypeOK
<1> QED
  BY <1>1, WatchInvariant, PTL

\* A watch that is told the end has every document no cursor could hide from it.
THEOREM CompletenessSafety == Spec => []DocumentsComplete
<1>1. IInv => DocumentsComplete
  BY DEF IInv
<1> QED
  BY <1>1, WatchInvariant, PTL


\* No two steps are of one millisecond.
Untied == \A j, k \in DOMAIN steps : steps[j].at = steps[k].at => j = k

\* What the SDK's doc says of a batch, that the watcher has every document
\* (watcher.ts), is so whenever no two of its steps are of one millisecond.
THEOREM EveryDocumentUntied == Spec => [](Untied => EveryDocument)
<1>1. IInv /\ Untied => EveryDocument
  <2> SUFFICES ASSUME IInv, Untied, watch.outcome = "done", job.kind = "batch"
               PROVE  watch.got = Recorded
    BY DEF EveryDocument
  <2>1. ASSUME NEW k \in DOMAIN steps PROVE ~Overtaken(k)
    <3> SUFFICES ASSUME NEW j \in 1..(k - 1), steps[j].at = steps[k].at PROVE FALSE
      BY DEF Overtaken
    <3>1. DOMAIN steps = 1..Len(steps) /\ Len(steps) \in Nat
      BY DEF IInv, JobTyped
    <3>2. j \in DOMAIN steps /\ j # k
      BY <3>1
    <3> QED
      BY <3>2 DEF Untied
  <2>2. \A k \in DOMAIN steps : steps[k].id \in watch.got
    BY <2>1 DEF IInv, DocumentsComplete
  <2>3. \A i \in watch.got : \E k \in DOMAIN steps : steps[k].id = i
    BY DEF IInv, CursorWhole, Are, Rows
  <2> QED
    BY <2>2, <2>3 DEF Recorded
<1> QED
  BY <1>1, WatchInvariant, PTL
=============================================================================
