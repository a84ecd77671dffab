------------------------------ MODULE OutputFilters ------------------------------
(***************************************************************************)
(* What the manager keeps of the output of a backup.  Two pumps read chunks*)
(* of the child's stdout and stderr (app/runner.py:2546-2563), cut wherever *)
(* the pipe was emptied.  stderr passes three filters, one after the other: *)
(* progress frames, network counters and file items                        *)
(* (app/borg_progress.py); what remains goes to the log of the run and to   *)
(* the collector of warnings (app/borg_warnings.py).  stdout goes to the   *)
(* log and the collector as it is, and through a filter to the preview in  *)
(* SQLite (app/service.py:137-173).  Each filter carries an unfinished line *)
(* over to the next chunk.                                                 *)
(*                                                                         *)
(* A chunk is a sequence of atoms, the pieces at whose ends a cut makes a  *)
(* difference to some filter.                                              *)
(*                                                                         *)
(* Left out: the limits on carries (16 KiB and more), decoding, rates,     *)
(* CRLF, carriage returns in file names, the filter of restores, and where *)
(* the log mixes the two streams.                                          *)
(***************************************************************************)
EXTENDS Integers, SequencesExt

CONSTANT Outputs     \* pairs of sequences of records a backup may write, with "err", "out"

Stream == {"out", "err"}

\* A Borg frame is a number, a unit, a space, "O " and the rest up to the path.
Atoms(record) ==
  CASE record = "frame"   -> <<"digit", "digit", "unit", "space", "O", "rest", "CR">>
    [] record = "frameLF" -> <<"digit", "digit", "unit", "space", "O", "rest", "LF">>
    [] record = "net"     -> <<"RS", "BBMNET", "counters", "LF">>
    [] record = "added"   -> <<"A", "path", "LF">>
    [] record = "changed" -> <<"C", "file", "LF">>
    [] record = "O file"  -> <<"C", "space", "O", "O file", "LF">>  \* a name with " O " in it
    [] record = "RS file" -> <<"C", "RS", "RS file", "LF">>  \* a name with the marker's first byte
    [] record = "text"    -> <<"text", "LF">>

Telemetry == {"frame", "frameLF", "net"}
Changed == {"changed", "O file", "RS file"}
PathOf(record) == IF record = "changed" THEN "file" ELSE record

VARIABLES
  sent,       \* of each stream: what the child writes, and whether its last line ends
  strip,      \* the complete file list is disabled (strip_added_modified)
  rest,       \* of each stream: the atoms not read yet
  carry,      \* what each filter and each buffer of the collector holds back
  log,        \* what stderr contributes to the log of the run
  causes,     \* the paths in the warning summary
  changed,    \* the live counter of changed files
  latest,     \* digits of the newest progress frame, 0 without one
  shown,      \* the preview in the row of the run
  torn,       \* a read has ended in a frame where its beginning is not recognised
  end         \* how the command ended, "" while it runs

streams == <<sent, strip, rest>>
kept == <<carry, log, causes, changed, latest, shown>>
vars == <<streams, kept, torn, end>>

Written(s) ==
  LET all == FlattenSeq([i \in DOMAIN sent[s].records |-> Atoms(sent[s].records[i])])
  IN IF sent[s].whole \/ all = <<>> THEN all ELSE Front(all)

-----------------------------------------------------------------------------
\* bytes.splitlines(keepends=True): the lines that end, and what follows them.
EndsAt(s, breaks) == SetToSortSeq({i \in DOMAIN s : s[i] \in breaks}, <)
Lines(s, breaks) ==
  LET at == EndsAt(s, breaks)
  IN [k \in DOMAIN at |-> SubSeq(s, IF k = 1 THEN 1 ELSE at[k - 1] + 1, at[k])]
Trailing(s, breaks) == SubSeq(s, SelectLastInSeq(s, LAMBDA a : a \in breaks) + 1, Len(s))
First(line) == IF line = <<>> THEN "" ELSE Head(line)

\* BorgProgressStreamFilter: a frame begins with a number, its unit and " O ".
Number(line) == SelectInSeq(line, LAMBDA a : a # "digit") - 1
Begins(line, n) == n > 0 /\ Len(line) > n /\ line[n + 1] = "unit"
MarkerAt(line, i) == i < Len(line) /\ line[i] = "space" /\ line[i + 1] = "O"
IsFrame(line) ==
  LET n == Number(line)
  IN Begins(line, n) /\ MarkerAt(line, n + 2) /\ Len(line) > n + 3 /\ line[n + 4] = "rest"

\* A tail with " O " in it, or a number and a unit and not even a space after it.
MayBeFrame(line) ==
  \/ \E i \in DOMAIN line : MarkerAt(line, i)
  \/ Begins(line, Number(line)) /\ Len(line) = Number(line) + 1

\* A chunk that ends in the number of a frame or before its "O" is not held
\* back, and what follows is another frame or none.
TornFrame(tail) ==
  \/ Last(tail) = "digit"
  \/ Len(tail) > 1 /\ SubSeq(tail, Len(tail) - 1, Len(tail)) = <<"unit", "space">>

\* The feed without telemetry takes a fast path with the same result.
ProgressFeed(held, data) ==
  LET all == held \o data
      lines == Lines(all, {"LF", "CR"})
      tail == Trailing(all, {"LF", "CR"})
      frames == SelectSeq(lines, IsFrame)
      other == FlattenSeq(SelectSeq(lines, LAMBDA l : ~IsFrame(l)))
  IN [out |-> other \o (IF MayBeFrame(tail) THEN <<>> ELSE tail),
      held |-> IF MayBeFrame(tail) THEN tail ELSE <<>>,
      latest |-> IF frames = <<>> THEN latest ELSE Number(Last(frames))]

\* BorgNetworkStreamFilter: a marker is taken out wherever it is, up to the end
\* of its line; the beginning of one at the end of a chunk is held back.
RECURSIVE WithoutCounters(_)
WithoutCounters(s) ==
  LET marks == {i \in 1..(Len(s) - 1) : s[i] = "RS" /\ s[i + 1] = "BBMNET"}
      m == CHOOSE i \in marks : \A j \in marks : i <= j
      lf == SelectInSubSeq(s, m, Len(s), LAMBDA a : a = "LF")
      more == WithoutCounters(SubSeq(s, lf + 1, Len(s)))
  IN IF marks = {} THEN
       IF s # <<>> /\ Last(s) = "RS" THEN [out |-> Front(s), held |-> <<"RS">>]
       ELSE [out |-> s, held |-> <<>>]
     ELSE IF lf = 0 THEN [out |-> SubSeq(s, 1, m - 1), held |-> SubSeq(s, m, Len(s))]
     ELSE [out |-> SubSeq(s, 1, m - 1) \o more.out, held |-> more.held]

\* Mutant: a marker that a chunk ends in is not held back.
NetworkFeedByChunk(held, data) ==
  IF held = <<>> /\ "BBMNET" \notin ToSet(data) THEN [out |-> data, held |-> <<>>]
  ELSE WithoutCounters(held \o data)

NetworkFeed(held, data) == WithoutCounters(held \o data)
\* Without its end, a marker with its counters is still one.
NetworkFinal(held) == IF Len(held) = 3 THEN <<>> ELSE held

\* BorgItemActivityStreamFilter: counts the changed files in complete lines, and
\* takes out the added ones if the list is disabled.
ChangedIn(lines) == Len(SelectSeq(lines, LAMBDA l : First(l) = "C" /\ Len(l) > 1))
Listed(lines) == FlattenSeq(SelectSeq(lines, LAMBDA l : First(l) # "A"))
ItemFeed(held, data) ==
  LET lines == Lines(held \o data, {"LF"})
  IN [out |-> IF strip THEN Listed(lines) ELSE data,
      held |-> Trailing(held \o data, {"LF"}), count |-> ChangedIn(lines)]
ItemFinal(held) ==
  [out |-> IF strip /\ First(held) # "A" THEN held ELSE <<>>, count |-> ChangedIn(<<held>>)]

\* BorgWarningCollector: a buffer for each stream; a carriage return ends a line.
\* Mutant: one buffer for both.
BufferShared(stream) == "err"
Buffer(stream) == stream
Names == {"file", "O file", "RS file"}
CausesIn(lines) ==
  UNION {ToSet(lines[k]) \cap Names : k \in {k \in DOMAIN lines : First(lines[k]) = "C"}}
WarningFeed(stream, data) ==
  LET all == carry[Buffer(stream)] \o data
  IN [causes |-> CausesIn(Lines(all, {"LF", "CR"})), held |-> Trailing(all, {"LF", "CR"})]

\* _BackupSqlitePreviewFilter: everything but the items.
Readable(lines) == FlattenSeq(SelectSeq(lines, LAMBDA l : First(l) \notin {"A", "C"}))
PreviewLines(s) == Lines(SubSeq(s, 1, SelectLastInSeq(s, LAMBDA a : a = "LF")), {"LF", "CR"})
PreviewFeed(held, data) ==
  [out |-> Readable(PreviewLines(held \o data)), held |-> Trailing(held \o data, {"LF"})]

-----------------------------------------------------------------------------
Init ==
  /\ strip \in BOOLEAN
  /\ \E o \in Outputs, ends \in [Stream -> BOOLEAN] :
       sent = [s \in Stream |-> [records |-> o[s], whole |-> ends[s]]]
  /\ rest = [s \in Stream |-> Written(s)]
  /\ carry = [f \in {"progress", "network", "item", "preview"} \cup Stream |-> <<>>]
  /\ log = <<>> /\ causes = {} /\ changed = 0 /\ latest = 0 /\ shown = <<>>
  /\ torn = FALSE /\ end = ""

\* append_output_bytes of a chunk of stderr: the three filters, the log, the collector.
ReadErr(n) ==
  LET chunk == SubSeq(rest["err"], 1, n)
      p == ProgressFeed(carry["progress"], chunk)
      q == NetworkFeed(carry["network"], p.out)
      i == ItemFeed(carry["item"], q.out)
      w == WarningFeed("err", i.out)
  IN /\ end = ""
     /\ rest' = [rest EXCEPT !["err"] = SubSeq(@, n + 1, Len(@))]
     /\ carry' = [carry EXCEPT !["progress"] = p.held, !["network"] = q.held,
                               !["item"] = i.held, ![Buffer("err")] = w.held]
     /\ latest' = p.latest /\ changed' = changed + i.count
     /\ log' = log \o i.out /\ causes' = causes \cup w.causes
     /\ torn' = (torn \/ TornFrame(carry["progress"] \o chunk))
     /\ UNCHANGED <<sent, strip, shown, end>>

\* The same of a chunk of stdout.
ReadOut(n) ==
  LET chunk == SubSeq(rest["out"], 1, n)
      w == WarningFeed("out", chunk)
      p == PreviewFeed(carry["preview"], chunk)
  IN /\ end = ""
     /\ rest' = [rest EXCEPT !["out"] = SubSeq(@, n + 1, Len(@))]
     /\ carry' = [carry EXCEPT !["preview"] = p.held, ![Buffer("out")] = w.held]
     /\ causes' = causes \cup w.causes /\ shown' = shown \o p.out
     /\ UNCHANGED <<sent, strip, log, changed, latest, torn, end>>

\* The child has ended: every filter gives up what it holds, to the next one.
Finish ==
  LET tail == carry["progress"]
      trailing == IF IsFrame(tail) THEN <<>> ELSE tail
      q == NetworkFeed(carry["network"], trailing)
      i == ItemFeed(carry["item"], q.out \o NetworkFinal(q.held))
      last == ItemFinal(i.held)
      w == WarningFeed("err", i.out \o last.out)
      held == [carry EXCEPT ![Buffer("err")] = w.held]
  IN /\ end = "" /\ \A s \in Stream : rest[s] = <<>>
     /\ end' = "finished"
     /\ latest' = IF IsFrame(tail) THEN Number(tail) ELSE latest
     /\ changed' = changed + i.count + last.count
     /\ log' = log \o i.out \o last.out
     /\ causes' = causes \cup w.causes \cup UNION {CausesIn(<<held[Buffer(s)]>>) : s \in Stream}
     /\ shown' = shown \o Readable(<<carry["preview"]>>)
     /\ carry' = [f \in DOMAIN carry |-> <<>>]
     /\ UNCHANGED <<streams, torn>>

\* The run was cancelled: what the filters hold is dropped.
Cancelled ==
  /\ end = "" /\ \A s \in Stream : rest[s] = <<>>
  /\ end' = "cancelled" /\ UNCHANGED <<streams, kept, torn>>

Next ==
  \/ \E n \in 1..Len(rest["err"]) : ReadErr(n)
  \/ \E n \in 1..Len(rest["out"]) : ReadOut(n)
  \/ Finish \/ Cancelled

Spec == Init /\ [][Next]_vars

-----------------------------------------------------------------------------
RecordsOf(s) == ToSet(sent[s].records)
ChangedFiles == UNION {{PathOf(r) : r \in RecordsOf(s) \cap Changed} : s \in Stream}

\* What is left of a stream without the given records.
Without(s, removed) ==
  LET left == SelectSeq(sent[s].records, LAMBDA r : r \notin removed)
      all == FlattenSeq([i \in DOMAIN left |-> Atoms(left[i])])
      open == sent[s].records # <<>> /\ ~sent[s].whole /\ Last(sent[s].records) \notin removed
  IN IF open THEN Front(all) ELSE all

\* Wherever chunks are cut, except in a frame before its "O" as TornFrame says,
\* the log gets every line of stderr that is neither a frame nor a counter (nor,
\* without the file list, an added file), once and in order; while the command
\* runs or after a cancellation, the beginning of it.
LogComplete ==
  LET expected == Without("err", Telemetry \cup (IF strip THEN {"added"} ELSE {}))
  IN ~torn => IsPrefix(log, expected) /\ (end = "finished" => log = expected)

\* When a backup has ended, its warnings name every changed file of both streams,
\* each file was counted once, and the newest frame was read as it was written,
\* again unless a frame was torn.
\* No part of a path ever comes into the preview (service.py:140: "a path split
\* across process chunks can never leak"), and nothing readable is missing in it.
ReportsExact ==
  LET readable == Without("out", {"added"} \cup Changed) IN
  /\ IsPrefix(shown, readable)
  /\ end = "finished" => shown = readable
  /\ end = "finished" /\ ~torn =>
       /\ causes = ChangedFiles
       /\ changed = Len(SelectSeq(sent["err"].records, LAMBDA r : r \in Changed))
       /\ latest = IF RecordsOf("err") \cap {"frame", "frameLF"} = {} THEN 0 ELSE 2

\* README.md:308: "Warning causes are captured while Borg is running", wherever
\* the output is cut.
ChangesReported == end = "finished" => causes = ChangedFiles
================================================================================
