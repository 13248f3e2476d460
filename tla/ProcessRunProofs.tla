--------------------------- MODULE ProcessRunProofs ---------------------------
(***************************************************************************)
(* The safety properties of ProcessRun, for pipes of any capacity and any  *)
(* number of lines.  The invariant accounts for every line from the pipe   *)
(* to the log, and says what each thread has seen when it goes on.         *)
(***************************************************************************)
EXTENDS ProcessRun, TLAPS

(* What a thread has read and not yet put in the log.                      *)
InHand(s) ==
  IF \/ s = "stdout" /\ main \in {"want lock", "log"}
     \/ s = "stderr" /\ reader \in {"want lock", "newline", "write"}
  THEN 1 ELSE 0

(* A line that the command is about to write is one of those it may write. *)
RoomForLines == \A s \in blocked : written[s] < MaxLines

NothingIsInvented == \A s \in Streams : logged[s] + pipe[s] + InHand(s) <= written[s]

(* The line that the thread for stderr has in its hand when it dies is in  *)
(* nobody's.                                                               *)
LinesAreCounted ==
  hasLog /\ main \notin Unwinding =>
    \A s \in Streams :
      (s = "stderr" => reader # "dead") => logged[s] + pipe[s] + InHand(s) = written[s]

LogStaysOpen == hasLog /\ main \notin Unwinding => logOpen

EndIsSeen ==
  /\ main = "wait" => AtEOF("stdout")
  /\ hasLog /\ reader = "done" => AtEOF("stderr")

EndingIsKnown ==
  /\ ending = "none" <=> main \notin Unwinding
  /\ ending \in {"returned", "failed"} => command \in Ended /\ reader \in Gone
  /\ LogIsComplete

(* An unfinished line is one that may be overwritten.                      *)
LineIsMarked ==
  main \notin Unwinding =>
    /\ cursor = "middle" => overwritable \/ main = "mark"
    /\ reader = "write" => cursor = "start"

IInv ==
  /\ TypeOK
  /\ RoomForLines
  /\ NothingIsInvented
  /\ LinesAreCounted
  /\ LogStaysOpen
  /\ EndIsSeen
  /\ EndingIsKnown
  /\ LineIsMarked
  /\ hasLog \/ reader = "done"

-----------------------------------------------------------------------------
LEMMA InitHolds == Init => IInv
<1> SUFFICES ASSUME Init PROVE IInv
  OBVIOUS
<1> USE CapacityAssumption DEF Init, Streams, Nobody, Ended, InLoop, Unwinding, Piped, Gone
<1>1. LinesOK
  BY DEF LinesOK
<1>b. LockOK
  BY DEF LockOK
<1>5. TypeOK
  BY <1>1, <1>b DEF TypeOK
<1>2. NothingIsInvented /\ LinesAreCounted
  BY DEF NothingIsInvented, LinesAreCounted, InHand
<1>3. RoomForLines /\ LogStaysOpen /\ EndIsSeen /\ EndingIsKnown /\ LineIsMarked
  BY DEF RoomForLines, LogStaysOpen, EndIsSeen, EndingIsKnown, LineIsMarked,
         LogIsComplete
<1>4. hasLog \/ reader = "done"
  OBVIOUS
<1> QED
  BY <1>2, <1>3, <1>4, <1>5 DEF IInv

LEMMA StepHolds == IInv /\ [Next]_vars => IInv'
<1> SUFFICES ASSUME IInv, [Next]_vars PROVE IInv'
  OBVIOUS
<1>a. /\ TypeOK /\ RoomForLines /\ NothingIsInvented /\ LinesAreCounted
      /\ LogStaysOpen /\ EndIsSeen /\ EndingIsKnown /\ LineIsMarked
      /\ hasLog \/ reader = "done"
  BY DEF IInv
<1>l. LinesOK
  BY <1>a DEF TypeOK
<1> USE CapacityAssumption DEF Nobody, Ended, InLoop, Unwinding, Piped, Gone, child, terminal
<1>b. \A t \in Streams : /\ logged[t] \in Nat /\ pipe[t] \in Nat /\ written[t] \in Nat
                         /\ InHand(t) \in {0, 1} /\ InHand(t)' \in {0, 1}
  <2>1. \A t \in Streams : logged[t] \in Nat /\ pipe[t] \in Nat /\ written[t] \in Nat
    BY <1>l DEF LinesOK
  <2>2. \A t \in Streams : InHand(t) \in {0, 1} /\ InHand(t)' \in {0, 1}
    BY DEF InHand
  <2> QED
    BY <2>1, <2>2
<1>c. "stdout" \in Streams /\ "stderr" \in Streams
  BY DEF Streams
<1>1. ASSUME NEW s \in Streams, WantsToWrite(s) PROVE IInv'
  <2>s. UNCHANGED <<pipe, written, logged, hasLog>>
    BY <1>1 DEF WantsToWrite
  <2>t. \A t \in Streams : InHand(t)' = InHand(t)
    BY <1>1 DEF WantsToWrite, InHand
  <2>1. NothingIsInvented' /\ LinesAreCounted'
    BY <1>a, <1>1, <2>s, <2>t DEF WantsToWrite, NothingIsInvented, LinesAreCounted
  <2>2. LinesOK'
    BY <1>l, <2>s DEF LinesOK
  <2>3. LockOK'
    BY <1>a, <1>1 DEF WantsToWrite, TypeOK, LockOK
  <2>4. TypeOK' /\ LogStaysOpen'
    BY <1>a, <1>1, <2>2, <2>3 DEF WantsToWrite, TypeOK, LogStaysOpen, EndingIsKnown
  <2>5. RoomForLines'
    BY <1>a, <1>1 DEF WantsToWrite, RoomForLines
  <2>6. EndIsSeen'
    BY <1>a, <1>l, <1>1 DEF WantsToWrite, LinesOK, TypeOK, EndIsSeen, AtEOF, Streams
  <2>7. EndingIsKnown'
    BY <1>a, <1>1 DEF WantsToWrite, TypeOK, EndingIsKnown, LogIsComplete
  <2>8. LineIsMarked'
    BY <1>a, <1>1 DEF WantsToWrite, TypeOK, LockOK, EndingIsKnown, LineIsMarked
  <2>9. (hasLog \/ reader = "done")'
    BY <1>a, <1>1 DEF WantsToWrite
  <2> QED
    BY <2>1, <2>2, <2>4, <2>5, <2>6, <2>7, <2>8, <2>9 DEF IInv
<1>2. ASSUME NEW s \in Streams, Writes(s) PROVE IInv'
  <2>s. /\ pipe[s] + 1 \in 0 .. Capacity
        /\ written[s] + 1 \in 0 .. MaxLines
    BY <1>a, <1>b, <1>l, <1>2 DEF Writes, LinesOK, RoomForLines
  <2>t. /\ pipe' = [pipe EXCEPT ![s] = pipe[s] + 1]
        /\ written' = [written EXCEPT ![s] = written[s] + 1]
        /\ UNCHANGED <<logged, main, reader, hasLog>>
    BY <1>2 DEF Writes
  <2>u. \A t \in Streams :
          /\ pipe'[t] = (IF t = s THEN pipe[t] + 1 ELSE pipe[t])
          /\ written'[t] = (IF t = s THEN written[t] + 1 ELSE written[t])
          /\ logged'[t] = logged[t] /\ InHand(t)' = InHand(t)
    BY <1>l, <2>t DEF LinesOK, InHand
  <2>1. NothingIsInvented' /\ LinesAreCounted'
    BY <1>a, <1>b, <2>t, <2>u DEF NothingIsInvented, LinesAreCounted
  <2>2. LinesOK'
    <3>1. pipe' \in [Streams -> 0 .. Capacity] /\ written' \in [Streams -> 0 .. MaxLines]
      BY <1>l, <2>s, <2>t DEF LinesOK
    <3>2. \A t \in Streams : logged'[t] + pipe'[t] <= written'[t]
      BY <1>b, <1>l, <2>u DEF LinesOK
    <3> QED
      BY <1>l, <2>t, <3>1, <3>2 DEF LinesOK
  <2>3. LockOK'
    BY <1>a, <1>2 DEF Writes, TypeOK, LockOK
  <2>4. TypeOK' /\ LogStaysOpen'
    BY <1>a, <1>2, <2>2, <2>3 DEF Writes, TypeOK, LogStaysOpen, EndingIsKnown
  <2>5. RoomForLines'
    BY <1>a, <1>2 DEF Writes, RoomForLines, TypeOK
  <2>6. EndIsSeen'
    BY <1>a, <1>l, <1>2 DEF Writes, LinesOK, TypeOK, EndIsSeen, AtEOF, Streams
  <2>7. EndingIsKnown'
    BY <1>a, <1>2 DEF Writes, TypeOK, EndingIsKnown, LogIsComplete
  <2>8. LineIsMarked'
    BY <1>a, <1>2 DEF Writes, TypeOK, LockOK, EndingIsKnown, LineIsMarked
  <2>9. (hasLog \/ reader = "done")'
    BY <1>a, <1>2 DEF Writes
  <2> QED
    BY <2>1, <2>2, <2>4, <2>5, <2>6, <2>7, <2>8, <2>9 DEF IInv
<1>3. CASE BrokenPipe
  <2>s. UNCHANGED <<pipe, written, logged, hasLog>>
    BY <1>3 DEF BrokenPipe, Closed
  <2>t. \A t \in Streams : InHand(t)' = InHand(t)
    BY <1>3 DEF BrokenPipe, Closed, InHand
  <2>1. NothingIsInvented' /\ LinesAreCounted'
    BY <1>a, <1>3, <2>s, <2>t DEF BrokenPipe, Closed, NothingIsInvented, LinesAreCounted
  <2>2. LinesOK'
    BY <1>l, <2>s DEF LinesOK
  <2>3. LockOK'
    BY <1>a, <1>3 DEF BrokenPipe, Closed, TypeOK, LockOK
  <2>4. TypeOK' /\ LogStaysOpen'
    BY <1>a, <1>3, <2>2, <2>3 DEF BrokenPipe, Closed, TypeOK, LogStaysOpen, EndingIsKnown
  <2>5. RoomForLines'
    BY <1>a, <1>3 DEF BrokenPipe, Closed, RoomForLines
  <2>6. EndIsSeen'
    BY <1>a, <1>l, <1>3 DEF BrokenPipe, Closed, LinesOK, TypeOK, EndIsSeen, AtEOF, Streams
  <2>7. EndingIsKnown'
    BY <1>a, <1>3 DEF BrokenPipe, Closed, TypeOK, EndingIsKnown, LogIsComplete
  <2>8. LineIsMarked'
    BY <1>a, <1>3 DEF BrokenPipe, Closed, TypeOK, LockOK, EndingIsKnown, LineIsMarked
  <2>9. (hasLog \/ reader = "done")'
    BY <1>a, <1>3 DEF BrokenPipe, Closed
  <2> QED
    BY <2>1, <2>2, <2>4, <2>5, <2>6, <2>7, <2>8, <2>9 DEF IInv
<1>4. CASE Ends
  <2>s. UNCHANGED <<pipe, written, logged, hasLog>>
    BY <1>4 DEF Ends
  <2>t. \A t \in Streams : InHand(t)' = InHand(t)
    BY <1>4 DEF Ends, InHand
  <2>1. NothingIsInvented' /\ LinesAreCounted'
    BY <1>a, <1>4, <2>s, <2>t DEF Ends, NothingIsInvented, LinesAreCounted
  <2>2. LinesOK'
    BY <1>l, <2>s DEF LinesOK
  <2>3. LockOK'
    BY <1>a, <1>4 DEF Ends, TypeOK, LockOK
  <2>4. TypeOK' /\ LogStaysOpen'
    BY <1>a, <1>4, <2>2, <2>3 DEF Ends, TypeOK, LogStaysOpen, EndingIsKnown
  <2>5. RoomForLines'
    BY <1>a, <1>4 DEF Ends, RoomForLines
  <2>6. EndIsSeen'
    BY <1>a, <1>l, <1>4 DEF Ends, LinesOK, TypeOK, EndIsSeen, AtEOF, Streams
  <2>7. EndingIsKnown'
    BY <1>a, <1>4 DEF Ends, TypeOK, EndingIsKnown, LogIsComplete
  <2>8. LineIsMarked'
    BY <1>a, <1>4 DEF Ends, TypeOK, LockOK, EndingIsKnown, LineIsMarked
  <2>9. (hasLog \/ reader = "done")'
    BY <1>a, <1>4 DEF Ends
  <2> QED
    BY <2>1, <2>2, <2>4, <2>5, <2>6, <2>7, <2>8, <2>9 DEF IInv
<1>5. CASE MainReads
  <2>s. /\ pipe' \in [Streams -> 0 .. Capacity]
        /\ written' \in [Streams -> 0 .. MaxLines]
        /\ logged' \in [Streams -> Nat]
        /\ \A t \in Streams :
             /\ written'[t] = written[t]
             /\ logged'[t] + pipe'[t] + InHand(t)' <= logged[t] + pipe[t] + InHand(t)
             /\ hasLog /\ main \notin Unwinding =>
                  logged'[t] + pipe'[t] + InHand(t)' = logged[t] + pipe[t] + InHand(t)
    <3>1. CASE pipe["stdout"] > 0 /\ pipe' = [pipe EXCEPT !["stdout"] = @ - 1]
                  /\ main' = "want lock"
      <4>0. pipe["stdout"] \in 0 .. Capacity
        BY <1>c, <1>l DEF LinesOK
      <4>a. pipe["stdout"] > 0
        BY <3>1
      <4>1. pipe["stdout"] - 1 \in 0 .. Capacity
        BY <4>0, <4>a
      <4>2. pipe' \in [Streams -> 0 .. Capacity]
        BY <1>l, <3>1, <4>1 DEF LinesOK
      <4>3. ASSUME NEW t \in Streams PROVE
              /\ written'[t] = written[t]
              /\ logged'[t] + pipe'[t] + InHand(t)' = logged[t] + pipe[t] + InHand(t)
        <5>1. CASE t = "stdout"
          <6>1. pipe'[t] = pipe[t] - 1 /\ logged'[t] = logged[t] /\ written'[t] = written[t]
            BY <1>l, <1>5, <3>1, <5>1 DEF MainReads, LinesOK
          <6>2. InHand(t) = 0 /\ InHand(t)' = 1
            BY <1>5, <3>1, <5>1 DEF MainReads, InHand
          <6> QED
            BY <1>b, <6>1, <6>2
        <5>2. CASE t # "stdout"
          BY <1>l, <1>5, <3>1, <5>2 DEF MainReads, LinesOK, InHand
        <5> QED
          BY <5>1, <5>2
      <4>4. written' = written /\ logged' = logged
        BY <1>5 DEF MainReads
      <4> QED
        BY <1>b, <1>l, <4>2, <4>3, <4>4 DEF LinesOK
    <3>2. CASE UNCHANGED pipe /\ main' = "wait"
      <4>1. ASSUME NEW t \in Streams PROVE InHand(t)' \in {0, InHand(t)}
        BY <1>5, <3>2 DEF MainReads, InHand
      <4>2. ASSUME NEW t \in Streams PROVE InHand(t)' = InHand(t)
        BY <1>a, <1>5, <3>2 DEF MainReads, InHand
      <4>3. written' = written /\ pipe' = pipe /\ logged' = logged
        BY <1>5, <3>2 DEF MainReads
      <4> QED
        BY <1>b, <1>l, <4>1, <4>2, <4>3 DEF LinesOK
    <3> QED
      BY <1>5, <3>1, <3>2 DEF MainReads
  <2>h. /\ hasLog' = hasLog /\ (main' \in Unwinding <=> main \in Unwinding)
        /\ reader' = "dead" <=> reader = "dead"
    BY <1>5 DEF MainReads
  <2>1. NothingIsInvented' /\ LinesAreCounted'
    BY <1>a, <1>b, <2>s, <2>h DEF NothingIsInvented, LinesAreCounted
  <2>2. LinesOK'
    <3>1. \A t \in Streams : /\ logged'[t] \in Nat /\ pipe'[t] \in Nat
                             /\ written'[t] \in Nat
      BY <2>s
    <3>2. \A t \in Streams : logged'[t] + pipe'[t] <= written'[t]
      BY <1>b, <2>1, <3>1 DEF NothingIsInvented
    <3> QED
      BY <2>s, <3>2 DEF LinesOK
  <2>3. LockOK'
    BY <1>a, <1>5 DEF MainReads, TypeOK, LockOK
  <2>4. TypeOK' /\ LogStaysOpen'
    BY <1>a, <1>5, <2>2, <2>3 DEF MainReads, TypeOK, LogStaysOpen, EndingIsKnown
  <2>5. RoomForLines'
    BY <1>a, <1>5 DEF MainReads, RoomForLines
  <2>6. EndIsSeen'
    BY <1>a, <1>l, <1>5 DEF MainReads, LinesOK, TypeOK, EndIsSeen, AtEOF, Streams
  <2>7. EndingIsKnown'
    BY <1>a, <1>5 DEF MainReads, TypeOK, EndingIsKnown, LogIsComplete
  <2>8. LineIsMarked'
    BY <1>a, <1>5 DEF MainReads, TypeOK, LockOK, EndingIsKnown, LineIsMarked
  <2>9. (hasLog \/ reader = "done")'
    BY <1>a, <1>5 DEF MainReads
  <2> QED
    BY <2>1, <2>2, <2>4, <2>5, <2>6, <2>7, <2>8, <2>9 DEF IInv
<1>6. CASE MainLocks
  <2>s. UNCHANGED <<pipe, written, logged, hasLog>>
    BY <1>6 DEF MainLocks, Free
  <2>t. \A t \in Streams : InHand(t)' = InHand(t)
    BY <1>6 DEF MainLocks, Free, InHand
  <2>1. NothingIsInvented' /\ LinesAreCounted'
    <3>1. (main' \notin Unwinding => main \notin Unwinding) /\ reader' = reader
      BY <1>6 DEF MainLocks, Unwinding
    <3> QED
      BY <1>a, <1>b, <2>s, <2>t, <3>1 DEF NothingIsInvented, LinesAreCounted
  <2>2. LinesOK'
    BY <1>l, <2>s DEF LinesOK
  <2>3. LockOK'
    BY <1>a, <1>6 DEF MainLocks, Free, TypeOK, LockOK
  <2>4. TypeOK' /\ LogStaysOpen'
    BY <1>a, <1>6, <2>2, <2>3 DEF MainLocks, Free, TypeOK, LogStaysOpen, EndingIsKnown
  <2>5. RoomForLines'
    BY <1>a, <1>6 DEF MainLocks, Free, RoomForLines
  <2>6. EndIsSeen'
    BY <1>a, <1>l, <1>6 DEF MainLocks, Free, LinesOK, TypeOK, EndIsSeen, AtEOF, Streams
  <2>7. EndingIsKnown'
    BY <1>a, <1>6 DEF MainLocks, Free, TypeOK, EndingIsKnown, LogIsComplete
  <2>8. LineIsMarked'
    BY <1>a, <1>6 DEF MainLocks, Free, TypeOK, LockOK, EndingIsKnown, LineIsMarked
  <2>9. (hasLog \/ reader = "done")'
    BY <1>a, <1>6 DEF MainLocks, Free
  <2> QED
    BY <2>1, <2>2, <2>4, <2>5, <2>6, <2>7, <2>8, <2>9 DEF IInv
<1>7. CASE MainLogs
  <2>s. /\ pipe' \in [Streams -> 0 .. Capacity]
        /\ written' \in [Streams -> 0 .. MaxLines]
        /\ logged' \in [Streams -> Nat]
        /\ \A t \in Streams :
             /\ written'[t] = written[t]
             /\ logged'[t] + pipe'[t] + InHand(t)' <= logged[t] + pipe[t] + InHand(t)
             /\ hasLog /\ main \notin Unwinding =>
                  logged'[t] + pipe'[t] + InHand(t)' = logged[t] + pipe[t] + InHand(t)
    <3>1. CASE hasLog /\ logged' = [logged EXCEPT !["stdout"] = @ + 1]
      <4>0. logged["stdout"] \in Nat
        BY <1>c, <1>l DEF LinesOK
      <4>1. logged["stdout"] + 1 \in Nat
        BY <4>0, <3>1
      <4>2. logged' \in [Streams -> Nat]
        BY <1>l, <3>1, <4>1 DEF LinesOK
      <4>3. ASSUME NEW t \in Streams PROVE
              /\ written'[t] = written[t]
              /\ logged'[t] + pipe'[t] + InHand(t)' = logged[t] + pipe[t] + InHand(t)
        <5>1. CASE t = "stdout"
          <6>1. pipe'[t] = pipe[t] /\ logged'[t] = logged[t] + 1 /\ written'[t] = written[t]
            BY <1>l, <1>7, <3>1, <5>1 DEF MainLogs, LinesOK
          <6>2. InHand(t) = 1 /\ InHand(t)' = 0
            BY <1>7, <3>1, <5>1 DEF MainLogs, InHand
          <6> QED
            BY <1>b, <6>1, <6>2
        <5>2. CASE t # "stdout"
          BY <1>l, <1>7, <3>1, <5>2 DEF MainLogs, LinesOK, InHand
        <5> QED
          BY <5>1, <5>2
      <4>4. written' = written /\ pipe' = pipe
        BY <1>7 DEF MainLogs
      <4> QED
        BY <1>b, <1>l, <4>2, <4>3, <4>4 DEF LinesOK
    <3>2. CASE ~hasLog /\ UNCHANGED logged
      <4>1. ASSUME NEW t \in Streams PROVE InHand(t)' \in {0, InHand(t)}
        BY <1>7, <3>2 DEF MainLogs, InHand
      <4>2. ~(hasLog /\ main \notin Unwinding)
        BY <1>a, <1>7, <3>2 DEF MainLogs, LogStaysOpen
      <4>3. written' = written /\ pipe' = pipe /\ logged' = logged
        BY <1>7, <3>2 DEF MainLogs
      <4> QED
        BY <1>b, <1>l, <4>1, <4>2, <4>3 DEF LinesOK
    <3> QED
      BY <1>7, <3>1, <3>2 DEF MainLogs
  <2>h. /\ hasLog' = hasLog /\ (main' \in Unwinding <=> main \in Unwinding)
        /\ reader' = "dead" <=> reader = "dead"
    BY <1>7 DEF MainLogs
  <2>1. NothingIsInvented' /\ LinesAreCounted'
    BY <1>a, <1>b, <2>s, <2>h DEF NothingIsInvented, LinesAreCounted
  <2>2. LinesOK'
    <3>1. \A t \in Streams : /\ logged'[t] \in Nat /\ pipe'[t] \in Nat
                             /\ written'[t] \in Nat
      BY <2>s
    <3>2. \A t \in Streams : logged'[t] + pipe'[t] <= written'[t]
      BY <1>b, <2>1, <3>1 DEF NothingIsInvented
    <3> QED
      BY <2>s, <3>2 DEF LinesOK
  <2>3. LockOK'
    BY <1>a, <1>7 DEF MainLogs, TypeOK, LockOK
  <2>4. TypeOK' /\ LogStaysOpen'
    BY <1>a, <1>7, <2>2, <2>3 DEF MainLogs, TypeOK, LogStaysOpen, EndingIsKnown
  <2>5. RoomForLines'
    BY <1>a, <1>7 DEF MainLogs, RoomForLines
  <2>6. EndIsSeen'
    BY <1>a, <1>l, <1>7 DEF MainLogs, LinesOK, TypeOK, EndIsSeen, AtEOF, Streams
  <2>7. EndingIsKnown'
    BY <1>a, <1>7 DEF MainLogs, TypeOK, EndingIsKnown, LogIsComplete
  <2>8. LineIsMarked'
    BY <1>a, <1>7 DEF MainLogs, TypeOK, LockOK, EndingIsKnown, LineIsMarked
  <2>9. (hasLog \/ reader = "done")'
    BY <1>a, <1>7 DEF MainLogs
  <2> QED
    BY <2>1, <2>2, <2>4, <2>5, <2>6, <2>7, <2>8, <2>9 DEF IInv
<1>8. CASE MainFilters
  <2>s. UNCHANGED <<pipe, written, logged, hasLog>>
    BY <1>8 DEF MainFilters
  <2>t. \A t \in Streams : InHand(t)' = InHand(t)
    BY <1>8 DEF MainFilters, InHand
  <2>1. NothingIsInvented' /\ LinesAreCounted'
    BY <1>a, <1>8, <2>s, <2>t DEF MainFilters, NothingIsInvented, LinesAreCounted
  <2>2. LinesOK'
    BY <1>l, <2>s DEF LinesOK
  <2>3. LockOK'
    BY <1>a, <1>8 DEF MainFilters, TypeOK, LockOK
  <2>4. TypeOK' /\ LogStaysOpen'
    BY <1>a, <1>8, <2>2, <2>3 DEF MainFilters, TypeOK, LogStaysOpen, EndingIsKnown
  <2>5. RoomForLines'
    BY <1>a, <1>8 DEF MainFilters, RoomForLines
  <2>6. EndIsSeen'
    BY <1>a, <1>l, <1>8 DEF MainFilters, LinesOK, TypeOK, EndIsSeen, AtEOF, Streams
  <2>7. EndingIsKnown'
    BY <1>a, <1>8 DEF MainFilters, TypeOK, EndingIsKnown, LogIsComplete
  <2>8. LineIsMarked'
    BY <1>a, <1>8 DEF MainFilters, TypeOK, LockOK, EndingIsKnown, LineIsMarked
  <2>9. (hasLog \/ reader = "done")'
    BY <1>a, <1>8 DEF MainFilters
  <2> QED
    BY <2>1, <2>2, <2>4, <2>5, <2>6, <2>7, <2>8, <2>9 DEF IInv
<1>9. CASE MainMarks
  <2>s. UNCHANGED <<pipe, written, logged, hasLog>>
    BY <1>9 DEF MainMarks
  <2>t. \A t \in Streams : InHand(t)' = InHand(t)
    BY <1>9 DEF MainMarks, InHand
  <2>1. NothingIsInvented' /\ LinesAreCounted'
    BY <1>a, <1>9, <2>s, <2>t DEF MainMarks, NothingIsInvented, LinesAreCounted
  <2>2. LinesOK'
    BY <1>l, <2>s DEF LinesOK
  <2>3. LockOK'
    BY <1>a, <1>9 DEF MainMarks, TypeOK, LockOK
  <2>4. TypeOK' /\ LogStaysOpen'
    BY <1>a, <1>9, <2>2, <2>3 DEF MainMarks, TypeOK, LogStaysOpen, EndingIsKnown
  <2>5. RoomForLines'
    BY <1>a, <1>9 DEF MainMarks, RoomForLines
  <2>6. EndIsSeen'
    BY <1>a, <1>l, <1>9 DEF MainMarks, LinesOK, TypeOK, EndIsSeen, AtEOF, Streams
  <2>7. EndingIsKnown'
    BY <1>a, <1>9 DEF MainMarks, TypeOK, EndingIsKnown, LogIsComplete
  <2>8. LineIsMarked'
    BY <1>a, <1>9 DEF MainMarks, TypeOK, LockOK, EndingIsKnown, LineIsMarked
  <2>9. (hasLog \/ reader = "done")'
    BY <1>a, <1>9 DEF MainMarks
  <2> QED
    BY <2>1, <2>2, <2>4, <2>5, <2>6, <2>7, <2>8, <2>9 DEF IInv
<1>10. CASE MainWaits
  <2>s. /\ UNCHANGED <<written, logged, hasLog>> /\ main' \in Unwinding
        /\ pipe' = [t \in Streams |-> 0]
    BY <1>10 DEF MainWaits, Joined
  <2>t. \A t \in Streams : InHand(t)' = InHand(t)
    BY <1>10 DEF MainWaits, Joined, InHand
  <2>u. \A t \in Streams : logged'[t] + pipe'[t] + InHand(t)' <= written'[t]
    <3> SUFFICES ASSUME NEW t \in Streams
                 PROVE  logged'[t] + pipe'[t] + InHand(t)' <= written'[t]
      OBVIOUS
    <3>1. logged[t] + pipe[t] + InHand(t) <= written[t]
      BY <1>a DEF NothingIsInvented
    <3>2. pipe'[t] = 0 /\ InHand(t)' = InHand(t) /\ logged'[t] = logged[t]
          /\ written'[t] = written[t]
      BY <2>s, <2>t
    <3> QED
      BY <1>b, <3>1, <3>2
  <2>1. NothingIsInvented' /\ LinesAreCounted'
    BY <2>s, <2>u DEF NothingIsInvented, LinesAreCounted
  <2>2. LinesOK'
    <3>1. pipe' \in [Streams -> 0 .. Capacity]
      BY <2>s
    <3>2. \A t \in Streams : logged'[t] + pipe'[t] <= written'[t]
      <4> SUFFICES ASSUME NEW t \in Streams PROVE logged'[t] + pipe'[t] <= written'[t]
        OBVIOUS
      <4>1. pipe'[t] = 0 /\ logged'[t] = logged[t] /\ written'[t] = written[t]
        BY <2>s
      <4>2. logged'[t] + pipe'[t] + InHand(t)' <= written'[t]
        BY <2>u
      <4> QED
        BY <1>b, <4>1, <4>2
    <3> QED
      BY <1>l, <2>s, <3>1, <3>2 DEF LinesOK
  <2>3. LockOK'
    BY <1>a, <1>10 DEF MainWaits, Joined, TypeOK, LockOK
  <2>4. TypeOK' /\ LogStaysOpen'
    BY <1>a, <1>10, <2>2, <2>3 DEF MainWaits, Joined, TypeOK, LogStaysOpen, EndingIsKnown
  <2>5. RoomForLines'
    BY <1>a, <1>10 DEF MainWaits, Joined, RoomForLines
  <2>6. EndIsSeen'
    BY <1>a, <1>l, <1>10 DEF MainWaits, Joined, LinesOK, TypeOK, EndIsSeen, AtEOF, Streams
  <2>7. EndingIsKnown'
    <3>1. ASSUME hasLog, reader # "dead" PROVE logged = written
      <4>1. \A t \in Streams : pipe[t] = 0 /\ InHand(t) = 0
        BY <1>a, <1>10, <3>1 DEF MainWaits, Joined, EndIsSeen, AtEOF, InHand, Streams
      <4>2. \A t \in Streams : logged[t] = written[t]
        BY <1>a, <1>b, <1>10, <3>1, <4>1 DEF MainWaits, LinesAreCounted
      <4> QED
        BY <1>l, <4>2 DEF LinesOK
    <3>2. ASSUME hasLog PROVE logged["stdout"] = written["stdout"]
      <4>1. pipe["stdout"] = 0 /\ InHand("stdout") = 0
        BY <1>a, <1>10 DEF MainWaits, EndIsSeen, AtEOF, InHand
      <4>2. logged["stdout"] + pipe["stdout"] + InHand("stdout") = written["stdout"]
        BY <1>a, <1>c, <1>10, <3>2 DEF MainWaits, LinesAreCounted
      <4> QED
        BY <1>b, <1>c, <4>1, <4>2
    <3>3. LogIsComplete'
      BY <1>10, <3>1, <3>2 DEF MainWaits, LogIsComplete
    <3> QED
      BY <1>a, <1>10, <3>3 DEF MainWaits, Joined, EndingIsKnown
  <2>8. LineIsMarked'
    BY <1>a, <1>10 DEF MainWaits, Joined, TypeOK, LockOK, EndingIsKnown, LineIsMarked
  <2>9. (hasLog \/ reader = "done")'
    BY <1>a, <1>10 DEF MainWaits, Joined
  <2> QED
    BY <2>1, <2>2, <2>4, <2>5, <2>6, <2>7, <2>8, <2>9 DEF IInv
<1>11. CASE MainUnwinds
  <2>s. UNCHANGED <<pipe, written, logged, hasLog>>
    BY <1>11 DEF MainUnwinds, KillsChildren
  <2>t. \A t \in Streams : InHand(t)' = InHand(t)
    BY <1>11 DEF MainUnwinds, KillsChildren, InHand
  <2>1. NothingIsInvented' /\ LinesAreCounted'
    BY <1>a, <1>11, <2>s, <2>t DEF MainUnwinds, KillsChildren, NothingIsInvented, LinesAreCounted
  <2>2. LinesOK'
    BY <1>l, <2>s DEF LinesOK
  <2>3. LockOK'
    BY <1>a, <1>11 DEF MainUnwinds, KillsChildren, TypeOK, LockOK
  <2>4. TypeOK' /\ LogStaysOpen'
    BY <1>a, <1>11, <2>2, <2>3 DEF MainUnwinds, KillsChildren, TypeOK, LogStaysOpen, EndingIsKnown
  <2>5. RoomForLines'
    BY <1>a, <1>11 DEF MainUnwinds, KillsChildren, RoomForLines
  <2>6. EndIsSeen'
    BY <1>a, <1>l, <1>11 DEF MainUnwinds, KillsChildren, LinesOK, TypeOK, EndIsSeen, AtEOF, Streams
  <2>7. EndingIsKnown'
    BY <1>a, <1>11 DEF MainUnwinds, KillsChildren, TypeOK, EndingIsKnown, LogIsComplete
  <2>8. LineIsMarked'
    BY <1>a, <1>11 DEF MainUnwinds, KillsChildren, TypeOK, LockOK, EndingIsKnown, LineIsMarked
  <2>9. (hasLog \/ reader = "done")'
    BY <1>a, <1>11 DEF MainUnwinds, KillsChildren
  <2> QED
    BY <2>1, <2>2, <2>4, <2>5, <2>6, <2>7, <2>8, <2>9 DEF IInv
<1>12. CASE MainExits
  <2>s. UNCHANGED <<pipe, written, logged, hasLog>>
    BY <1>12 DEF MainExits
  <2>t. \A t \in Streams : InHand(t)' = InHand(t)
    BY <1>12 DEF MainExits, InHand
  <2>1. NothingIsInvented' /\ LinesAreCounted'
    BY <1>a, <1>12, <2>s, <2>t DEF MainExits, NothingIsInvented, LinesAreCounted
  <2>2. LinesOK'
    BY <1>l, <2>s DEF LinesOK
  <2>3. LockOK'
    BY <1>a, <1>12 DEF MainExits, TypeOK, LockOK
  <2>4. TypeOK' /\ LogStaysOpen'
    BY <1>a, <1>12, <2>2, <2>3 DEF MainExits, TypeOK, LogStaysOpen, EndingIsKnown
  <2>5. RoomForLines'
    BY <1>a, <1>12 DEF MainExits, RoomForLines
  <2>6. EndIsSeen'
    BY <1>a, <1>l, <1>12 DEF MainExits, LinesOK, TypeOK, EndIsSeen, AtEOF, Streams
  <2>7. EndingIsKnown'
    BY <1>a, <1>12 DEF MainExits, TypeOK, EndingIsKnown, LogIsComplete
  <2>8. LineIsMarked'
    BY <1>a, <1>12 DEF MainExits, TypeOK, LockOK, EndingIsKnown, LineIsMarked
  <2>9. (hasLog \/ reader = "done")'
    BY <1>a, <1>12 DEF MainExits
  <2> QED
    BY <2>1, <2>2, <2>4, <2>5, <2>6, <2>7, <2>8, <2>9 DEF IInv
<1>13. CASE MainRaises
  <2>s. \A t \in Streams : InHand(t)' \in {0, InHand(t)}
    BY <1>13 DEF MainRaises, InHand
  <2>1. NothingIsInvented' /\ LinesAreCounted'
    <3>1. UNCHANGED <<pipe, written, logged>> /\ main' \in Unwinding
      BY <1>13 DEF MainRaises, Unwinding
    <3>2. NothingIsInvented'
      BY <1>a, <1>b, <1>l, <2>s, <3>1 DEF NothingIsInvented, LinesOK
    <3>3. LinesAreCounted'
      BY <3>1 DEF LinesAreCounted
    <3> QED
      BY <3>2, <3>3
  <2>2. LinesOK'
    BY <1>l, <1>13 DEF MainRaises, LinesOK
  <2>3. LockOK'
    BY <1>a, <1>13 DEF MainRaises, TypeOK, LockOK
  <2>4. TypeOK' /\ LogStaysOpen'
    BY <1>a, <1>13, <2>2, <2>3 DEF MainRaises, TypeOK, LogStaysOpen, EndingIsKnown
  <2>5. RoomForLines'
    BY <1>a, <1>13 DEF MainRaises, RoomForLines
  <2>6. EndIsSeen'
    BY <1>a, <1>l, <1>13 DEF MainRaises, LinesOK, TypeOK, EndIsSeen, AtEOF, Streams
  <2>7. EndingIsKnown'
    BY <1>a, <1>13 DEF MainRaises, TypeOK, EndingIsKnown, LogIsComplete
  <2>8. LineIsMarked'
    BY <1>a, <1>13 DEF MainRaises, TypeOK, LockOK, EndingIsKnown, LineIsMarked
  <2>9. (hasLog \/ reader = "done")'
    BY <1>a, <1>13 DEF MainRaises
  <2> QED
    BY <2>1, <2>2, <2>4, <2>5, <2>6, <2>7, <2>8, <2>9 DEF IInv
<1>14. CASE ReaderReads
  <2>s. /\ pipe' \in [Streams -> 0 .. Capacity]
        /\ written' \in [Streams -> 0 .. MaxLines]
        /\ logged' \in [Streams -> Nat]
        /\ \A t \in Streams :
             /\ written'[t] = written[t]
             /\ logged'[t] + pipe'[t] + InHand(t)' <= logged[t] + pipe[t] + InHand(t)
             /\ hasLog /\ main \notin Unwinding =>
                  logged'[t] + pipe'[t] + InHand(t)' = logged[t] + pipe[t] + InHand(t)
    <3>1. CASE pipe["stderr"] > 0 /\ pipe' = [pipe EXCEPT !["stderr"] = @ - 1]
                  /\ reader' = "want lock"
      <4>0. pipe["stderr"] \in 0 .. Capacity
        BY <1>c, <1>l DEF LinesOK
      <4>a. pipe["stderr"] > 0
        BY <3>1
      <4>1. pipe["stderr"] - 1 \in 0 .. Capacity
        BY <4>0, <4>a
      <4>2. pipe' \in [Streams -> 0 .. Capacity]
        BY <1>l, <3>1, <4>1 DEF LinesOK
      <4>3. ASSUME NEW t \in Streams PROVE
              /\ written'[t] = written[t]
              /\ logged'[t] + pipe'[t] + InHand(t)' = logged[t] + pipe[t] + InHand(t)
        <5>1. CASE t = "stderr"
          <6>1. pipe'[t] = pipe[t] - 1 /\ logged'[t] = logged[t] /\ written'[t] = written[t]
            BY <1>l, <1>14, <3>1, <5>1 DEF ReaderReads, MayRead, LinesOK
          <6>2. InHand(t) = 0 /\ InHand(t)' = 1
            BY <1>14, <3>1, <5>1 DEF ReaderReads, MayRead, InHand
          <6> QED
            BY <1>b, <6>1, <6>2
        <5>2. CASE t # "stderr"
          BY <1>l, <1>14, <3>1, <5>2 DEF ReaderReads, MayRead, LinesOK, InHand
        <5> QED
          BY <5>1, <5>2
      <4>4. written' = written /\ logged' = logged
        BY <1>14 DEF ReaderReads, MayRead
      <4> QED
        BY <1>b, <1>l, <4>2, <4>3, <4>4 DEF LinesOK
    <3>2. CASE UNCHANGED pipe /\ reader' = "done"
      <4>1. ASSUME NEW t \in Streams PROVE InHand(t)' \in {0, InHand(t)}
        BY <1>14, <3>2 DEF ReaderReads, MayRead, InHand
      <4>2. ASSUME NEW t \in Streams PROVE InHand(t)' = InHand(t)
        BY <1>a, <1>14, <3>2 DEF ReaderReads, MayRead, InHand
      <4>3. written' = written /\ pipe' = pipe /\ logged' = logged
        BY <1>14, <3>2 DEF ReaderReads, MayRead
      <4> QED
        BY <1>b, <1>l, <4>1, <4>2, <4>3 DEF LinesOK
    <3> QED
      BY <1>14, <3>1, <3>2 DEF ReaderReads, MayRead
  <2>h. /\ hasLog' = hasLog /\ (main' \in Unwinding <=> main \in Unwinding)
        /\ reader' = "dead" <=> reader = "dead"
    BY <1>14 DEF ReaderReads, MayRead
  <2>1. NothingIsInvented' /\ LinesAreCounted'
    BY <1>a, <1>b, <2>s, <2>h DEF NothingIsInvented, LinesAreCounted
  <2>2. LinesOK'
    <3>1. \A t \in Streams : /\ logged'[t] \in Nat /\ pipe'[t] \in Nat
                             /\ written'[t] \in Nat
      BY <2>s
    <3>2. \A t \in Streams : logged'[t] + pipe'[t] <= written'[t]
      BY <1>b, <2>1, <3>1 DEF NothingIsInvented
    <3> QED
      BY <2>s, <3>2 DEF LinesOK
  <2>3. LockOK'
    BY <1>a, <1>14 DEF ReaderReads, MayRead, TypeOK, LockOK
  <2>4. TypeOK' /\ LogStaysOpen'
    BY <1>a, <1>14, <2>2, <2>3 DEF ReaderReads, MayRead, TypeOK, LogStaysOpen, EndingIsKnown
  <2>5. RoomForLines'
    BY <1>a, <1>14 DEF ReaderReads, MayRead, RoomForLines
  <2>6. EndIsSeen'
    BY <1>a, <1>l, <1>14 DEF ReaderReads, MayRead, LinesOK, TypeOK, EndIsSeen, AtEOF, Streams
  <2>7. EndingIsKnown'
    BY <1>a, <1>14 DEF ReaderReads, MayRead, TypeOK, EndingIsKnown, LogIsComplete
  <2>8. LineIsMarked'
    BY <1>a, <1>14 DEF ReaderReads, MayRead, TypeOK, LockOK, EndingIsKnown, LineIsMarked
  <2>9. (hasLog \/ reader = "done")'
    BY <1>a, <1>14 DEF ReaderReads, MayRead
  <2> QED
    BY <2>1, <2>2, <2>4, <2>5, <2>6, <2>7, <2>8, <2>9 DEF IInv
<1>15. CASE ReaderLocks
  <2>s. UNCHANGED <<pipe, written, logged, hasLog>>
    BY <1>15 DEF ReaderLocks, Free
  <2>t. \A t \in Streams : InHand(t)' = InHand(t)
    BY <1>15 DEF ReaderLocks, Free, InHand
  <2>1. NothingIsInvented' /\ LinesAreCounted'
    BY <1>a, <1>15, <2>s, <2>t DEF ReaderLocks, Free, NothingIsInvented, LinesAreCounted
  <2>2. LinesOK'
    BY <1>l, <2>s DEF LinesOK
  <2>3. LockOK'
    BY <1>a, <1>15 DEF ReaderLocks, Free, TypeOK, LockOK
  <2>4. TypeOK' /\ LogStaysOpen'
    BY <1>a, <1>15, <2>2, <2>3 DEF ReaderLocks, Free, TypeOK, LogStaysOpen, EndingIsKnown
  <2>5. RoomForLines'
    BY <1>a, <1>15 DEF ReaderLocks, Free, RoomForLines
  <2>6. EndIsSeen'
    BY <1>a, <1>l, <1>15 DEF ReaderLocks, Free, LinesOK, TypeOK, EndIsSeen, AtEOF, Streams
  <2>7. EndingIsKnown'
    BY <1>a, <1>15 DEF ReaderLocks, Free, TypeOK, EndingIsKnown, LogIsComplete
  <2>8. LineIsMarked'
    BY <1>a, <1>15 DEF ReaderLocks, Free, TypeOK, LockOK, EndingIsKnown, LineIsMarked
  <2>9. (hasLog \/ reader = "done")'
    BY <1>a, <1>15 DEF ReaderLocks, Free
  <2> QED
    BY <2>1, <2>2, <2>4, <2>5, <2>6, <2>7, <2>8, <2>9 DEF IInv
<1>16. CASE ReaderStartsLine
  <2>s. UNCHANGED <<pipe, written, logged, hasLog>>
    BY <1>16 DEF ReaderStartsLine
  <2>t. \A t \in Streams : InHand(t)' = InHand(t)
    BY <1>16 DEF ReaderStartsLine, InHand
  <2>1. NothingIsInvented' /\ LinesAreCounted'
    BY <1>a, <1>16, <2>s, <2>t DEF ReaderStartsLine, NothingIsInvented, LinesAreCounted
  <2>2. LinesOK'
    BY <1>l, <2>s DEF LinesOK
  <2>3. LockOK'
    BY <1>a, <1>16 DEF ReaderStartsLine, TypeOK, LockOK
  <2>4. TypeOK' /\ LogStaysOpen'
    BY <1>a, <1>16, <2>2, <2>3 DEF ReaderStartsLine, TypeOK, LogStaysOpen, EndingIsKnown
  <2>5. RoomForLines'
    BY <1>a, <1>16 DEF ReaderStartsLine, RoomForLines
  <2>6. EndIsSeen'
    BY <1>a, <1>l, <1>16 DEF ReaderStartsLine, LinesOK, TypeOK, EndIsSeen, AtEOF, Streams
  <2>7. EndingIsKnown'
    BY <1>a, <1>16 DEF ReaderStartsLine, TypeOK, EndingIsKnown, LogIsComplete
  <2>8. LineIsMarked'
    BY <1>a, <1>16 DEF ReaderStartsLine, TypeOK, LockOK, EndingIsKnown, LineIsMarked
  <2>9. (hasLog \/ reader = "done")'
    BY <1>a, <1>16 DEF ReaderStartsLine
  <2> QED
    BY <2>1, <2>2, <2>4, <2>5, <2>6, <2>7, <2>8, <2>9 DEF IInv
<1>17. CASE ReaderWrites
  <2>s. /\ pipe' \in [Streams -> 0 .. Capacity]
        /\ written' \in [Streams -> 0 .. MaxLines]
        /\ logged' \in [Streams -> Nat]
        /\ \A t \in Streams :
             /\ written'[t] = written[t]
             /\ logged'[t] + pipe'[t] + InHand(t)' <= logged[t] + pipe[t] + InHand(t)
             /\ hasLog /\ main \notin Unwinding =>
                  logged'[t] + pipe'[t] + InHand(t)' = logged[t] + pipe[t] + InHand(t)
    <3>1. CASE logOpen /\ logged' = [logged EXCEPT !["stderr"] = @ + 1]
      <4>0. logged["stderr"] \in Nat
        BY <1>c, <1>l DEF LinesOK
      <4>1. logged["stderr"] + 1 \in Nat
        BY <4>0, <3>1
      <4>2. logged' \in [Streams -> Nat]
        BY <1>l, <3>1, <4>1 DEF LinesOK
      <4>3. ASSUME NEW t \in Streams PROVE
              /\ written'[t] = written[t]
              /\ logged'[t] + pipe'[t] + InHand(t)' = logged[t] + pipe[t] + InHand(t)
        <5>1. CASE t = "stderr"
          <6>1. pipe'[t] = pipe[t] /\ logged'[t] = logged[t] + 1 /\ written'[t] = written[t]
            BY <1>l, <1>17, <3>1, <5>1 DEF ReaderWrites, LinesOK
          <6>2. InHand(t) = 1 /\ InHand(t)' = 0
            BY <1>17, <3>1, <5>1 DEF ReaderWrites, InHand
          <6> QED
            BY <1>b, <6>1, <6>2
        <5>2. CASE t # "stderr"
          BY <1>l, <1>17, <3>1, <5>2 DEF ReaderWrites, LinesOK, InHand
        <5> QED
          BY <5>1, <5>2
      <4>4. written' = written /\ pipe' = pipe
        BY <1>17 DEF ReaderWrites
      <4> QED
        BY <1>b, <1>l, <4>2, <4>3, <4>4 DEF LinesOK
    <3>2. CASE ~logOpen /\ UNCHANGED logged
      <4>1. ASSUME NEW t \in Streams PROVE InHand(t)' \in {0, InHand(t)}
        BY <1>17, <3>2 DEF ReaderWrites, InHand
      <4>2. ~(hasLog /\ main \notin Unwinding)
        BY <1>a, <1>17, <3>2 DEF ReaderWrites, LogStaysOpen
      <4>3. written' = written /\ pipe' = pipe /\ logged' = logged
        BY <1>17, <3>2 DEF ReaderWrites
      <4> QED
        BY <1>b, <1>l, <4>1, <4>2, <4>3 DEF LinesOK
    <3> QED
      BY <1>17, <3>1, <3>2 DEF ReaderWrites
  <2>h. /\ hasLog' = hasLog /\ (main' \in Unwinding <=> main \in Unwinding)
        /\ reader' = "dead" <=> reader = "dead"
    BY <1>17 DEF ReaderWrites
  <2>1. NothingIsInvented' /\ LinesAreCounted'
    BY <1>a, <1>b, <2>s, <2>h DEF NothingIsInvented, LinesAreCounted
  <2>2. LinesOK'
    <3>1. \A t \in Streams : /\ logged'[t] \in Nat /\ pipe'[t] \in Nat
                             /\ written'[t] \in Nat
      BY <2>s
    <3>2. \A t \in Streams : logged'[t] + pipe'[t] <= written'[t]
      BY <1>b, <2>1, <3>1 DEF NothingIsInvented
    <3> QED
      BY <2>s, <3>2 DEF LinesOK
  <2>3. LockOK'
    BY <1>a, <1>17 DEF ReaderWrites, TypeOK, LockOK
  <2>4. TypeOK' /\ LogStaysOpen'
    BY <1>a, <1>17, <2>2, <2>3 DEF ReaderWrites, TypeOK, LogStaysOpen, EndingIsKnown
  <2>5. RoomForLines'
    BY <1>a, <1>17 DEF ReaderWrites, RoomForLines
  <2>6. EndIsSeen'
    BY <1>a, <1>l, <1>17 DEF ReaderWrites, LinesOK, TypeOK, EndIsSeen, AtEOF, Streams
  <2>7. EndingIsKnown'
    BY <1>a, <1>17 DEF ReaderWrites, TypeOK, EndingIsKnown, LogIsComplete
  <2>8. LineIsMarked'
    BY <1>a, <1>17 DEF ReaderWrites, TypeOK, LockOK, EndingIsKnown, LineIsMarked
  <2>9. (hasLog \/ reader = "done")'
    BY <1>a, <1>17 DEF ReaderWrites
  <2> QED
    BY <2>1, <2>2, <2>4, <2>5, <2>6, <2>7, <2>8, <2>9 DEF IInv
<1>18. CASE UNCHANGED vars
  <2>s. UNCHANGED <<pipe, written, logged, hasLog>>
    BY <1>18 DEF vars
  <2>t. \A t \in Streams : InHand(t)' = InHand(t)
    BY <1>18 DEF vars, InHand
  <2>1. NothingIsInvented' /\ LinesAreCounted'
    BY <1>a, <1>18, <2>s, <2>t DEF vars, NothingIsInvented, LinesAreCounted
  <2>2. LinesOK'
    BY <1>l, <2>s DEF LinesOK
  <2>3. LockOK'
    BY <1>a, <1>18 DEF vars, TypeOK, LockOK
  <2>4. TypeOK' /\ LogStaysOpen'
    <3>1. /\ UNCHANGED <<hasLog, command, blocked, main, reader>>
          /\ UNCHANGED <<logOpen, overwritable, cursor, ending>>
      BY <1>18 DEF vars, child, terminal
    <3>2. LogStaysOpen'
      BY <1>a, <3>1 DEF LogStaysOpen
    <3>3. hasLog' \in BOOLEAN /\ logOpen' \in BOOLEAN /\ overwritable' \in BOOLEAN
      BY <1>a, <3>1, Zenon DEF TypeOK
    <3>4. blocked' \subseteq Piped' /\ \A s, t \in blocked' : s = t
      BY <1>a, <3>1 DEF TypeOK
    <3> QED
      BY <1>a, <2>2, <2>3, <3>1, <3>2, <3>3, <3>4, Zenon DEF TypeOK
  <2>5. RoomForLines'
    BY <1>a, <1>18 DEF vars, RoomForLines
  <2>6. EndIsSeen'
    BY <1>a, <1>l, <1>18 DEF vars, LinesOK, TypeOK, EndIsSeen, AtEOF, Streams
  <2>7. EndingIsKnown'
    BY <1>a, <1>18 DEF vars, TypeOK, EndingIsKnown, LogIsComplete
  <2>8. LineIsMarked'
    BY <1>a, <1>18 DEF vars, TypeOK, LockOK, EndingIsKnown, LineIsMarked
  <2>9. (hasLog \/ reader = "done")'
    BY <1>a, <1>18 DEF vars
  <2> QED
    BY <2>1, <2>2, <2>4, <2>5, <2>6, <2>7, <2>8, <2>9 DEF IInv
<1>19. CASE ReaderRaises
  <2>s. /\ UNCHANGED <<pipe, written, logged, hasLog, main>>
        /\ hasLog /\ reader' = "dead"
    BY <1>a, <1>19 DEF ReaderRaises
  <2>t. \A t \in Streams : InHand(t)' \in {0, InHand(t)}
    BY <2>s DEF InHand
  <2>1. NothingIsInvented' /\ LinesAreCounted'
    <3>1. NothingIsInvented'
      BY <1>a, <1>b, <2>s, <2>t DEF NothingIsInvented
    <3>2. InHand("stdout")' = InHand("stdout")
      BY <2>s DEF InHand
    <3>3. LinesAreCounted'
      BY <1>a, <2>s, <3>2 DEF LinesAreCounted, Streams
    <3> QED
      BY <3>1, <3>3
  <2>2. LinesOK'
    BY <1>l, <2>s DEF LinesOK
  <2>3. LockOK'
    BY <1>a, <1>19 DEF ReaderRaises, TypeOK, LockOK
  <2>4. TypeOK' /\ LogStaysOpen'
    BY <1>a, <1>19, <2>2, <2>3 DEF ReaderRaises, TypeOK, LogStaysOpen, EndingIsKnown
  <2>5. RoomForLines'
    BY <1>a, <1>19 DEF ReaderRaises, RoomForLines
  <2>6. EndIsSeen'
    BY <1>a, <1>l, <1>19 DEF ReaderRaises, LinesOK, TypeOK, EndIsSeen, AtEOF, Streams
  <2>7. EndingIsKnown'
    BY <1>a, <1>19 DEF ReaderRaises, TypeOK, EndingIsKnown, LogIsComplete
  <2>8. LineIsMarked'
    BY <1>a, <1>19 DEF ReaderRaises, TypeOK, LockOK, EndingIsKnown, LineIsMarked
  <2>9. (hasLog \/ reader = "done")'
    BY <2>s
  <2> QED
    BY <2>1, <2>2, <2>4, <2>5, <2>6, <2>7, <2>8, <2>9 DEF IInv
<1> QED
  BY <1>1, <1>2, <1>3, <1>4, <1>5, <1>6, <1>7, <1>8, <1>9,
     <1>10, <1>11, <1>12, <1>13, <1>14, <1>15, <1>16, <1>17, <1>18, <1>19
  DEF Next, Command, Main, Reader

(* IInv holds in every reachable state.                                    *)
THEOREM Invariance == Spec => []IInv
<1>1. Init => IInv
  BY InitHolds
<1>2. IInv /\ [Next]_vars => IInv'
  BY StepHolds
<1> QED
  BY <1>1, <1>2, PTL DEF Spec

(* The variables have their types, and a thread has logfile_lock exactly   *)
(* while it handles a line.                                                *)
THEOREM TypeCorrect == Spec => []TypeOK
<1>1. IInv => TypeOK
  BY DEF IInv
<1> QED
  BY <1>1, Invariance, PTL

(* Whenever run_with_logfile() returns or reports that the command has     *)
(* failed, the log has all of its output, on whatever pipes: that of       *)
(* stderr unless the thread that reads it has died.                        *)
THEOREM LogComplete == Spec => []LogIsComplete
<1>1. IInv => LogIsComplete
  BY DEF IInv, EndingIsKnown
<1> QED
  BY <1>1, Invariance, PTL

(* What _handle_stderr() writes begins a line, however it interleaves with *)
(* the filters of stdout.                                                  *)
THEOREM ErrorsOnTheirOwnLine == Spec => []ErrorsStartALine
<1>1. IInv => ErrorsStartALine
  BY DEF IInv, LineIsMarked, ErrorsStartALine
<1> QED
  BY <1>1, Invariance, PTL
=============================================================================
