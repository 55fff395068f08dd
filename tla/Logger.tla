------------------------------- MODULE Logger -------------------------------
(***************************************************************************)
(* The log: the line under construction, the end of a line, and the leaves *)
(* that tell the last lines.  The rest of the firmware logs by statements, *)
(* which begin with debug or not and end with eol or, by mistake, do not.  *)
(*                                                                         *)
(* To set a leaf publishes it, and the sessions it is published to log in  *)
(* turn: every statement can come between two steps of an eol.             *)
(*                                                                         *)
(* A statement writes one text; the formats of a line and what goes to the *)
(* serial port are left out.                                               *)
(***************************************************************************)
EXTENDS Integers, Sequences

CONSTANTS
    Texts,
    debugging,              \* whether debug lines are to be seen: FALSE in Logger.h
    logDepth,
    MAX_LOG_STRING_LENGTH   \* here of texts

ASSUME LoggerAssumption ==
    /\ debugging \in BOOLEAN
    /\ {logDepth, MAX_LOG_STRING_LENGTH} \subseteq Nat \ {0}

VARIABLES
    lineString,
    lineIsDebug,
    logging,
    logLeaves,
    logPosition,  \* leaves in use
    pos,          \* the leaf the eol sets next
    statements,   \* ghost: what was said outside of an eol since the last one
    lines         \* ghost: the last lines that were complete and not debug

lineVars == <<lineString, lineIsDebug, statements, lines>>
leafVars == <<logLeaves, logPosition, pos>>
logVars == <<lineVars, logging, leafVars>>

Unset == <<>>

LogInit ==
    /\ lineString = <<>>
    /\ lineIsDebug = FALSE
    /\ logging = FALSE
    /\ logLeaves = [i \in 1 .. logDepth |-> Unset]
    /\ logPosition = 0
    /\ pos = 0
    /\ statements = [texts |-> <<>>, debug |-> FALSE]
    /\ lines = <<>>

dontLog_OnlyDebug(isDebug) == isDebug /\ ~debugging

dontLog(isDebug) == logging \/ (isDebug /\ ~debugging)

Clipped(texts) ==
    IF Len(texts) > MAX_LOG_STRING_LENGTH
    THEN SubSeq(texts, 1, MAX_LOG_STRING_LENGTH)
    ELSE texts

(* A statement up to its eol.                                              *)
Write(text, debug) ==
    /\ lineIsDebug' = (lineIsDebug \/ (debug /\ ~dontLog(lineIsDebug)))
    /\ lineString' = IF dontLog(lineIsDebug') THEN lineString
                     ELSE Clipped(Append(lineString, text))

Said(text, debug) ==
    [texts |-> Append(statements.texts, text), debug |-> statements.debug \/ debug]

(* A statement without eol.  Bound: no line is said in more than           *)
(* MAX_LOG_STRING_LENGTH + 1 statements, so the last one can be cut.       *)
SayOn(text, debug) ==
    /\ ~logging
    /\ Len(statements.texts) < MAX_LOG_STRING_LENGTH
    /\ Write(text, debug)
    /\ statements' = Said(text, debug)
    /\ UNCHANGED <<lines, logging, leafVars>>

LastLines(said) ==
    IF said.debug THEN lines
    ELSE LET all == Append(lines, Clipped(said.texts))
         IN  IF Len(all) > logDepth THEN Tail(all) ELSE all

(* With eol: a line that is not debug is yet to be added to the log; a     *)
(* full log is scrolled first.                                             *)
Say(text, debug) ==
    /\ ~logging
    /\ statements' = [texts |-> <<>>, debug |-> FALSE]
    /\ lines' = LastLines(Said(text, debug))
    /\ UNCHANGED <<logLeaves, logPosition>>
    /\ LET isDebug == lineIsDebug \/ debug IN
       \/ /\ isDebug
          /\ lineIsDebug' = FALSE
          /\ lineString' = <<>>
          /\ UNCHANGED <<logging, pos>>
       \/ /\ ~isDebug
          /\ Write(text, debug)
          /\ logging' = TRUE
          /\ pos' = IF logPosition = logDepth THEN 1 ELSE logPosition + 1

(* What a session says while a line is published.                          *)
SayMeanwhile(text, debug) ==
    /\ logging
    /\ Write(text, debug)
    /\ UNCHANGED <<statements, lines, logging, leafVars>>

(* scrollUpLog.                                                            *)
Scroll(i) == logLeaves[i + 1]

ScrollUp ==
    /\ logging
    /\ logPosition = logDepth
    /\ pos < logDepth
    /\ logLeaves' = [logLeaves EXCEPT ![pos] = Scroll(pos)]
    /\ pos' = pos + 1
    /\ UNCHANGED <<lineVars, logging, logPosition>>

(* The rest of addLineToLog and of eol.                                    *)
AddLine ==
    /\ logging
    /\ pos > logPosition \/ pos = logDepth
    /\ logLeaves' = [logLeaves EXCEPT ![pos] = lineString]
    /\ logPosition' = pos
    /\ lineIsDebug' = FALSE
    /\ lineString' = <<>>
    /\ logging' = FALSE
    /\ pos' = 0
    /\ UNCHANGED <<statements, lines>>

LogNext ==
    \/ \E text \in Texts, debug \in BOOLEAN :
         SayOn(text, debug) \/ Say(text, debug) \/ SayMeanwhile(text, debug)
    \/ ScrollUp
    \/ AddLine

LogSpec == LogInit /\ [][LogNext]_logVars

(* Between two statements the leaves tell the last complete lines in their *)
(* order, each whole: with every text of a line that an earlier statement  *)
(* did not end, without what was said while it was published, and without  *)
(* the lines that have a debug statement in them, first or later.          *)
(* Logger.cpp:219, and TCPServer.cpp:49 for a statement that does not end. *)
LogTellsLastLines ==
    ~logging =>
        logLeaves = [i \in 1 .. logDepth |-> IF i <= Len(lines) THEN lines[i] ELSE Unset]
=============================================================================
