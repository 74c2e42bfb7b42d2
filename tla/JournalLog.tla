----------------------------- MODULE JournalLog -----------------------------
(***************************************************************************)
(* The resume journal's file, as internal/journal/journal.go writes and    *)
(* reads it, seen from one relative path.  The file is a JSONL log: Put    *)
(* appends one line, Open reads every line back and keeps the last one     *)
(* that parses.  What a later load can tell apart is kept, the text is     *)
(* not:                                                                    *)
(*    last  the last terminated line that parses (NoEntry if none does)    *)
(*    bad   some terminated line does not parse                            *)
(*    tail  what follows the last newline: nothing, the fragment of a line *)
(*          an interrupted append left, or a whole line short of its       *)
(*          newline                                                        *)
(* The module has no state of its own: FileTransfer keeps such a record.   *)
(***************************************************************************)
CONSTANTS Entry,     \* the journal entries a load can return
          NoEntry,   \* the path has no entry
          Nothing,   \* the log ends with a newline, or is empty
          Fragment   \* the log ends with a piece of a line

Log == [last: Entry \cup {NoEntry}, bad: BOOLEAN,
        tail: Entry \cup {Nothing, Fragment}]

EmptyLog == [last |-> NoEntry, bad |-> FALSE, tail |-> Nothing]

\* load: the scanner also hands out a last line without newline; a line that
\* does not parse is counted and skipped.
Loaded(log) == IF log.tail \in Entry THEN log.tail ELSE log.last

\* load's error "journal corrupt": corrupt lines, and not one good entry.
Unreadable(log) == /\ log.bad \/ log.tail = Fragment
                   /\ Loaded(log) = NoEntry

\* Put that runs to the end.  The line lands behind whatever the log ends
\* with: behind an unterminated line the two make one line that does not parse.
Appended(log, e) ==
    IF log.tail = Nothing
    THEN [log EXCEPT !.last = e]
    ELSE [log EXCEPT !.bad = TRUE, !.tail = Nothing]

\* Put cut short (a crash, or a write error): any prefix of the line may be in
\* the file, none of it and all of it included.
Interrupted(log, e) ==
    {log, Appended(log, e), [log EXCEPT !.tail = Fragment]}
      \cup (IF log.tail = Nothing THEN {[log EXCEPT !.tail = e]} ELSE {})
=============================================================================
