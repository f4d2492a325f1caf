----------------------------- MODULE ConnectDir -----------------------------
(***************************************************************************)
(* connect_dir of ftputils.c, which joins the session's directory and the  *)
(* argument of a command and cleans the result in place, and cwd of        *)
(* control.c, which makes the result the session's directory.              *)
(*                                                                         *)
(* A path is the sequence of its segments, each of which follows a "/":    *)
(* "/" is <<"">>, "/a/b" is <<"a", "b">>, "/a/" is <<"a", "">> and the     *)
(* empty string is <<>>. The loop's pointer acts only where it finds a     *)
(* "/": p is the number of the segment that follows.                       *)
(***************************************************************************)
EXTENDS Integers, Sequences

CONSTANTS
  Name,     \* plain segments
  MaxSeg,   \* MAX_BUF, counted in segments
  MaxArg    \* segments of a command's argument

ASSUME NameAssumption == Name \cap {"", ".", ".."} = {}
ASSUME SizeAssumption == MaxSeg \in Nat /\ MaxArg \in Nat

Seg == Name \cup {"", ".", ".."}

VARIABLES
  dir,     \* clients[client_fd].dir
  dest,    \* _dest
  p,       \* the loop's pointer
  ret,     \* "idle": not called; "run": in the loop; "ok": 0;
           \* "above" and "long": -1
  joined   \* history: _dest as it was before the loop

vars == <<dir, dest, p, ret, joined>>

TypeOK ==
  /\ dir \in Seq(Seg)
  /\ dest \in Seq(Seg)
  /\ p \in Nat \ {0}
  /\ ret \in {"idle", "run", "ok", "above", "long"}
  /\ joined \in Seq(Seg)

Init ==
  /\ dir = <<"">>
  /\ dest = <<>>
  /\ p = 1
  /\ ret = "idle"
  /\ joined = <<>>

(* An argument that begins with "/" is a path of its own; another one is     *)
(* appended to the father with a "/" between.                               *)
Join(father, son, absolute) == IF absolute THEN son ELSE father \o son

Argument == UNION {[1..n -> Seg] : n \in 1..MaxArg}
Relative(son) == Len(son) = 1 \/ son[1] # ""

(* Two paths that do not fit the buffer together, whether or not they are   *)
(* going to be joined: -1 at once.                                          *)
TooLong(son) ==
  /\ ret = "idle"
  /\ Len(dir) + Len(son) > MaxSeg
  /\ ret' = "long"
  /\ UNCHANGED <<dir, dest, p, joined>>

Call(son, absolute) ==
  /\ ret = "idle"
  /\ absolute \/ Relative(son)
  /\ Len(dir) + Len(son) <= MaxSeg
  /\ dest' = Join(dir, son, absolute)
  /\ joined' = dest'
  /\ p' = 1
  /\ ret' = "run"
  /\ UNCHANGED dir

Here == dest[p]
InPath == ret = "run" /\ p <= Len(dest)

(* The path without its segments from i to j *)
Without(i, j) == SubSeq(dest, 1, i - 1) \o SubSeq(dest, j + 1, Len(dest))

(* "//": one of the slashes goes. *)
CollapseMutant ==
  /\ InPath
  /\ Here = "" /\ p < Len(dest)
  /\ dest' = Without(p, p)
  /\ p' = p + 1
  /\ UNCHANGED <<dir, ret, joined>>

Collapse ==
  /\ InPath
  /\ Here = "" /\ p < Len(dest)
  /\ dest' = Without(p, p)
  /\ UNCHANGED <<dir, p, ret, joined>>

(* "/." followed by "/" or the end *)
DropDot ==
  /\ InPath
  /\ Here = "."
  /\ dest' = Without(p, p)
  /\ UNCHANGED <<dir, p, ret, joined>>

(* "/.." at the start, or after another "/": above the root *)
AtTopMutant == p > 1 /\ dest[p - 1] = ""
AtTop == p > 1 => dest[p - 1] = ""

Refuse ==
  /\ InPath
  /\ Here = ".." /\ AtTop
  /\ ret' = "above"
  /\ UNCHANGED <<dir, dest, p, joined>>

(* "/..": what follows it is moved behind the previous slash, which leaves   *)
(* an empty segment in place of the name and the "..".                      *)
Up(i) == SubSeq(dest, 1, i - 2) \o <<"">> \o SubSeq(dest, i + 1, Len(dest))

GoUpMutant ==
  /\ InPath
  /\ Here = ".."
  /\ ~ AtTop
  /\ dest' = [dest EXCEPT ![p] = ""]
  /\ p' = p - 1
  /\ UNCHANGED <<dir, ret, joined>>

GoUp ==
  /\ InPath
  /\ Here = ".."
  /\ ~ AtTop
  /\ dest' = Up(p)
  /\ p' = p - 1
  /\ UNCHANGED <<dir, ret, joined>>

Advance ==
  /\ InPath
  /\ Here \notin {".", ".."}
  /\ Here = "" => p = Len(dest)
  /\ p' = p + 1
  /\ UNCHANGED <<dir, dest, ret, joined>>

Finish ==
  /\ ret = "run"
  /\ p > Len(dest)
  /\ ret' = "ok"
  /\ UNCHANGED <<dir, dest, p, joined>>

ReturnMutant ==
  /\ ret \in {"ok", "above", "long"}
  /\ dir' \in {dir, dest}
  /\ ret' = "idle"
  /\ dest' = <<>>
  /\ joined' = <<>>
  /\ p' = 1

(* cwd stores the result if it can be opened; the other commands use it and *)
(* leave the session's directory as it was, and so does a result of -1.     *)
Return ==
  /\ ret \in {"ok", "above", "long"}
  /\ dir' = dir \/ (ret = "ok" /\ dir' = dest)
  /\ ret' = "idle"
  /\ dest' = <<>>
  /\ joined' = <<>>
  /\ p' = 1

Next ==
  \/ \E son \in Argument : TooLong(son)
  \/ \E son \in Argument, absolute \in BOOLEAN : Call(son, absolute)
  \/ Collapse
  \/ DropDot
  \/ Refuse
  \/ GoUp
  \/ Advance
  \/ Finish
  \/ Return

Spec == Init /\ [][Next]_vars

-----------------------------------------------------------------------------
(* A path without "." and "..", and without an empty segment but the last,   *)
(* which stands for a slash at the end.                                     *)
Clean(path, n) ==
  \A i \in 1..n : /\ path[i] \notin {".", ".."}
                  /\ path[i] = "" => i = Len(path)

(* What connect_dir returns with 0 is clean. *)
ResultClean == ret = "ok" => Clean(dest, Len(dest))

(* The directory of a session is clean after any sequence of commands:      *)
(* PWD shows, and the next command starts from, a path without "." or "..". *)
DirClean == Clean(dir, Len(dir))

(* The inductive invariant: what the pointer has passed is clean. *)
PassedClean ==
  ret \in {"run", "ok"} =>
    /\ p <= Len(dest) + 1
    /\ Clean(dest, p - 1)
    /\ ret = "ok" => p = Len(dest) + 1

(* What a path means: its segments, read from the left, put a name on a     *)
(* stack or, "..", take one off; a path that takes one off the empty stack  *)
(* leads above the root.                                                    *)
Root == [names |-> <<>>, above |-> FALSE]

Push(stack, seg) ==
  IF stack.above \/ seg \in {"", "."} THEN stack
  ELSE IF seg # ".." THEN [stack EXCEPT !.names = Append(@, seg)]
  ELSE IF stack.names = <<>> THEN [stack EXCEPT !.above = TRUE]
  ELSE [stack EXCEPT !.names = SubSeq(@, 1, Len(@) - 1)]

Reading(path) ==
  LET stack[k \in 0..Len(path)] ==
        IF k = 0 THEN Root ELSE Push(stack[k - 1], path[k])
  IN stack

Resolve(path) == Reading(path)[Len(path)]

(* The loop's result is the path of the directory the joined path leads to, *)
(* with or without a slash at its end, and -1 is returned exactly for the   *)
(* paths that lead above the root.                                          *)
ResultRight ==
  LET meant == Resolve(joined)
  IN /\ ret = "ok" => /\ ~ meant.above
                      /\ dest \in {meant.names, Append(meant.names, "")}
     /\ ret = "above" => meant.above

(* The directory a clean path is of, by names *)
Directory(path) ==
  IF path # <<>> /\ path[Len(path)] = "" THEN SubSeq(path, 1, Len(path) - 1) ELSE path

(* What every command relies on: from the session's directory, whatever led *)
(* there, a name goes one level down and ".." one up, the latter being      *)
(* refused at the root only; and an absolute path of names means itself.    *)
ArgumentsResolved ==
  LET here == Directory(dir)
  IN /\ \A n \in Name : joined = dir \o <<n>> =>
          ret # "above" /\ (ret = "ok" => Directory(dest) = Append(here, n))
     /\ joined = dir \o <<"..">> =>
          /\ ret = "above" => here = <<>>
          /\ ret = "ok" => here # <<>> /\ Directory(dest) = SubSeq(here, 1, Len(here) - 1)
     /\ joined \in Seq(Name) => ret # "above" /\ (ret = "ok" => Directory(dest) = joined)

(* The loop ends: each iteration, those that move the pointer back as well, *)
(* makes this number smaller, and it is never negative.                     *)
Remaining == 2 * Len(dest) + 1 - p

LoopShrinks ==
  [][ret = "run" /\ ret' = "run" => Remaining' < Remaining /\ Remaining' >= 0]_vars
=============================================================================
