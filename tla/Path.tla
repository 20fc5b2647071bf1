-------------------------------- MODULE Path --------------------------------
(***************************************************************************)
(* libstd/src/path.rs as the target builds it (cfg(unix): no prefixes): the *)
(* double-ended Components iterator over the bytes of a path, and Path and  *)
(* PathBuf on top of it.  A byte is a separator, a dot or a letter; a       *)
(* component is the bytes as_os_str gives.                                  *)
(***************************************************************************)
EXTENDS Integers, Sequences, SequencesExt

CONSTANTS Letters,           \* the bytes that are neither separator nor dot
          MaxLen             \* bound: bytes of a path

Sep == "/"
Dot == "."
RootDir == <<Sep>>
CurDir == <<Dot>>
ParentDir == <<Dot, Dot>>
Nothing == << >>             \* the None of an iterator

\* State: Prefix, StartDir, Body, Done, compared as numbers.
Prefix == 0
StartDir == 1
Body == 2
Done == 3

has_physical_root(p) == p # << >> /\ p[1] = Sep

components(p) == [path |-> p, root |-> has_physical_root(p), front |-> Prefix, back |-> Body]

include_cur_dir(c) ==
  ~c.root /\ Len(c.path) >= 1 /\ c.path[1] = Dot /\ (Len(c.path) = 1 \/ c.path[2] = Sep)

len_before_body(c) ==
  IF c.front <= StartDir /\ (c.root \/ include_cur_dir(c)) THEN 1 ELSE 0

\* Mutant: the two cursors may pass each other.
finished_Loose(c) == c.front = Done \/ c.back = Done

finished(c) == c.front = Done \/ c.back = Done \/ c.front > c.back

parse_single_component(comp) == IF comp = <<Dot>> THEN Nothing ELSE comp

SepsIn(s) == {i \in DOMAIN s : s[i] = Sep}

\* How many bytes the next component takes, and the component.
parse_next_component(c) ==
  IF SepsIn(c.path) = {} THEN [size |-> Len(c.path), comp |-> parse_single_component(c.path)]
  ELSE LET i == Min(SepsIn(c.path)) IN
       [size |-> i, comp |-> parse_single_component(SubSeq(c.path, 1, i - 1))]

parse_next_component_back(c) ==
  LET s == SubSeq(c.path, len_before_body(c) + 1, Len(c.path)) IN
  IF SepsIn(s) = {} THEN [size |-> Len(s), comp |-> parse_single_component(s)]
  ELSE LET i == Max(SepsIn(s)) IN
       [size |-> Len(s) - i + 1, comp |-> parse_single_component(SubSeq(s, i + 1, Len(s)))]

DropFront(c, n) == [c EXCEPT !.path = SubSeq(@, n + 1, Len(@))]
DropBack(c, n) == [c EXCEPT !.path = SubSeq(@, 1, Len(@) - n)]

RECURSIVE trim_left(_)
trim_left(c) ==
  LET n == parse_next_component(c) IN
  IF c.path = << >> \/ n.comp # Nothing THEN c ELSE trim_left(DropFront(c, n.size))

RECURSIVE trim_right(_)
trim_right(c) ==
  LET n == parse_next_component_back(c) IN
  IF Len(c.path) <= len_before_body(c) \/ n.comp # Nothing THEN c
  ELSE trim_right(DropBack(c, n.size))

as_path(c) ==
  LET left == IF c.front = Body THEN trim_left(c) ELSE c
  IN (IF c.back = Body THEN trim_right(left) ELSE left).path

Yield(c, comp) == [c |-> c, comp |-> comp]

RECURSIVE next(_)
next(c) ==
  IF finished(c) THEN Yield(c, Nothing)
  ELSE IF c.front = Prefix THEN next([c EXCEPT !.front = StartDir])
  ELSE IF c.front = StartDir THEN
    LET d == [c EXCEPT !.front = Body] IN
    IF c.root THEN Yield(DropFront(d, 1), RootDir)
    ELSE IF include_cur_dir(c) THEN Yield(DropFront(d, 1), CurDir) ELSE next(d)
  ELSE IF c.path = << >> THEN next([c EXCEPT !.front = Done])
  ELSE LET n == parse_next_component(c)
           d == DropFront(c, n.size)
       IN IF n.comp # Nothing THEN Yield(d, n.comp) ELSE next(d)

RECURSIVE next_back(_)
next_back(c) ==
  IF finished(c) THEN Yield(c, Nothing)
  ELSE IF c.back = Body /\ Len(c.path) > len_before_body(c) THEN
    LET n == parse_next_component_back(c)
        d == DropBack(c, n.size)
    IN IF n.comp # Nothing THEN Yield(d, n.comp) ELSE next_back(d)
  ELSE IF c.back = Body THEN next_back([c EXCEPT !.back = StartDir])
  ELSE IF c.back = StartDir THEN
    LET d == [c EXCEPT !.back = Prefix] IN
    IF c.root THEN Yield(DropBack(d, 1), RootDir)
    ELSE IF include_cur_dir(c) THEN Yield(DropBack(d, 1), CurDir) ELSE next_back(d)
  ELSE Yield([c EXCEPT !.back = Done], Nothing)

\* iter_after: the iterator after the prefix, or NoRest.
NoRest == << >>
RECURSIVE iter_after(_, _, _)
iter_after(c, prefix, backwards) ==
  LET a == IF backwards THEN next_back(c) ELSE next(c)
      b == IF backwards THEN next_back(prefix) ELSE next(prefix)
  IN IF b.comp = Nothing THEN <<c>>
     ELSE IF a.comp = b.comp THEN iter_after(a.c, b.c, backwards) ELSE NoRest

path_eq(p, q) ==
  LET rest == iter_after(components(p), components(q), FALSE) IN
  rest # NoRest /\ next(rest[1]).comp = Nothing

is_absolute(p) == has_physical_root(p)

starts_with(p, base) == iter_after(components(p), components(base), FALSE) # NoRest
ends_with(p, child) == iter_after(components(p), components(child), TRUE) # NoRest
strip_prefix(p, base) == as_path(iter_after(components(p), components(base), FALSE)[1])

IsNormal(comp) == comp \notin {Nothing, RootDir, CurDir, ParentDir}

file_name(p) ==
  LET comp == next_back(components(p)).comp IN IF IsNormal(comp) THEN comp ELSE Nothing

has_parent(p) == next_back(components(p)).comp \notin {Nothing, RootDir}
parent(p) == as_path(next_back(components(p)).c)

\* split_file_at_dot: at the last dot, unless the name starts with it and has no other.
LastDot(f) == Max({0} \cup {i \in DOMAIN f : f[i] = Dot})
file_stem(p) ==
  LET f == file_name(p) IN IF LastDot(f) <= 1 THEN f ELSE SubSeq(f, 1, LastDot(f) - 1)
has_extension(p) == LastDot(file_name(p)) > 1
extension(p) == SubSeq(file_name(p), LastDot(file_name(p)) + 1, Len(file_name(p)))

push(p, x) ==
  IF is_absolute(x) THEN x
  ELSE IF p # << >> /\ Last(p) # Sep THEN p \o <<Sep>> \o x ELSE p \o x

\* pop truncates to the length of the parent, which need not be the parent itself.
pop(p) == IF has_parent(p) THEN SubSeq(p, 1, Len(parent(p))) ELSE p

set_file_name(p, name) == push(IF file_name(p) # Nothing THEN pop(p) ELSE p, name)

set_extension(p, ext) ==
  IF file_name(p) = Nothing THEN p
  ELSE set_file_name(p, file_stem(p) \o (IF ext = << >> THEN << >> ELSE <<Dot>> \o ext))

-----------------------------------------------------------------------------
VARIABLES buf,               \* a PathBuf
          comps,             \* an iterator over it
          fromFront, fromBack \* what it has yielded at either end

pathVars == <<buf, comps, fromFront, fromBack>>

Bytes == Letters \cup {Sep, Dot}
Strings(n) == UNION {[1 .. k -> Bytes] : k \in 0 .. n}
Names == {s \in Strings(2) : Sep \notin ToSet(s) /\ s \notin {<<Dot>>, <<Dot, Dot>>, << >>}}

Restart(p) ==
  buf' = p /\ comps' = components(p) /\ fromFront' = << >> /\ fromBack' = << >>

PathInit ==
  buf \in Strings(MaxLen) /\ comps = components(buf) /\ fromFront = << >> /\ fromBack = << >>

TakeFront ==
  LET n == next(comps) IN
  /\ ~finished(comps)
  /\ comps' = n.c
  /\ fromFront' = IF n.comp = Nothing THEN fromFront ELSE Append(fromFront, n.comp)
  /\ UNCHANGED <<buf, fromBack>>

TakeBack ==
  LET n == next_back(comps) IN
  /\ ~finished(comps)
  /\ comps' = n.c
  /\ fromBack' = IF n.comp = Nothing THEN fromBack ELSE <<n.comp>> \o fromBack
  /\ UNCHANGED <<buf, fromFront>>

Unstarted == comps = components(buf)

Push(x) == Unstarted /\ Len(push(buf, x)) <= MaxLen /\ Restart(push(buf, x))
Pop == Unstarted /\ has_parent(buf) /\ Restart(pop(buf))
SetFileName(x) == Unstarted /\ Len(set_file_name(buf, x)) <= MaxLen /\ Restart(set_file_name(buf, x))
SetExtension(x) == Unstarted /\ Len(set_extension(buf, x)) <= MaxLen /\ Restart(set_extension(buf, x))

PathNext ==
  \/ TakeFront \/ TakeBack \/ Pop
  \/ \E x \in Strings(2) : Push(x)
  \/ \E x \in Names : SetFileName(x)
  \/ \E x \in Strings(1) \ {<<Sep>>, <<Dot>>} : SetExtension(x)

PathSpec == PathInit /\ [][PathNext]_pathVars

-----------------------------------------------------------------------------
\* The reference: cut at separators, drop empty parts and dots, keep a root and a leading dot.
Parts(p) ==
  LET cuts == SetToSortSeq({0, Len(p) + 1} \cup SepsIn(p), <)
  IN [i \in 1 .. Len(cuts) - 1 |-> SubSeq(p, cuts[i] + 1, cuts[i + 1] - 1)]
Parsed(p) ==
  (IF has_physical_root(p) THEN <<RootDir>>
   ELSE IF Parts(p)[1] = CurDir THEN <<CurDir>> ELSE << >>)
  \o SelectSeq(Parts(p), LAMBDA s : s \notin {<< >>, CurDir})

\* Whatever ends components are taken from, and in whatever order, what came from the front, the
\* components of the path that as_path says is left, and what came from the back are together the
\* components of the whole path: the two cursors neither skip, repeat nor cut one.
EitherEndAgrees == fromFront \o Parsed(as_path(comps)) \o fromBack = Parsed(buf)

\* What the methods of Path promise of each other, for every path and argument: a stripped prefix
\* joins back on, prefixes and suffixes are of whole components, a file name joins its parent, a
\* pushed name pops off, and setting an extension or a name reads back.
PathLaws ==
  Unstarted =>
    /\ \A x \in Strings(3) :
         /\ starts_with(buf, x) = IsPrefix(Parsed(x), Parsed(buf))
         /\ ends_with(buf, x) = IsSuffix(Parsed(x), Parsed(buf))
         /\ starts_with(buf, x) => path_eq(push(x, strip_prefix(buf, x)), buf)
    /\ file_name(buf) # Nothing => path_eq(push(parent(buf), file_name(buf)), buf)
    /\ \A x \in Names :
         /\ path_eq(pop(push(buf, x)), buf)
         /\ file_name(set_file_name(buf, x)) = x
         /\ file_name(buf) # Nothing => path_eq(parent(set_file_name(buf, x)), parent(buf))
    /\ \A x \in {<<l>> : l \in Letters} : file_name(buf) # Nothing =>
         LET q == set_extension(buf, x) IN
         has_extension(q) /\ extension(q) = x /\ file_stem(q) = file_stem(buf)
           /\ path_eq(parent(q), parent(buf))
=============================================================================
