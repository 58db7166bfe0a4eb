--------------------------- MODULE PosixNamespace ---------------------------
(***************************************************************************)
(* What the namespace promises its users: a tree of directories whose      *)
(* entries name objects, with hard links to everything but directories.    *)
(* Nothing is said of edges, indexes, link counts, dot entries or          *)
(* directory nodes: an object is there as long as it has a name.           *)
(***************************************************************************)
EXTENDS Integers

CONSTANTS Root, Dir     \* the root object; the kind of a directory

VARIABLES
  kind,     \* the objects that exist, and what they are
  ent       \* the entries: <<directory, name>> to object

Entry(d, n, o) == [k \in DOMAIN ent \cup {<<d, n>>} |-> IF k = <<d, n>> THEN o ELSE ent[k]]

IsDir(o)   == o \in DOMAIN kind /\ kind[o] = Dir
IsEmpty(d) == \A k \in DOMAIN ent : k[1] # d

\* Directory a is d or above it: it is in every set that holds d and, with an
\* object, the directories that name it.
AtOrAbove(a, d) ==
  \A S \in SUBSET (DOMAIN kind) :
    d \in S /\ (\A k \in DOMAIN ent : ent[k] \in S => k[1] \in S) => a \in S

\* What is left of the objects when the entries are e.
Reachable(e) == [o \in {x \in DOMAIN kind : x = Root \/ \E k \in DOMAIN e : e[k] = x}
                   |-> kind[o]]

Init ==
  /\ kind = [o \in {Root} |-> Dir]
  /\ ent = [k \in {} |-> Root]

\* create, mkdir, symlink: a new object under a new name.
Create(d, n, o, t) ==
  /\ IsDir(d) /\ <<d, n>> \notin DOMAIN ent /\ o \notin DOMAIN kind
  /\ ent' = Entry(d, n, o)
  /\ kind' = [x \in DOMAIN kind \cup {o} |-> IF x = o THEN t ELSE kind[x]]

\* link: a second name for an object that is not a directory.
Link(d, n, o) ==
  /\ IsDir(d) /\ <<d, n>> \notin DOMAIN ent
  /\ o \in DOMAIN kind /\ ~IsDir(o)
  /\ ent' = Entry(d, n, o)
  /\ UNCHANGED kind

\* unlink, rmdir: a name goes, and the object with its last name.
Remove(k) ==
  /\ k \in DOMAIN ent
  /\ IsDir(ent[k]) => IsEmpty(ent[k])
  /\ ent' = [x \in DOMAIN ent \ {k} |-> ent[x]]
  /\ kind' = Reachable(ent')

\* rename: in one step the object has its new name and not the old one; what
\* had the new name before is removed as by unlink or rmdir; no directory ends
\* up below itself.
Rename(k, d, n) ==
  LET o == ent[k]
      t == ent[<<d, n>>]
      e == [x \in DOMAIN ent \ {k} |-> ent[x]]
  IN /\ k \in DOMAIN ent /\ IsDir(d) /\ k # <<d, n>>
     /\ IsDir(o) => ~AtOrAbove(o, d)
     /\ <<d, n>> \in DOMAIN ent /\ IsDir(t) => IsEmpty(t)
     /\ ent' = [x \in DOMAIN e \cup {<<d, n>>} |-> IF x = <<d, n>> THEN o ELSE e[x]]
     /\ kind' = Reachable(ent')

\* The arguments can be read off the two states: the name that came, the name
\* that went, the object that is new.
Next ==
  \/ \E x \in DOMAIN ent' \ DOMAIN ent :
       \/ \E o \in DOMAIN kind' \ DOMAIN kind : Create(x[1], x[2], o, kind'[o])
       \/ Link(x[1], x[2], ent'[x])
  \/ \E k \in DOMAIN ent \ DOMAIN ent' :
       Remove(k) \/ \E x \in DOMAIN ent' : Rename(k, x[1], x[2])

Spec == Init /\ [][Next]_<<kind, ent>>
=============================================================================
