------------------------------ MODULE MCLibrary ------------------------------
(***************************************************************************)
(* Library with a local name that is also a host, several tags and times,  *)
(* and references as strings of up to five tokens.                         *)
(***************************************************************************)
EXTENDS Library

a == << "a" >>
b == << "b" >>
v == << "v" >>
w == << "w" >>

Local(name, tag, time, size) == << Ref(None, name, tag), Image(name, tag, time, size) >>
Remote(host, name, tag, time, size) == << Ref(host, name, tag), Image(name, tag, time, size) >>

\* Host a has an image b, and there is a local image a.
MCStored == {
    {},
    {Local(a, v, 1, 1), Remote(a, b, v, 1, 1)},
    {Remote(a, b, v, 2, 1), Remote(a, b, w, 1, 1)} }

MCBuilt == {Local(a, w, 2, 2), Local(a, v, 3, 2)}
\* The directory of a name that ends in .gb takes the place of a file.
v_gb == << "v", ".gb" >>
MCRegistry == {Remote(a, b, v, 3, 1), Remote(a, b, w, 1, 2), Remote(a, v_gb, v, 1, 1)}
Symmetry == Permutations(Processes)

MCQueries == {Ref(None, a, None), Ref(None, a, v), Ref(a, b, None), Ref(a, b, v), Ref(a, b, w)}

Tokens == {"a", ".", ":", "/", "http://", "https://"}
Strings == UNION {[1..n -> Tokens] : n \in 0..5}
Segments == {s \in Strings : Len(s) <= 2}
References == {Ref(host, name, tag) : host \in Segments \cup {None}, name \in Segments,
                                     tag \in Segments \cup {None}}

\* ImageRef::parse and Display are each other's inverses: what parses prints as it
\* was written, and every valid reference parses back from its printed form.
ParsesWhatItPrints ==
    Ended /\ (\A p \in Processes : proc[p].op = "idle") =>
        /\ \A s \in Strings : parse(s) # Invalid => display(parse(s)) = s
        /\ \A r \in References : validate(r) => parse(display(r)) = r
=============================================================================
