------------------------------ MODULE References ------------------------------
(***************************************************************************)
(* Image references `[scheme://][host/]name[:tag]` as ImageRef parses and  *)
(* prints them.  A string is a sequence of tokens: a scheme, ":", "/", "." *)
(* or a letter that stands for any other accepted character.               *)
(***************************************************************************)
EXTENDS Integers, Sequences, SequencesExt

Schemes == {"http://", "https://"}
None == << "none" >>
Invalid == [host |-> None, name |-> None, tag |-> None]

Ref(host, name, tag) == [host |-> host, name |-> name, tag |-> tag]

\* host_without_scheme.
host_without_scheme(host) ==
    IF host # << >> /\ Head(host) \in Schemes THEN Tail(host) ELSE host

Positions(s, token) == {i \in DOMAIN s : s[i] = token}
LastOf(positions) == CHOOSE i \in positions : \A j \in positions : j <= i
FirstOf(positions) == CHOOSE i \in positions : \A j \in positions : i <= j

\* Slip: the first colon introduces the tag.
SplitTag_first(s) ==
    LET colons == Positions(s, ":") IN
    IF colons = {} THEN [rest |-> s, tag |-> None]
    ELSE [ rest |-> SubSeq(s, 1, FirstOf(colons) - 1),
           tag |-> SubSeq(s, FirstOf(colons) + 1, Len(s)) ]

\* The last colon introduces a tag unless a slash follows.
SplitTag(s) ==
    LET colons == Positions(s, ":") IN
    IF colons = {} \/ \E i \in Positions(s, "/") : i > LastOf(colons)
    THEN [rest |-> s, tag |-> None]
    ELSE [ rest |-> SubSeq(s, 1, LastOf(colons) - 1),
           tag |-> SubSeq(s, LastOf(colons) + 1, Len(s)) ]

parse(reference) ==
    LET rest == host_without_scheme(reference)
        scheme == SubSeq(reference, 1, Len(reference) - Len(rest))
        split == SplitTag(rest)
        slashes == Positions(split.rest, "/")
        host == IF slashes = {} THEN None
                ELSE scheme \o SubSeq(split.rest, 1, FirstOf(slashes) - 1)
        name == IF slashes = {} THEN split.rest
                ELSE SubSeq(split.rest, FirstOf(slashes) + 1, Len(split.rest))
    IN  IF name = << >> \/ (slashes = {} /\ scheme # << >>) THEN Invalid
        ELSE Ref(host, name, split.tag)

display(r) ==
    (IF r.host = None THEN << >> ELSE r.host \o << "/" >>) \o r.name
        \o (IF r.tag = None THEN << >> ELSE << ":" >> \o r.tag)

validate_ref_segment(s) ==
    /\ s # << >> /\ s \notin {<< "." >>, << ".", "." >>}
    /\ \A i \in DOMAIN s : s[i] \notin {":", "/"} \cup Schemes

validate_host_segment(s) ==
    /\ s # << >> /\ s \notin {<< "." >>, << ".", "." >>}
    /\ \A i \in DOMAIN s : s[i] \notin {"/"} \cup Schemes

\* ImageRef::validate.
validate(r) ==
    /\ validate_ref_segment(r.name)
    /\ r.tag # None => validate_ref_segment(r.tag)
    /\ r.host # None => validate_host_segment(host_without_scheme(r.host))

\* The components of the path of an image, the last one with its extension;
\* none if a segment is invalid.
image_path(r) ==
    IF r.tag = None \/ ~validate(r) THEN << >>
    ELSE (IF r.host = None THEN << >> ELSE << host_without_scheme(r.host) >>)
            \o << r.name, r.tag \o << ".gb" >> >>
=============================================================================
