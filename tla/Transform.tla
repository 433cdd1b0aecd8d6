----------------------------- MODULE Transform -----------------------------
(***************************************************************************)
(* apply_transform and repair_duplicate_names.  A name is a sequence of    *)
(* tokens; a pattern is a token that re.search() looks for.                *)
(*                                                                         *)
(* A definition that says "Variant" is a fault put into the one after it;  *)
(* no other definition uses it.                                            *)
(***************************************************************************)
EXTENDS Selection, Sequences, SequencesExt

(* filter: include and exclude, a pattern or "none"; include_types and     *)
(* exclude_types.  rename: prefix and suffix, sequences of tokens too.     *)
NoFilter == [include |-> "none", exclude |-> "none", includeTypes |-> {}, excludeTypes |-> {}]
NoRename == [prefix |-> <<>>, suffix |-> <<>>]

Matches(label, pattern) == pattern \in ToSet(label)

Kept(r, f) ==
    /\ f.include # "none" => Matches(r.label, f.include)
    /\ f.exclude # "none" => ~Matches(r.label, f.exclude)
    /\ f.includeTypes # {} => r.node.type \in f.includeTypes
    /\ r.node.type \notin f.excludeTypes

(* _render_template                                                        *)
Rendered(template, r) ==
    [i \in DOMAIN template |-> IF template[i] = "{source}" THEN r.source ELSE template[i]]

Rename(r, rename) ==
    [r EXCEPT !.label = Rendered(rename.prefix, r) \o @ \o Rendered(rename.suffix, r)]

ApplyTransform(records, filter, rename) ==
    LET kept == Passing(records, LAMBDA r : Kept(r, filter))
    IN [i \in DOMAIN kept |-> Rename(kept[i], rename)]

----------------------------------------------------------------------------
(* The number "#3" is the token "#" and two strokes; it follows a blank.   *)
Number(k) == [j \in 1..k |-> IF j = 1 THEN "#" ELSE "|"]
Candidate(base, k) == IF k = 1 THEN base ELSE base \o <<"blank">> \o Number(k)

(* A name is free if no earlier record has taken it and, for a name that   *)
(* would be made up, no later record has it on its own.                    *)
Free(c, base, used, later) == c \notin used /\ (c = base \/ c \notin later)

(* The name of record i: its own, or that name with the first number that  *)
(* makes it free.  It need not count beyond the number of records.         *)
NameFor(labels, i, used) ==
    LET later == {labels[j] : j \in (i + 1)..Len(labels)}
        free(k) == Free(Candidate(labels[i], k), labels[i], used, later)
    IN Candidate(labels[i],
            CHOOSE k \in DOMAIN labels : free(k) /\ \A l \in 1..(k - 1) : ~free(l))

(* repair_duplicate_names: each record in turn takes a name.               *)
RepairNames(labels) ==
    LET name[i \in DOMAIN labels] == NameFor(labels, i, {name[j] : j \in 1..(i - 1)})
    IN name
=============================================================================
