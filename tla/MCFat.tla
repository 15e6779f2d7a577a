------------------------------- MODULE MCFat -------------------------------
(***************************************************************************)
(* Disks with every small layout and directories of three slots, a sector, *)
(* or of four, so that one is out of reach: files with and without an      *)
(* extension, an empty file, a file with an accent in its name (0x90), a   *)
(* directory, a deleted file, a label, and an end; names of two characters *)
(* and one.                                                                *)
(***************************************************************************)
EXTENDS Fat

MCCapital == [a |-> "A", b |-> "B"]
Accent == "x90"
MCHigh == {Accent, DELETED}

MCBpb == [ bytes_per_sector : {512}, sectors_per_cluster : {1, 4},
           reserved_sectors : {1, 4}, fat_count : {1, 2},
           root_entries : {16, 17}, sectors_per_fat : {9} ]

Entry(name, attr, cluster, size) ==
  [name |-> name, attr |-> attr, cluster |-> cluster, size |-> size]
End == Entry(<<NUL, NUL, NUL>>, "file", 0, 0)
MCEntries ==
  { Entry(<<"A", "B", "A">>, "file", 2, 5),
    Entry(<<"A", "B", " ">>, "file", 3, 512),
    Entry(<<"A", " ", "B">>, "file", 0, 0),
    Entry(<<"B", " ", " ">>, "directory", 4, 0),
    Entry(<<Accent, " ", "B">>, "file", 5, 3),
    Entry(<<DELETED, "B", "A">>, "file", 2, 7),
    Entry(<<"A", "B", " ">>, "label", 0, 0), End }

\* Slots are used from the first on; no two files share a name or a cluster.
\* The accent comes in the second slot only.
MCRoots ==
  { r \in [1..3 -> MCEntries] :
      /\ \A k \in 1..2 : r[k] = End => r[k + 1] = End
      /\ \A k \in {1, 3} : r[k].name[1] # Accent
      /\ \A j, k \in 1..3 : j # k /\ r[j] # End => r[j] # r[k] }
Two == << Entry(<<"A", "B", "A">>, "file", 2, 5),
          Entry(<<"A", "B", " ">>, "file", 3, 512) >>
Long == << Entry(<<"A", "B", " ">>, "label", 0, 0),
           Entry(<<DELETED, "B", "A">>, "file", 2, 7),
           Entry(<<"A", "B", "A">>, "file", 2, 5),
           Entry(<<"A", " ", "B">>, "file", 3, 1) >>
OneBpb == [ bytes_per_sector |-> 512, sectors_per_cluster |-> 4,
            reserved_sectors |-> 4, fat_count |-> 2,
            root_entries |-> 17, sectors_per_fat |-> 9 ]
MCDisks == [bpb : {OneBpb}, root : MCRoots]
           \cup [bpb : MCBpb, root : {Append(Two, End), Long}]

\* Every line of up to three characters, and names as ls shows them.
MCArgs == UNION { [1..n -> {"a", "B", " ", "."}] : n \in 0..3 }
          \cup { b \o <<".">> \o e : b \in {<<"a", "B">>, <<"a", " ">>, <<"B", " ">>},
                                  e \in {<<"a">>, <<" ">>, <<"B", "B">>} }
          \cup { <<"a", "B", "B", ".", "a">>, <<Accent, ".", "b">>,
                 <<DELETED, "B", ".", "A">> }
=============================================================================
