------------------------------- MODULE MCTar -------------------------------
(***************************************************************************)
(* Archives of up to three files, empty, of one block, of two and a part   *)
(* (a size of two octal digits), the data of which may look like a header, *)
(* and a limit that cuts some of them.                                     *)
(***************************************************************************)
EXTENDS Tar

MCNames == { <<"motd">>, <<"./", "motd">> }
MCFiles == [ name : {<<"./">>, <<"meow">>} \cup MCNames,
             size : {0, 4, 9},
             looks : {Header(<<"motd">>, 0), Header(<<"text">>, 5)} ]
MCArchives == UNION { [1..n -> MCFiles] : n \in 0..2 }
              \cup { <<f, g, [name |-> <<"motd">>, size |-> 4,
                              looks |-> Zeros]>> : f, g \in MCFiles }
=============================================================================
