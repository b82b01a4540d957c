------------------------------ MODULE MCBlockScan -------------------------------
(***************************************************************************)
(* Texts of up to two tokens of those a block is written with, alone or    *)
(* after a blank line; messages, delta scripts and a snapshot that come    *)
(* closest to a block.                                                     *)
(***************************************************************************)
EXTENDS BlockScan

Special == {"nl", "ver", "@", ";"}

MCTexts ==
  UNION {[1..n -> Special] : n \in 0..2} \cup {<<"nl", "nl">> \o t : t \in [1..2 -> Special]}

MCPayloads == {<<"a1", "nl", "nl", "ver", "@", "x", "@", ";", "nl">>, <<"a1", "nl", "nl", "nl", "ver">>}

MCSnapshots == {<<"nl", "nl", "ver">>}

MCPrevLogs == {<<>>, <<"x", "nl", "nl", "ver">>}

MCLogs == {<<>>, <<"nl", "nl", "ver">>, <<"nl", "nl", "ver", "@", ";", "log", "@">>}
===============================================================================
