------------------------------ MODULE MCBoard ------------------------------
(* Instances of Board for TLC: a configuration of two pages, one that ends *)
(* before the last word of the first's comment, one of one page that does  *)
(* not end with a newline, and one that lacks a value and has too many     *)
(* items; the parser is compared with the meaning of files of up to three  *)
(* lines.                                                                  *)
EXTENDS Board

Long   == <<"W", "sp", "=", "sp", "1", "2", "sp", "#", "V", "sp", "=", "sp", "2", "nl">>
Short  == <<"W", "sp", "=", "sp", "2", "sp", "sp", "sp", "sp", "sp", "sp", "nl">>
Ragged == <<"V", "sp", "=", "sp", "1">>
Broken == <<"V", "sp", "=", "sp", "1", "nl", "W", "sp", "=", "nl">>
MCFiles == {Long, Short, Ragged, Broken}
MCLexemes == UNION {Range(f) : f \in MCFiles} \union {"ff"}

Lines == {<<"nl">>, <<"#", "W", "sp", "=", "sp", "2", "nl">>, <<"W", "sp", "=", "sp", "1", "nl">>,
          <<"W", "sp", "=", "sp", "2", "1", "sp", "#", "V", "nl">>,
          <<"V", "sp", "=", "sp", "1", "cr", "nl">>, <<"X", "sp", "=", "sp", "1", "nl">>}
LastLines == Lines \union {<<>>, <<"V", "sp", "=", "sp", "sp", "2">>}

ASSUME ParserReadsLines ==
  \A a \in Lines, b \in Lines, c \in LastLines :
    ParseContent(a \o b \o c).params = Meaning(a \o b \o c)

ASSUME FilesAreRegular ==
  Nul \notin MCLexemes /\ \A f \in MCFiles \ {Broken} : f[Len(f)] = "nl" => Regular(f)

ASSUME RegularFilesRead ==
  \A a \in Lines, b \in Lines : LET f == a \o b IN Regular(f) => ReadAsMeant(f)
=============================================================================
