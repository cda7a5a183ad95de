--------------------------------- MODULE MCKSocket ---------------------------------
(* An instance of KSocket for TLC.  The file that main reads for the type of *)
(* the link exists for INTERFACE=auto only when an interface has that name.  *)
EXTENDS KSocket

MCIfaces == <<"lo", "auto", "eth0">>

Lines(i) == <<<<"DB_HOST", "h">>, <<"DB_NAME", "n">>, <<"INTERFACE", i>>,
              <<"DB_USER", "u">>, <<"DB_PASS", "p">>>>

\* All given, one missing, and one missing but another given twice.
MCConfigs ==
    {Lines("auto"), Lines("eth0"), SelectSeq(Lines("eth0"), LAMBDA l : l[1] # "DB_USER"),
     [Lines("eth0") EXCEPT ![3] = <<"DB_HOST", "h2">>]}
=============================================================================
