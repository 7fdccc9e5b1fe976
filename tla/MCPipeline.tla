----------------------------- MODULE MCPipeline -----------------------------
\* Instances of the pipeline for TLC.
EXTENDS Pipeline

CONSTANTS f1, s1, s2

OneFinding == {f1}
OneChannel == {1}
TwoScans == {s1, s2}

\* Every flag that is given or not, right or wrong.
AnySettings ==
    [evidence : {"redacted", "typo"}, webhook : {"", "v1", "v2", "typo"}, secretFile : {"", "unreadable"},
     syslog : {"", "kv", "json", "typo"}, network : {"udp", "tcp", "tls"}, syslogCAFile : {"", "unreadable"},
     exportFile : BOOLEAN, hec : {"", "url", "typo"}, tokenFile : {"", "readable"},
     hecCAFile : {"", "unreadable"}]

=============================================================================
