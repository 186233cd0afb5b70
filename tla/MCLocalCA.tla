----------------------------- MODULE MCLocalCA -----------------------------
(***************************************************************************)
(* Two runs with command lines that end every way, one key path at which   *)
(* a good key, another, and some that do not load come and go, and one     *)
(* output file that short and long lines are written to.                   *)
(***************************************************************************)
EXTENDS LocalCA

CONSTANTS KeyPath, OutPath    \* a path of each kind

MCFold == [n \in {"alice", "Alice", "root"} |-> IF n = "Alice" THEN "alice" ELSE n]
MCValidNames == {"alice", "Alice", "root"}
MCPrivilegedNames == {"root"}
MCNormType == [t \in {"user", "host"} |-> t]
MCInt64Max == 15
MCCIDRs == {}

File(pem, kind, key) == [pem |-> pem, encrypted |-> FALSE, kind |-> kind, key |-> key]
Encrypted == [File("RSA PRIVATE KEY", "rsa", "ka") EXCEPT !.encrypted = TRUE]

MCKeyFiles ==
    {File("RSA PRIVATE KEY", "rsa", "ka"), File("PRIVATE KEY", "ed25519", "kb"),
     File("EC PRIVATE KEY", "p224", "ka"), Encrypted, NoFile}

Config(path) ==
    [rsaMinBits |-> 2048, allowedTypes |-> {}, maxTTL |-> 20, accountID |-> "",
     enforceBinding |-> TRUE, allowed |-> {"alice"}, keyFile |-> path]

Req(principals) ==
    [key |-> [parses |-> TRUE, type |-> "ssh-ed25519"], certType |-> "user",
     principals |-> principals, ttl |-> 3, source |-> <<>>,
     force |-> NoCommand, exts |-> NilExtensions]

Command(build, cmd, config, principals, out, size) ==
    [build |-> build, cmd |-> cmd, config |-> config, req |-> Req(principals),
     out |-> out, size |-> size]

MCCommandLines ==
    {Command("development", "sign", Config(KeyPath), <<"alice">>, OutPath, 2),
     Command("development", "sign", Config(KeyPath), <<"Alice">>, OutPath, 1),
     Command("development", "sign", Config(KeyPath), <<"alice", "root">>, OutPath, 2),
     Command("development", "sign", Config(NoPath), <<"alice">>, Stdout, 1),
     Command("development", "ca-pubkey", Config(KeyPath), <<>>, Stdout, 2),
     Command("development", "sign", NoConfig, <<"alice">>, Stdout, 1),
     Command("production", "sign", Config(KeyPath), <<"alice">>, Stdout, 1),
     Command("development", "version", NoConfig, <<>>, Stdout, 1)}
=============================================================================
