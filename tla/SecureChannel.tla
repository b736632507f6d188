---------------------------- MODULE SecureChannel ----------------------------
(***************************************************************************)
(* The file transfer of reference/pa2 over the helpers of                  *)
(* src/libtetrissh/common.c: a client that authenticates the server, sends *)
(* it a session key and then files, and the server, on one connection.     *)
(*                                                                         *)
(* What travels is bytes: the digits of an integer, or a numbered part of  *)
(* a blob (a key, a name, a signature, a token).  send_all and read_bytes  *)
(* move any part of what is left at a time.  The cryptography (OpenSSL,    *)
(* external) is ideal: a blob made with a key opens with that key only,    *)
(* and only when it is whole.                                              *)
(***************************************************************************)
EXTENDS Integers, Sequences, FiniteSets, SequencesExt

CONSTANTS
    Nil,
    Path,           \* the client's files
    BaseOf,         \* the last part of a path
    FileLen,        \* their lengths
    NameLen,        \* the length of a path
    Radix,          \* 256: values of a byte
    IntBytes,       \* INT_BYTES
    KeyLen,         \* SESSION_KEY_LEN
    RsaLen,         \* RSA_KEY_BYTES: an encrypted key, and a signature
    CertLen,        \* the length of auth/server_signed.crt
    IvLen,          \* AES_IV_LEN
    Block,          \* AES_BLOCK
    HmacLen,        \* HMAC_LEN
    Chunk,          \* 1024: the most read_bytes asks for at a time
    SockCap,        \* bytes that fit between the two (external)
    MaxFiles,       \* bound: names the user enters
    MaxFaults       \* bound: calls that fail, interrupts, broken connections

ASSUME ChannelAssumption ==
    /\ Radix \in Nat \ {0, 1} /\ IntBytes \in Nat \ {0}
    /\ {KeyLen, RsaLen, CertLen, NameLen, Block, Chunk, SockCap} \subseteq Nat \ {0}
    /\ {IvLen, HmacLen, MaxFiles, MaxFaults} \subseteq Nat
    /\ FileLen \in [Path -> Nat] /\ DOMAIN BaseOf = Path

VARIABLES
    pc,         \* where each side is: the read or call it has come to
    out,        \* what it has still to send
    want,       \* how many bytes the read_bytes it is in returns
    got,        \* those it has received
    wire,       \* the bytes on their way to it
    up,         \* the connection is not broken
    sig,        \* the client's sig
    chosen,     \* the client's filename
    filename,   \* the server's filename
    sessionKey, \* the server's session_key; Nil: session_key_flag is 0
    stored,     \* recv_files/recv_<name>: what is in it, {} when there is none
    offered,    \* the files whose data the client has set out to send (history)
    keyless,    \* the client has sent no key, for want of one encrypted (history)
    taken,      \* the data messages the server is done with (history)
    asked,      \* names entered so far
    faults      \* faults so far

socket == <<out, want, got, wire, up>>
server == <<filename, sessionKey, stored, taken>>
client == <<sig, chosen, offered, keyless, asked>>
vars == <<pc, socket, server, client, faults>>

Side == {"client", "server"}
Peer(s) == IF s = "client" THEN "server" ELSE "client"

Gone(s) == pc[s] \in {"done", "failed", "killed", "crashed"}

MSG_FILENAME == 0
MSG_FILE_DATA == 1
MSG_CLOSE == 2
MSG_AUTH == 3
MSG_SYMKEY == 4

Lesser(a, b) == IF a < b THEN a ELSE b

-------------------------------------------------------------------------------
(* Bytes *)

\* x, and what is left of it after each x >>= 8
Shifted(x) ==
    LET rest[k \in 0 .. IntBytes] == IF k = 0 THEN x ELSE rest[k - 1] \div Radix
    IN  rest

\* Big-endian, always INT_BYTES long.
int_to_bytes(x) == [i \in 1 .. IntBytes |-> [digit |-> Shifted(x)[IntBytes - i] % Radix]]

bytes_to_int(bs) ==
    LET result[i \in 0 .. Len(bs)] ==
          IF i = 0 THEN 0 ELSE result[i - 1] * Radix + bs[i].digit
    IN  result[Len(bs)]

Blob(kind, value, len) == [kind |-> kind, value |-> value, len |-> len]

Bytes(blob) == [i \in 1 .. blob.len |-> [blob |-> blob, at |-> i]]

\* The bytes are one blob of this kind from its first byte to its last.
Whole(bs, kind) ==
    /\ bs # <<>> /\ \A i \in DOMAIN bs : "blob" \in DOMAIN bs[i]
    /\ \A i \in DOMAIN bs : bs[i].blob.kind = kind
    /\ bs = Bytes(bs[1].blob)

Value(bs) == bs[1].blob.value

\* IV, padded ciphertext (always at least one byte of padding), HMAC
TokenLen(n) == IvLen + (n \div Block + 1) * Block + HmacLen

session_encrypt(key, path) ==
    Blob("token", [key |-> key, path |-> path], TokenLen(FileLen[path]))

\* Whether the token is long enough, its HMAC is right and the padding too.
session_decrypt(key, bs) ==
    /\ Len(bs) >= IvLen + Block + HmacLen
    /\ Whole(bs, "token")
    /\ Value(bs).key = key

\* The random bytes of generate_session_key: the client's challenge, and its key.
Challenge == Blob("challenge", Nil, KeyLen)
SessionKey == "key"

sign_message_pss(challenge) == Blob("signature", challenge, RsaLen)

verify_message_pss(bs, challenge) == Whole(bs, "signature") /\ Value(bs) = challenge

Certificate == Blob("certificate", Nil, CertLen)

\* load_cert_bytes finds a certificate in the bytes, and the CA has signed it.
verify_server_cert(bs) == Whole(bs, "certificate")

rsa_encrypt_block(key) == Blob("wrapped", key, RsaLen)

\* Whether the bytes decrypt; what they decrypt to is their Value.
rsa_decrypt_block(bs) == Whole(bs, "wrapped")

\* send_int(type), send_int(length), send_all(blob)
Message(type, blob) == int_to_bytes(type) \o int_to_bytes(blob.len) \o Bytes(blob)

\* The same without a type, as the server answers.
Answer(blob) == int_to_bytes(blob.len) \o Bytes(blob)

\* INT_BYTES bytes are enough for every type and length.
ASSUME FitsAssumption ==
    \A x \in (MSG_FILENAME .. MSG_SYMKEY) \cup {KeyLen, RsaLen, CertLen, NameLen}
              \cup {TokenLen(FileLen[p]) : p \in Path} :
        Shifted(x)[IntBytes] = 0

-------------------------------------------------------------------------------
(* Sockets *)

\* s goes on to label, where it sends bs and then reads n bytes.
Goto(s, label, bs, n) ==
    /\ pc' = [pc EXCEPT ![s] = label]
    /\ out' = [out EXCEPT ![s] = bs]
    /\ want' = [want EXCEPT ![s] = n]
    /\ got' = [got EXCEPT ![s] = <<>>]
    /\ UNCHANGED <<wire, up>>

End(s, label) == Goto(s, label, <<>>, 0)

\* The calls of the last Goto have returned.
At(s, label) == pc[s] = label /\ out[s] = <<>> /\ Len(got[s]) = want[s]

\* A call that may fail does so at the expense of the bound.
Outcome(ok) ==
    IF ok THEN UNCHANGED faults ELSE faults < MaxFaults /\ faults' = faults + 1

send_all_Skips(s, n) ==
    /\ wire' = [wire EXCEPT ![Peer(s)] = @ \o SubSeq(out[s], 1, n)]
    /\ out' = [out EXCEPT ![s] = IF n = 1 THEN SubSeq(@, 3, Len(@)) ELSE SubSeq(@, n + 1, Len(@))]

\* One turn of send_all's loop: n of the bytes left are sent.
send_all(s, n) ==
    /\ wire' = [wire EXCEPT ![Peer(s)] = @ \o SubSeq(out[s], 1, n)]
    /\ out' = [out EXCEPT ![s] = SubSeq(@, n + 1, Len(@))]

Send(s) ==
    /\ out[s] # <<>> /\ up /\ ~Gone(Peer(s))
    /\ \E n \in 1 .. Len(out[s]) :
         Len(wire[Peer(s)]) + n <= SockCap /\ send_all(s, n)
    /\ UNCHANGED <<pc, want, got, up, server, client, faults>>

\* To a peer that is gone, or over a broken connection: the bytes vanish, send
\* reports an error, which only the client's auth looks at, or SIGPIPE kills.
SendFails(s) ==
    /\ out[s] # <<>>
    /\ ~up \/ Gone(Peer(s))
    /\ out' = [out EXCEPT ![s] = <<>>]
    /\ \/ UNCHANGED pc
       \/ pc[s] = "sigLen" /\ pc' = [pc EXCEPT ![s] = "failed"]
       \/ pc' = [pc EXCEPT ![s] = "killed"]
    /\ UNCHANGED <<want, got, wire, up, server, client, faults>>

\* One turn of read_bytes's loop.
Receive(s) ==
    /\ out[s] = <<>> /\ ~Gone(s)
    /\ LET room == Lesser(want[s] - Len(got[s]), Chunk)
       IN \E n \in 1 .. Lesser(room, Len(wire[s])) :
            /\ got' = [got EXCEPT ![s] = @ \o SubSeq(wire[s], 1, n)]
            /\ wire' = [wire EXCEPT ![s] = SubSeq(@, n + 1, Len(@))]
    /\ UNCHANGED <<pc, out, want, up, server, client, faults>>

\* read_bytes returns NULL.  The client gives up; the server looks at the result
\* in some places and uses it unseen in others.
AfterBreak(s) ==
    IF s = "client" THEN {"failed"}
    ELSE CASE pc[s] \in {"type", "challenge", "wrapped"} -> {"done"}
           [] pc[s] = "data" -> {"crashed", "done"}
           [] OTHER -> {"crashed"}

ReceiveFails_Waits(s) ==
    /\ out[s] = <<>> /\ Len(got[s]) < want[s] /\ wire[s] = <<>>
    /\ UNCHANGED vars

ReceiveFails(s) ==
    /\ out[s] = <<>> /\ Len(got[s]) < want[s] /\ wire[s] = <<>>
    /\ ~up \/ Gone(Peer(s))
    /\ \E label \in AfterBreak(s) : End(s, label)
    /\ UNCHANGED <<server, client, faults>>

-------------------------------------------------------------------------------
(* The client *)

\* socket, gethostbyname and connect; bind, listen and accept.
Connect ==
    /\ pc["client"] = "start" /\ pc["server"] = "accept"
    /\ pc' = [pc EXCEPT !["client"] = "auth", !["server"] = "type"]
    /\ want' = [want EXCEPT !["server"] = IntBytes]
    /\ UNCHANGED <<out, got, wire, up, server, client, faults>>

ConnectFails ==
    /\ pc["client"] = "start"
    /\ End("client", "failed")
    /\ Outcome(pc["server"] # "accept")
    /\ UNCHANGED <<server, client>>

\* auth: a random challenge
SendChallenge ==
    /\ At("client", "auth")
    /\ \E ok \in BOOLEAN :
         /\ Outcome(ok)
         /\ IF ok THEN Goto("client", "sigLen", Message(MSG_AUTH, Challenge), IntBytes)
                  ELSE End("client", "failed")
    /\ UNCHANGED <<server, client>>

ReadSignature ==
    /\ \/ At("client", "sigLen")
          /\ Goto("client", "signature", <<>>, bytes_to_int(got["client"]))
          /\ UNCHANGED sig
       \/ At("client", "signature")
          /\ Goto("client", "certLen", <<>>, IntBytes)
          /\ sig' = got["client"]
    /\ UNCHANGED <<server, chosen, offered, keyless, asked, faults>>

ReadCertificate ==
    /\ At("client", "certLen")
    /\ Goto("client", "certificate", <<>>, bytes_to_int(got["client"]))
    /\ UNCHANGED <<server, client, faults>>

\* load_cert_bytes, verify_server_cert, verify_message_pss, X509_get_pubkey
VerifyServer ==
    /\ At("client", "certificate")
    /\ \E ok \in BOOLEAN :
         /\ Outcome(ok)
         /\ IF ok /\ verify_server_cert(got["client"]) /\ verify_message_pss(sig, Challenge)
            THEN Goto("client", "symkey", <<>>, 0)
            ELSE End("client", "failed")
    /\ UNCHANGED <<server, client>>

\* A session key that cannot be made ends the client.  When it cannot be encrypted no
\* byte of it is sent, but its length is announced: 0, or RsaLen when only the memory
\* or the encryption itself is wanting.
SendKey ==
    /\ At("client", "symkey")
    /\ \/ /\ Outcome(TRUE) /\ UNCHANGED keyless
          /\ Goto("client", "prompt", Message(MSG_SYMKEY, rsa_encrypt_block(SessionKey)), 0)
       \/ Outcome(FALSE) /\ UNCHANGED keyless /\ End("client", "failed")
       \/ /\ Outcome(FALSE) /\ keyless' = TRUE
          /\ \E len \in {0, RsaLen} :
               Goto("client", "prompt", int_to_bytes(MSG_SYMKEY) \o int_to_bytes(len), 0)
    /\ UNCHANGED <<server, sig, chosen, offered, asked>>

\* The user enters the name of a file that exists.
SendName ==
    /\ At("client", "prompt") /\ asked < MaxFiles
    /\ \E p \in Path :
         /\ Goto("client", "open", Message(MSG_FILENAME, Blob("name", p, NameLen)), 0)
         /\ chosen' = p
    /\ asked' = asked + 1
    /\ UNCHANGED <<server, sig, offered, keyless, faults>>

\* The file is read and encrypted; when that fails its name has been sent for
\* nothing.
SendData(ok) ==
    IF ok
    THEN /\ Goto("client", "prompt", Message(MSG_FILE_DATA, session_encrypt(SessionKey, chosen)), 0)
         /\ offered' = Append(offered, chosen)
    ELSE /\ Goto("client", "prompt", <<>>, 0)
         /\ UNCHANGED offered

SendFile ==
    /\ At("client", "open")
    /\ \E ok \in BOOLEAN : Outcome(ok) /\ SendData(ok)
    /\ UNCHANGED <<server, sig, chosen, keyless, asked>>

\* "-1" says goodbye twice, the end of the input once.
Quit ==
    /\ At("client", "prompt")
    /\ \E again \in {<<>>, int_to_bytes(MSG_CLOSE)} :
         Goto("client", "closing", int_to_bytes(MSG_CLOSE) \o again, 0)
    /\ UNCHANGED <<server, client, faults>>

Disconnect ==
    /\ At("client", "closing")
    /\ End("client", "done")
    /\ UNCHANGED <<server, client, faults>>

-------------------------------------------------------------------------------
(* The server *)

\* The switch on the message type.
Dispatch ==
    /\ At("server", "type")
    /\ LET type == bytes_to_int(got["server"])
       IN CASE type = MSG_FILENAME -> Goto("server", "nameLen", <<>>, IntBytes)
            [] type = MSG_FILE_DATA -> Goto("server", "dataLen", <<>>, IntBytes)
            [] type = MSG_AUTH -> Goto("server", "challengeLen", <<>>, IntBytes)
            [] type = MSG_SYMKEY -> Goto("server", "wrappedLen", <<>>, IntBytes)
            [] OTHER -> End("server", "done")
    /\ UNCHANGED <<server, client, faults>>

After == [nameLen |-> "name", dataLen |-> "data", challengeLen |-> "challenge",
          wrappedLen |-> "wrapped"]

ReadLength ==
    /\ \E l \in DOMAIN After :
         At("server", l) /\ Goto("server", After[l], <<>>, bytes_to_int(got["server"]))
    /\ UNCHANGED <<server, client, faults>>

HandleFilename_Once ==
    /\ filename' = IF filename = Nil THEN Value(got["server"]) ELSE filename
    /\ Goto("server", "type", <<>>, IntBytes)

HandleFilename ==
    /\ filename' = Value(got["server"])
    /\ Goto("server", "type", <<>>, IntBytes)

ReadName ==
    /\ At("server", "name")
    /\ HandleFilename
    /\ UNCHANGED <<sessionKey, stored, taken, client, faults>>

\* load_private_key and the decryption end the server when they fail; a file that
\* cannot be opened for writing does not.
HandleData_Skips ==
    /\ At("server", "data")
    /\ \/ /\ Outcome(TRUE) /\ session_decrypt(sessionKey, got["server"])
          /\ stored' = [stored EXCEPT ![BaseOf[filename]] = {Value(got["server"]).path}]
          /\ taken' = taken + 1
       \/ Outcome(FALSE) /\ UNCHANGED <<stored, taken>>
    /\ Goto("server", "type", <<>>, IntBytes)
    /\ UNCHANGED <<filename, sessionKey, client>>

HandleData ==
    /\ At("server", "data")
    /\ \/ /\ Outcome(TRUE) /\ session_decrypt(sessionKey, got["server"])
          /\ Goto("server", "type", <<>>, IntBytes)
          /\ stored' = [stored EXCEPT ![BaseOf[filename]] = {Value(got["server"]).path}]
          /\ taken' = taken + 1
       \/ /\ Outcome(FALSE) /\ session_decrypt(sessionKey, got["server"])
          /\ Goto("server", "type", <<>>, IntBytes)
          /\ taken' = taken + 1
          /\ UNCHANGED stored
       \/ /\ \E ok \in BOOLEAN :
               Outcome(ok) /\ (ok => ~session_decrypt(sessionKey, got["server"]))
          /\ End("server", "done")
          /\ UNCHANGED <<stored, taken>>
    /\ UNCHANGED <<filename, sessionKey, client>>

\* MSG_AUTH: the signature is on its way before the certificate is opened.
SignChallenge ==
    /\ At("server", "challenge")
    /\ \E ok \in BOOLEAN :
         /\ Outcome(ok)
         /\ IF ok
            THEN Goto("server", "cert", Answer(sign_message_pss(got["server"][1].blob)), 0)
            ELSE End("server", "done")
    /\ UNCHANGED <<server, client>>

SendCertificate ==
    /\ At("server", "cert")
    /\ \E ok \in BOOLEAN :
         /\ Outcome(ok)
         /\ IF ok THEN Goto("server", "type", Answer(Certificate), IntBytes)
                  ELSE End("server", "done")
    /\ UNCHANGED <<server, client>>

\* MSG_SYMKEY: a key that does not decrypt, or not to SESSION_KEY_LEN bytes, ends
\* the server.
HandleKey(ok) ==
    IF ok /\ rsa_decrypt_block(got["server"])
    THEN /\ Goto("server", "type", <<>>, IntBytes)
         /\ sessionKey' = Value(got["server"])
    ELSE End("server", "done") /\ UNCHANGED sessionKey

ReadKey ==
    /\ At("server", "wrapped")
    /\ \E ok \in BOOLEAN : Outcome(ok) /\ HandleKey(ok)
    /\ UNCHANGED <<filename, stored, taken, client>>

\* sigint_handler; the client has none.
Interrupt(s) ==
    /\ ~Gone(s)
    /\ End(s, IF s = "server" THEN "done" ELSE "killed")
    /\ Outcome(FALSE)
    /\ UNCHANGED <<server, client>>

\* The connection breaks (external); what was on its way is lost.
Break ==
    /\ up /\ pc["client"] # "start"
    /\ up' = FALSE /\ wire' = [s \in Side |-> <<>>]
    /\ Outcome(FALSE)
    /\ UNCHANGED <<pc, out, want, got, server, client>>

-------------------------------------------------------------------------------
Init ==
    /\ pc = [s \in Side |-> IF s = "client" THEN "start" ELSE "accept"]
    /\ out = [s \in Side |-> <<>>] /\ want = [s \in Side |-> 0]
    /\ got = [s \in Side |-> <<>>] /\ wire = [s \in Side |-> <<>>]
    /\ up = TRUE
    /\ sig = <<>> /\ chosen = Nil /\ filename = Nil /\ sessionKey = Nil
    /\ stored = [b \in {BaseOf[p] : p \in Path} |-> {}]
    /\ offered = <<>> /\ keyless = FALSE /\ taken = 0 /\ asked = 0 /\ faults = 0

ClientStep ==
    \/ SendChallenge \/ ReadSignature \/ ReadCertificate \/ VerifyServer \/ SendKey
    \/ SendFile \/ Disconnect

ServerStep ==
    \/ Dispatch \/ ReadLength \/ ReadName \/ HandleData
    \/ SignChallenge \/ SendCertificate \/ ReadKey

Socket(s) == Send(s) \/ SendFails(s) \/ Receive(s) \/ ReceiveFails(s)

Next ==
    \/ Connect \/ ConnectFails \/ SendName \/ Quit \/ ClientStep \/ ServerStep \/ Break
    \/ \E s \in Side : Socket(s) \/ Interrupt(s)

Spec == Init /\ [][Next]_vars

\* Each program goes on whenever no call keeps it; nothing is assumed of the user.
Fairness ==
    /\ WF_vars(ClientStep \/ Socket("client"))
    /\ WF_vars(ServerStep \/ Socket("server"))

FairSpec == Spec /\ Fairness

-------------------------------------------------------------------------------
(* Properties *)

\* The labels at which a side reads an integer, and those at which it reads a blob
\* of the kind they are named for.
IntLabels == {"type", "sigLen", "certLen"} \cup DOMAIN After
BlobLabels == {"signature", "certificate"} \cup Range(After)

Kind(label) == IF label = "data" THEN "token" ELSE label

\* However the bytes are cut up on their way, the two sides stay in step: what is
\* read as a message type is one, what is read as a length was sent as a length, and
\* what follows it is the whole of the blob it announced; only what is taken for the
\* key is not one when the client could not encrypt it.
InStep ==
    \A s \in Side :
      /\ At(s, pc[s]) /\ pc[s] \in IntLabels =>
            /\ \A i \in DOMAIN got[s] : "digit" \in DOMAIN got[s][i]
            /\ pc[s] = "type" => bytes_to_int(got[s]) \in MSG_FILENAME .. MSG_SYMKEY
      /\ At(s, pc[s]) /\ pc[s] \in BlobLabels =>
            Whole(got[s], Kind(pc[s])) \/ (pc[s] = "wrapped" /\ keyless)

Transfer == INSTANCE FileTransfer

\* The server stores the files that the client sent data for, in that order and each
\* under its own name, also when a name was sent and its data never followed.
KeepsTransfer == Transfer!Spec

\* Nobody is left waiting: when one side of a connection is gone the other ends too,
\* except for a client that was not started or waits for its user; and the server's
\* answers come or the client gives up.
NobodyHangs ==
    /\ Gone("client") /\ pc["server"] # "accept" ~> Gone("server")
    /\ Gone("server") ~> Gone("client") \/ pc["client"] = "start" \/ At("client", "prompt")
    /\ pc["client"] \in {"sigLen", "signature", "certLen", "certificate"}
          ~> Gone("client") \/ pc["client"] = "prompt"

\* A server that closes because it was told to has dealt with every file offered.
ClosesWhenDone ==
    [][ At("server", "type") /\ pc'["server"] = "done" /\ bytes_to_int(got["server"]) = MSG_CLOSE
          => taken = Len(offered) ]_vars
===============================================================================
