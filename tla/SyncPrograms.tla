----------------------------- MODULE SyncPrograms -----------------------------
(***************************************************************************)
(* The programs that hold one conversation over one connection with calls  *)
(* that block, or with asynchronous operations one after the other on the  *)
(* only thread: the reading and writing examples of 02_io_operations, the  *)
(* client of 03_impl_client_apps/tcp_synchronous.cpp, the SSL client of    *)
(* 05_http_ssl_tls, the streams of 06_other, and their partners.           *)
(*                                                                         *)
(* A program is the sequence of its calls.  What a call does is modelled   *)
(* in Conversation.                                                        *)
(***************************************************************************)

-------------------------------------------------------------------------------
(* The calls.  The message of a reading call is what it waits for.         *)

Write(m)        == [op |-> "write", msg |-> m]         \* until all is written
WriteSome(m)    == [op |-> "writeSome", msg |-> m]     \* one part of it
WriteQuietly(m) == [op |-> "writeQuietly", msg |-> m]  \* errors are ignored
ReadSize(m)     == [op |-> "readSize", msg |-> m]      \* as many as m has
ReadUntil(m)    == [op |-> "readUntil", msg |-> m]     \* until a line feed
ReadToEnd(m)    == [op |-> "readToEnd", msg |-> m]     \* until the stream ends
Drain           == [op |-> "drain", msg |-> <<>>]      \* or until an error
DrainFor        == [op |-> "drainFor", msg |-> <<>>]   \* or until a time
ShutdownSend    == [op |-> "shutdownSend", msg |-> <<>>]
ShutdownBoth    == [op |-> "shutdownBoth", msg |-> <<>>]
Throw           == [op |-> "throw", msg |-> <<>>]

-------------------------------------------------------------------------------
(* The programs.                                                           *)

Hello == <<"Hel", "lo", "LF">>

(* The loops around write_some and send, and the callbacks that start the  *)
(* next async_write_some and async_send; boost::asio::write is such a loop. *)
WriteSynchronously     == <<Write(Hello)>>
SendSynchronously      == <<Write(Hello)>>
WriteAsynchronously    == <<Write(Hello)>>
SendAsynchronously     == <<Write(Hello)>>
WriteFreeSynchronously == <<Write(Hello)>>

(* One async_write_some, whose callback takes any part for the whole: "all *)
(* the data has been written to the socket". *)
WriteFreeAsynchronously == <<WriteSome(Hello)>>

(* MESSAGE_SIZE is the size of what netcat is told to send. *)
ReadSynchronously      == <<ReadSize(Hello)>>
ReceiveSynchronously   == <<ReadSize(Hello)>>
ReadAsynchronously     == <<ReadSize(Hello)>>
ReceiveAsynchronously  == <<ReadSize(Hello)>>
ReadFreeSynchronously  == <<ReadSize(Hello)>>
ReadFreeAsynchronously == <<ReadSize(Hello)>>

(* The line is taken from the buffer; the buffer goes with what it has     *)
(* beyond the line. *)
ReadUntilSynchronously  == <<ReadUntil(Hello)>>
ReadUntilAsynchronously == <<ReadUntil(Hello)>>

ShutdownSendClient ==
  <<Write(<<"He", "llo">>), ShutdownSend, ReadToEnd(<<"Hi", "!">>)>>
ShutdownSendServer ==
  <<ReadToEnd(<<"He", "llo">>), Write(<<"Hi", "!">>), ShutdownSend>>

(* SyncTCPClient: connect, emulateLongComputationOp, close. *)
SyncTCPClient  == <<Write(<<"OP", "LF">>), ReadUntil(<<"OK", "LF">>), ShutdownBoth>>

(* Service::handleClient of the synchronous servers. *)
SyncTCPService == <<ReadUntil(<<"OP", "LF">>), Write(<<"OK", "LF">>)>>

(* SyncSSLClient.  The handshake is a message each way and the client's    *)
(* last word, after it has verified the certificate; the shutdown of the   *)
(* SSL stream sends close_notify and waits for that of the other side.     *)
SyncSSLClient ==
  <<Write(<<"hello">>), ReadSize(<<"certificate">>), Write(<<"finished">>),
    Write(<<"OP", "LF">>), ReadUntil(<<"OK", "LF">>),
    WriteQuietly(<<"close_notify">>), Drain>>

(* on_peer_verify returns false. *)
RefusingSSLClient == <<Write(<<"hello">>), ReadSize(<<"certificate">>), Throw>>

SyncSSLService ==
  <<ReadSize(<<"hello">>), Write(<<"certificate">>), ReadSize(<<"finished">>),
    ReadUntil(<<"OP", "LF">>), Write(<<"OK", "LF">>)>>

(* What is inserted into an iostream is written at once, and errors are    *)
(* not looked at.  Copying rdbuf() reads until the end of the stream, an   *)
(* error, or the time given to expires_after. *)
StreamClient == <<WriteQuietly(<<"Request", ".">>), DrainFor>>
StreamServer == <<WriteQuietly(<<"Response", ".">>), Drain>>

(* The programs by name.  netcat does anything a program can do. *)
ProgramsByName ==
  [write_synchronously       |-> WriteSynchronously,
   send_synchronously        |-> SendSynchronously,
   write_asynchronously      |-> WriteAsynchronously,
   send_asynchronously       |-> SendAsynchronously,
   write_free_synchronously  |-> WriteFreeSynchronously,
   write_free_asynchronously |-> WriteFreeAsynchronously,
   read_synchronously        |-> ReadSynchronously,
   receive_synchronously     |-> ReceiveSynchronously,
   read_asynchronously       |-> ReadAsynchronously,
   receive_asynchronously    |-> ReceiveAsynchronously,
   read_free_synchronously   |-> ReadFreeSynchronously,
   read_free_asynchronously  |-> ReadFreeAsynchronously,
   read_until_synchronously  |-> ReadUntilSynchronously,
   read_until_asynchronously |-> ReadUntilAsynchronously,
   shutdown_send_client      |-> ShutdownSendClient,
   shutdown_send_server      |-> ShutdownSendServer,
   tcp_client                |-> SyncTCPClient,
   tcp_service               |-> SyncTCPService,
   ssl_client                |-> SyncSSLClient,
   refusing_ssl_client       |-> RefusingSSLClient,
   ssl_service               |-> SyncSSLService,
   stream_client             |-> StreamClient,
   stream_server             |-> StreamServer,
   netcat                    |-> <<>>]

(* Who talks to whom.  Every client whose comment says so talks to netcat. *)
TalksToNetcat ==
  DOMAIN ProgramsByName \
    {"shutdown_send_client", "shutdown_send_server", "tcp_service", "ssl_client",
     "refusing_ssl_client", "ssl_service", "stream_server", "netcat"}

WriteFreeWithNetcat == {[client |-> "write_free_asynchronously", server |-> "netcat"]}

(* The pairs whose programs transfer all that they say they transfer.      *)
Partners ==
  ({[client |-> c, server |-> "netcat"] : c \in TalksToNetcat} \ WriteFreeWithNetcat)
    \cup {[client |-> "shutdown_send_client", server |-> "shutdown_send_server"],
          [client |-> "tcp_client", server |-> "tcp_service"],
          [client |-> "ssl_client", server |-> "ssl_service"],
          [client |-> "refusing_ssl_client", server |-> "ssl_service"],
          [client |-> "stream_client", server |-> "stream_server"]}

(* What their messages are made of. *)
Words ==
  {"Hel", "lo", "LF", "He", "llo", "Hi", "!", "OP", "OK", "hello", "certificate", "finished",
   "close_notify", "Request", "Response", "."}
===============================================================================
