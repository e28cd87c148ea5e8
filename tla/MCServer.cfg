\* Three addresses, two of them tracked, against one thread, which may end.
CONSTANTS
    p1 = p1  p2 = p2  p3 = p3
    Peer <- Peers
    Minute = 3
    requests_per_minute = 1
    max_tracked_peers = 2
    read_timeout = 1  write_timeout = 1  request_deadline = 2
    max_header_bytes = 3  max_body_bytes = 2  max_response_bytes = 2
    Chunk = 2  ReceiveBuffer = 2  SendBuffer = 1
    Limits <- FewOrAll
    Requests <- Questions
SPECIFICATION Spec
INVARIANTS BusyTimeIsBounded AnsweredBodiesAreWholeOrEnded OnlyCrowdedOutPeersAreForgotten
PROPERTIES EveryoneIsAccepted
CHECK_DEADLOCK FALSE
