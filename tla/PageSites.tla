----------------------------- MODULE PageSites ------------------------------
(***************************************************************************)
(* The asynchronous handlers of the web front end and the pages that start *)
(* them, as a table: what the code of a handler does (a work record) and   *)
(* what its page lets the user do (a control record).                      *)
(***************************************************************************)

(* What a handler does: "reads" what the user chose ("choice") or what the *)
(* backend holds; "raises" the flag, and lowers it again in every case, if *)
(* it succeeds, or "never"; "clears" the result first; if the work fails   *)
(* it keeps or clears the result ("onError"); "trusts" an error reply;     *)
(* "fails" and "hangs" say what the work can do; "partial" results show.   *)

OnFile == [reads |-> "choice", raises |-> TRUE, lowers |-> "always", clears |-> FALSE,
           onError |-> "keep", trusts |-> FALSE, fails |-> TRUE, hangs |-> FALSE,
           partial |-> FALSE]
OnServer == [OnFile EXCEPT !.reads = "backend"]
Unflagged == [OnServer EXCEPT !.raises = FALSE, !.lowers = "never"]

handleEncrypt     == OnFile
handleDecrypt     == OnFile
handleCompress    == [OnFile EXCEPT !.clears = TRUE]
handleDecompress  == OnFile
handleScan        == [OnFile EXCEPT !.clears = TRUE]
handleTextHash    == [OnFile EXCEPT !.lowers = "success"]
handleFileHash    == [OnFile EXCEPT !.lowers = "success"]
calculateHashes   == [OnFile EXCEPT !.lowers = "success"]
handleFileSelect  == [OnFile EXCEPT !.fails = FALSE, !.hangs = TRUE]
handleFileUpload  == [OnFile EXCEPT !.raises = FALSE, !.lowers = "never"]
encodeFile        == [OnFile EXCEPT !.raises = FALSE, !.lowers = "never"]
handleAnalyze     == [OnFile EXCEPT !.clears = TRUE, !.lowers = "success",
                                    !.fails = FALSE, !.partial = TRUE]
performLeakTest   == [OnServer EXCEPT !.trusts = TRUE]
loadLocalTorrents == [OnServer EXCEPT !.onError = "clear"]
refreshNetwork    == [OnServer EXCEPT !.onError = "clear"]
fetchIPData       == [OnServer EXCEPT !.onError = "clear"]
fetchLocalTorrents == [Unflagged EXCEPT !.onError = "clear"]
fetchNetworkInfo  == Unflagged
fetchStatus       == Unflagged
fetchTorrentCount == Unflagged
fetchMetrics      == Unflagged
checkSecurity     == [OnServer EXCEPT !.raises = FALSE, !.trusts = TRUE]

-----------------------------------------------------------------------------
(* How a page starts its handlers: "mount", "timer", "click", "choose"; a  *)
(* button may be disabled while the flag is up, or until there is a choice.*)

Button == [starts |-> {"click"}, disabled |-> {"busy", "nothing"}]
Loader == [starts |-> {"mount", "click"}, disabled |-> {"busy"}]
Poller == [starts |-> {"mount", "timer"}, disabled |-> {}]
Picker == [starts |-> {"choose"}, disabled |-> {}]

encryptTab     == Button
decryptTab     == Button
compressTab    == Button
decompressTab  == Button
scanCard       == Button
textTab        == Button
fileTab        == Button
hasherCard     == Picker
metadataCard   == Picker
binaryCard     == Picker
base64Card     == [Button EXCEPT !.disabled = {"nothing"}]
analyzerCard   == Button
leakCards      == [starts |-> {"click", "timer"}, disabled |-> {"busy"}]
searchHeader   == Loader
networkHeader  == Loader
ipHeader       == Loader
ipMount        == [starts |-> {"mount"}, disabled |-> {}]
tickerMount    == [starts |-> {"mount"}, disabled |-> {}]
tickerTimersOnce == [starts |-> {"mount"}, disabled |-> {}]
tickerTimers   == Poller
dashboardTimer == Poller
monitorTimer   == Poller

\* page -> handler -> what the code and the page do.
Sites == [
  encryption |-> [encrypt |-> <<handleEncrypt, encryptTab>>, decrypt |-> <<handleDecrypt, decryptTab>>],
  compression |-> [compress |-> <<handleCompress, compressTab>>,
                   decompress |-> <<handleDecompress, decompressTab>>],
  virusChecker |-> [scan |-> <<handleScan, scanCard>>],
  hashGenerator |-> [text |-> <<handleTextHash, textTab>>, file |-> <<handleFileHash, fileTab>>],
  fileHasher |-> [hashes |-> <<calculateHashes, hasherCard>>],
  metadataEditor |-> [metadata |-> <<handleFileSelect, metadataCard>>],
  binaryViewer |-> [bytes |-> <<handleFileUpload, binaryCard>>],
  base64 |-> [encode |-> <<encodeFile, base64Card>>],
  networkAnalyzer |-> [probe |-> <<handleAnalyze, analyzerCard>>],
  leakChecker |-> [leak |-> <<performLeakTest, leakCards>>],
  search |-> [torrents |-> <<loadLocalTorrents, searchHeader>>],
  network |-> [status |-> <<refreshNetwork, networkHeader>>],
  ipDashboard |-> [ip |-> <<fetchIPData, ipHeader>>, torrents |-> <<fetchLocalTorrents, ipMount>>],
  ticker |-> [network |-> <<fetchNetworkInfo, tickerMount>>,
              status |-> <<fetchStatus, tickerTimers>>,
              count |-> <<fetchTorrentCount, tickerTimers>>],
  dashboard |-> [metrics |-> <<fetchMetrics, dashboardTimer>>],
  monitor |-> [status |-> <<checkSecurity, monitorTimer>>]]
=============================================================================
