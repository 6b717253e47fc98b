------------------------ MODULE CapabilitiesService ------------------------
(***************************************************************************)
(* The Capabilities service, rust-reapi/src/services/capabilities.rs: one  *)
(* constant reply, from which clients choose what to ask of the others.  A *)
(* size of 0 says nothing of a limit.                                      *)
(***************************************************************************)
EXTENDS Integers

\* Mutant of GetCapabilities: a compressor is advertised that is not there.
GetCapabilitiesWithBrotli ==
    [digest_functions |-> {"sha256"}, update_enabled |-> TRUE,
     max_batch_total_size_bytes |-> 0, max_cas_blob_size_bytes |-> 0,
     supported_compressors |-> {"zstd", "brotli"},
     supported_batch_update_compressors |-> {"zstd"},
     split_blob_support |-> FALSE, splice_blob_support |-> FALSE,
     exec_enabled |-> FALSE,
     low_api_version |-> <<2, 0, 0>>, high_api_version |-> <<2, 12, 0>>]

GetCapabilities ==
    [digest_functions |-> {"sha256"}, update_enabled |-> TRUE,
     max_batch_total_size_bytes |-> 0, max_cas_blob_size_bytes |-> 0,
     supported_compressors |-> {"zstd"},
     supported_batch_update_compressors |-> {"zstd"},
     split_blob_support |-> FALSE, splice_blob_support |-> FALSE,
     exec_enabled |-> FALSE,
     low_api_version |-> <<2, 0, 0>>, high_api_version |-> <<2, 12, 0>>]

=============================================================================
