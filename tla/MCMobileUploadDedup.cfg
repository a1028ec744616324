\* Uploading an original whose first copy is in the trash, or unsealed.
SPECIFICATION UploadSpec
CONSTANTS
    u1 = u1
    u2 = u2
    s1 = s1
    s2 = s2
    photo = photo
    None = None
    Uploads = {u1, u2}
    Sessions = {s1, s2}
    FirstSession = s1
    Photos = {photo}
    PhotoOf <- MCPhotoOf
    Total = 2
    MaxChunk = 2
    Corrupting = {u1}
INVARIANT DedupesByChecksum
