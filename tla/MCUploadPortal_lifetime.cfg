SPECIFICATION Spec
CONSTANTS
    Uploads = {u1, u2, u3}
    MaxLoads = 1
PROPERTY
    UploadsHaveALifetime
